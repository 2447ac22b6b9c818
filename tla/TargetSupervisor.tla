-------------------------- MODULE TargetSupervisor --------------------------
(***************************************************************************)
(* The client's command line, and the supervisor that runs one isolated    *)
(* client process per target.                                              *)
(*                                                                         *)
(* A command line is a sequence of options.  An option is a name and a     *)
(* parsed value; the name is that of the ClientArgs field it sets.  An     *)
(* optional field is a set with at most one element, and an address keeps  *)
(* its family, its kind and its port.  What an accepted multi-target line  *)
(* starts is supervised child by child: a child is a process that may end  *)
(* at any time, and polling, killing or waiting for it may fail.           *)
(***************************************************************************)
EXTENDS Integers, Sequences, SequencesExt, FiniteSets

CONSTANTS Presets,         \* command lines to start from
          Options,         \* options that may be added to them
          MaxExtra,        \* how many
          MaxTargets,      \* MAX_CONCURRENT_TARGETS
          MaxFallbacks,    \* MAX_FALLBACK_ADDRESS_ARGUMENTS
          MaxCandidates,   \* MAX_PARALLEL_CONNECT_CANDIDATES
          MaxSessions,     \* MAX_CLIENT_SESSIONS
          MaxReconnects,   \* MAX_RECONNECT_ATTEMPTS
          MaxProbes,       \* MAX_INPUT_LATENCY_PROBES
          MaxTimeout,      \* MAX_PAIRING_TIMEOUT_SECS
          Faults           \* of "spawn", "attach", "poll", "kill", "wait", "forward", "signal"

VARIABLES line,     \* the command line typed so far
          extra,    \* options added to the preset
          phase,    \* "typing", "refused", "accepted", "supervise"
          signal,   \* Ctrl-C: "none", "raised" or "broken"
          sup,      \* the supervisor
          kids      \* its children

vars == <<line, extra, phase, signal, sup, kids>>

-----------------------------------------------------------------------------
(* Parsing the command line. *)

Address(family, cast, port) == [cast |-> cast, family |-> family, port |-> port]

DefaultArgs ==
    [connect |-> Address(4, "unicast", 9000), fallbacks |-> <<>>, targets |-> <<>>,
     bind |-> Address(4, "unspecified", 0), stun |-> {}, alias |-> FALSE, timeout |-> 60,
     profile |-> FALSE, frames |-> {}, sessions |-> 1, reconnects |-> 0, probes |-> 0,
     candidate |-> FALSE, ice |-> FALSE, width |-> 1280, height |-> 720, approve |-> FALSE,
     secret |-> FALSE, inject |-> FALSE, cert |-> FALSE, key |-> FALSE, peer |-> {},
     lab |-> FALSE, version |-> FALSE, seen |-> {}, refused |-> FALSE]

\* What no arm takes: an unknown option, a simulated mode, the role of the other
\* binary, a probe count out of range.
Refuses(o) ==
    IF o.name = "probes" THEN o.value \notin 1..MaxProbes
                         ELSE o.name \notin DOMAIN DefaultArgs \ {"seen", "refused"}

\* One arm of the parser.  Repeated targets and fallback addresses gather, any
\* other option overwrites.
Arm(c, o) ==
    LET s == [c EXCEPT !.seen = @ \cup {o.name}]
    IN  CASE Refuses(o) -> [s EXCEPT !.refused = TRUE]
          [] ~ Refuses(o) /\ o.name \in {"targets", "fallbacks"}
               -> [s EXCEPT ![o.name] = Append(@, o.value)]
          [] OTHER -> [s EXCEPT ![o.name] = o.value]

FirstOnly(s) == FoldLeft(LAMBDA acc, x : IF Contains(acc, x) THEN acc ELSE Append(acc, x), <<>>, s)

GeometryValid(c) == \A d \in {c.width, c.height} : d > 0 /\ d % 2 = 0

BoundsValid(c) ==
    /\ c.frames # {0}
    /\ ~ (c.inject /\ c.frames # {})
    /\ c.sessions \in 1..MaxSessions
    /\ c.reconnects <= MaxReconnects
    /\ c.timeout \in 1..MaxTimeout

\* The fallback addresses kept: the connect address and repetitions go.
KeptFallbacks(c) == FirstOnly(SelectSeq(c.fallbacks, LAMBDA a : a # c.connect))

ConnectionCandidates(c) == {c.connect} \cup Range(KeptFallbacks(c))

FallbacksValid(c) ==
    /\ Len(c.fallbacks) <= MaxFallbacks
    /\ Len(KeptFallbacks(c)) + 1 <= MaxCandidates
    /\ Len(KeptFallbacks(c)) > 0 => c.targets = <<>> /\ ~ c.lab
    /\ c.bind.family = 4 => \A a \in ConnectionCandidates(c) : a.family = 4

TargetsValid(c) ==
    /\ Len(c.targets) <= MaxTargets
    /\ c.targets # <<>> => /\ c.seen \cap {"connect", "peer", "width", "height"} = {}
                           /\ ~ c.lab /\ ~ c.inject /\ c.bind.port = 0

\* A single target becomes the connection, after the checks above.
Settled(c) ==
    LET t == FirstOnly(c.targets)
        d == [c EXCEPT !.targets = t, !.fallbacks = KeptFallbacks(c)]
    IN  IF Len(t) = 1 THEN [d EXCEPT !.connect = t[1].addr, !.peer = {t[1].cert}] ELSE d

NotUnicast(a) == a.cast # "unicast"

StunValid(c) ==
    \A s \in c.stun : /\ s.port # 0 /\ ~ NotUnicast(s)
                      /\ s.family = c.bind.family
                      /\ Len(c.targets) <= 1
                      /\ ~ c.lab

\* Several sessions and reconnection are for the secure headless mode.
HeadlessValid(c) ==
    c.sessions > 1 \/ c.reconnects > 0 =>
        c.frames # {} /\ ~ c.lab /\ ~ c.inject /\ c.targets = <<>>

OtherMode(c) == c.frames # {} \/ c.sessions > 1 \/ c.reconnects > 0 \/ c.lab \/ c.inject

ProbesValid(c) ==
    /\ c.probes > 0 => ~ OtherMode(c)
    /\ c.candidate => /\ ~ NotUnicast(c.bind) /\ ~ OtherMode(c)
                      /\ c.probes = 0 /\ c.targets = <<>>
    /\ c.ice => /\ c.connect.family = 4 /\ c.bind.family = 4 /\ ~ NotUnicast(c.bind)
                /\ ~ OtherMode(c) /\ c.probes = 0 /\ ~ c.candidate
                /\ c.targets = <<>> /\ c.fallbacks = <<>> /\ c.stun = {}

CredentialsValid(c) ==
    IF c.lab THEN /\ ~ c.cert /\ ~ c.key /\ c.peer = {}
                  /\ c.approve \/ c.secret
             ELSE /\ ~ c.alias /\ ~ c.approve /\ ~ c.secret /\ ~ c.profile
                  /\ c.cert /\ c.key
                  /\ c.peer # {} \/ c.targets # <<>>

Parsed(l) == FoldLeft(Arm, DefaultArgs, l)

\* parse_client_args_from: {} or the accepted configuration.
ParseClientArgs(l) ==
    LET c == Parsed(l)
        d == Settled(c)
    IN  IF /\ ~ c.refused
           /\ GeometryValid(c) /\ BoundsValid(c) /\ FallbacksValid(c) /\ TargetsValid(c)
           /\ StunValid(d) /\ HeadlessValid(d) /\ ProbesValid(d)
           /\ d.version \/ CredentialsValid(d)
          THEN {d} ELSE {}

Option(name, value) == [name |-> name, value |-> value]

\* The command line of the child for target t.
PlanTargetChildArgs(c, t) ==
    <<Option("connect", t.addr), Option("peer", {t.cert}), Option("cert", c.cert),
      Option("key", c.key), Option("bind", c.bind), Option("timeout", c.timeout)>>
      \o (IF c.frames # {} THEN <<Option("frames", c.frames)>> ELSE <<>>)
      \o (IF c.probes > 0 THEN <<Option("probes", c.probes)>> ELSE <<>>)

-----------------------------------------------------------------------------
(* The supervisor. *)

NoSup == [pc |-> "idle", i |-> 0, left |-> 0, capture |-> FALSE,
          cancelled |-> FALSE, failed |-> FALSE]

\* TargetChild with its ChildState; `named` once a failure names it unreaped.
NewKid(capture) == [live |-> TRUE, clean |-> FALSE, killed |-> FALSE, state |-> "Running",
                    threads |-> IF capture THEN 2 ELSE 0, named |-> FALSE]

At(pc) == phase = "supervise" /\ sup.pc = pc
Kid == kids[sup.i]
AtEnd == sup.i = Len(kids)
AllReaped == \A k \in DOMAIN kids : kids[k].state = "Reaped"

Init ==
    /\ line \in Presets
    /\ extra = 0
    /\ phase = "typing"
    /\ signal = "none"
    /\ sup = NoSup
    /\ kids = <<>>

Type(o) ==
    /\ phase = "typing" /\ extra < MaxExtra
    /\ line' = Append(line, o)
    /\ extra' = extra + 1
    /\ UNCHANGED <<phase, signal, sup, kids>>

Launch ==
    /\ phase = "typing"
    /\ phase' = IF ParseClientArgs(line) = {} THEN "refused" ELSE "accepted"
    /\ UNCHANGED <<line, extra, signal, sup, kids>>

\* main and run_multi_target: more than one target is a supervisor's work.
RunMultiTarget ==
    /\ phase = "accepted"
    /\ \E c \in ParseClientArgs(line) :
         /\ ~ c.version /\ Len(c.targets) > 1
         /\ sup' = [NoSup EXCEPT !.pc = "spawn", !.left = Len(c.targets),
                                 !.capture = c.probes > 0]
    /\ phase' = "supervise"
    /\ line' = <<>>
    /\ extra' = 0
    /\ UNCHANGED <<signal, kids>>

\* One round of the spawn loop; Ctrl-C is polled before the spawn.
Spawn ==
    /\ At("spawn")
    /\ IF sup.left = 0
         THEN sup' = [sup EXCEPT !.pc = "poll", !.i = 1] /\ UNCHANGED kids
       ELSE IF signal # "none"
         THEN /\ sup' = [sup EXCEPT !.pc = IF kids = <<>> THEN "join" ELSE "killall", !.i = 1,
                                    !.cancelled = TRUE, !.failed = @ \/ signal = "broken"]
              /\ UNCHANGED kids
       ELSE \/ /\ kids' = Append(kids, NewKid(sup.capture))
               /\ sup' = [sup EXCEPT !.left = @ - 1]
            \/ /\ Faults \cap (IF sup.capture THEN {"spawn", "attach"} ELSE {"spawn"}) # {}
               /\ sup' = [sup EXCEPT !.pc = IF kids = <<>> THEN "done" ELSE "terminate",
                                     !.i = 1, !.failed = TRUE]
               /\ UNCHANGED kids
    /\ UNCHANGED <<line, extra, phase, signal>>

\* The next child of a loop over the children, or what follows the loop.
Onward(s, after) == IF AtEnd THEN [s EXCEPT !.pc = after, !.i = 1] ELSE [s EXCEPT !.i = @ + 1]

\* kill() on child i: signalled, or an error; a child already reaped has none.
Killed(ok) == IF Kid.state = "Reaped" \/ ~ ok THEN kids ELSE [kids EXCEPT ![sup.i].killed = TRUE]

MayFail(what) == IF what \in Faults THEN BOOLEAN ELSE {TRUE}

\* Cancellation kills every child that is not reaped and remembers a failure.
KillAll ==
    /\ At("killall")
    /\ \E ok \in MayFail("kill") :
         /\ kids' = Killed(ok)
         /\ sup' = [Onward(sup, "poll") EXCEPT !.failed = @ \/ (~ ok /\ Kid.state # "Reaped")]
    /\ UNCHANGED <<line, extra, phase, signal>>

\* try_wait on one child of the supervision loop.  A poll that fails cancels,
\* kills the child and waits for it.
PollChild ==
    /\ At("poll")
    /\ \/ /\ Kid.state = "Reaped" \/ Kid.live
          /\ sup' = Onward(sup, "decide") /\ UNCHANGED kids
       \/ /\ Kid.state # "Reaped" /\ ~ Kid.live
          /\ kids' = [kids EXCEPT ![sup.i].state = "Reaped"]
          /\ sup' = [Onward(sup, "decide") EXCEPT !.failed = @ \/ ~ Kid.clean]
       \/ /\ Kid.state # "Reaped" /\ "poll" \in Faults
          /\ \E ok \in MayFail("kill") :
               /\ kids' = [Killed(ok) EXCEPT ![sup.i].state = "PollFailed"]
               /\ sup' = [IF ok THEN [sup EXCEPT !.pc = "wait"] ELSE Onward(sup, "decide")
                            EXCEPT !.cancelled = TRUE, !.failed = TRUE]
    /\ UNCHANGED <<line, extra, phase, signal>>

\* Faulty: the child counts as reaped whatever the wait returned.
WaitKilledBlindly ==
    /\ At("wait")
    /\ \E ok \in MayFail("wait") : ok => ~ Kid.live
    /\ kids' = [kids EXCEPT ![sup.i].state = "Reaped"]
    /\ sup' = Onward(sup, "decide")
    /\ UNCHANGED <<line, extra, phase, signal>>

\* The blocking wait after that kill.
WaitKilled ==
    /\ At("wait")
    /\ \E ok \in MayFail("wait") :
         /\ ok => ~ Kid.live
         /\ kids' = [kids EXCEPT ![sup.i].state = IF ok THEN "Reaped" ELSE @]
    /\ sup' = Onward(sup, "decide")
    /\ UNCHANGED <<line, extra, phase, signal>>

\* After a round: finish, kill the rest when a child could not be polled, reap
\* when cancelled, or sleep and listen for Ctrl-C.
Decide ==
    /\ At("decide")
    /\ sup' = IF AllReaped THEN [sup EXCEPT !.pc = "join"]
              ELSE IF \E k \in DOMAIN kids : kids[k].state = "PollFailed"
                THEN [sup EXCEPT !.pc = "killrest", !.cancelled = TRUE]
              ELSE [sup EXCEPT !.pc = IF sup.cancelled THEN "reap" ELSE "select"]
    /\ UNCHANGED <<line, extra, phase, signal, kids>>

KillRest ==
    /\ At("killrest")
    /\ \E ok \in MayFail("kill") : kids' = Killed(ok)
    /\ sup' = Onward(sup, "reap")
    /\ UNCHANGED <<line, extra, phase, signal>>

Select ==
    /\ At("select")
    /\ sup' = IF signal # "none"
                THEN [sup EXCEPT !.pc = "killall", !.cancelled = TRUE,
                                 !.failed = @ \/ signal = "broken"]
                ELSE [sup EXCEPT !.pc = "poll"]
    /\ UNCHANGED <<line, extra, phase, signal, kids>>

\* try_wait on one child while reaping; a failed poll turns into a blocking wait.
ReapChild ==
    /\ At("reap")
    /\ \/ /\ Kid.state = "Reaped" \/ Kid.live
          /\ sup' = Onward(sup, "reaped") /\ UNCHANGED kids
       \/ /\ Kid.state # "Reaped" /\ ~ Kid.live
          /\ kids' = [kids EXCEPT ![sup.i].state = "Reaped"]
          /\ sup' = Onward(sup, "reaped")
       \/ /\ Kid.state # "Reaped" /\ "poll" \in Faults
          /\ sup' = [sup EXCEPT !.pc = "reapwait", !.failed = TRUE] /\ UNCHANGED kids
    /\ UNCHANGED <<line, extra, phase, signal>>

ReapWait ==
    /\ At("reapwait")
    /\ \E ok \in MayFail("wait") :
         /\ ok => ~ Kid.live
         /\ kids' = [kids EXCEPT ![sup.i].state = IF ok THEN "Reaped" ELSE "PollFailed"]
    /\ sup' = Onward(sup, "reaped")
    /\ UNCHANGED <<line, extra, phase, signal>>

\* All reaped, another round, or the reap deadline: who is left is named.
ReapRound ==
    /\ At("reaped")
    /\ \/ /\ sup' = [sup EXCEPT !.pc = IF AllReaped THEN "join" ELSE "reap"]
          /\ UNCHANGED kids
       \/ /\ ~ AllReaped
          /\ sup' = [sup EXCEPT !.pc = "join", !.failed = TRUE]
          /\ kids' = [k \in DOMAIN kids |-> [kids[k] EXCEPT !.named = @ \/ kids[k].state # "Reaped"]]
    /\ UNCHANGED <<line, extra, phase, signal>>

\* The forwarders of a child drain its pipes until they end, so joining them
\* waits for the process; a write to the shared output may have failed.
Forwarded(ok) == Kid.threads > 0 => ~ Kid.live /\ ok \in MayFail("forward")

\* The forwarders of a reaped child are joined.
JoinChild ==
    /\ At("join")
    /\ IF kids = <<>> THEN sup' = [sup EXCEPT !.pc = "done"] /\ UNCHANGED kids
       ELSE IF Kid.state = "Reaped"
         THEN \E ok \in BOOLEAN :
                /\ Forwarded(ok)
                /\ kids' = [kids EXCEPT ![sup.i].threads = 0]
                /\ sup' = [Onward(sup, "done") EXCEPT !.failed = @ \/ (~ ok /\ Kid.threads > 0)]
         ELSE /\ kids' = [kids EXCEPT ![sup.i].named = TRUE]
              /\ sup' = [Onward(sup, "done") EXCEPT !.failed = TRUE]
    /\ UNCHANGED <<line, extra, phase, signal>>

\* terminate_and_reap, after a failed spawn: kill all, then wait for each.
TerminateKill ==
    /\ At("terminate")
    /\ \E ok \in MayFail("kill") : kids' = Killed(ok)
    /\ sup' = Onward(sup, "terminatewait")
    /\ UNCHANGED <<line, extra, phase, signal>>

\* A wait that fails is ignored, and the error names the target that did not start.
TerminateWait ==
    /\ At("terminatewait")
    /\ \E ok \in MayFail("wait") :
         /\ ok => ~ Kid.live
         /\ Forwarded(TRUE)
         /\ kids' = [kids EXCEPT ![sup.i].state = IF ok THEN "Reaped" ELSE @,
                                 ![sup.i].threads = 0]
    /\ sup' = Onward(sup, "done")
    /\ UNCHANGED <<line, extra, phase, signal>>

\* A child ends by itself, well or not, or by the signal it was sent.
Exit(k) ==
    /\ kids[k].live
    /\ \E clean \in (IF kids[k].killed THEN {FALSE} ELSE BOOLEAN) :
         kids' = [kids EXCEPT ![k].live = FALSE, ![k].clean = clean]
    /\ UNCHANGED <<line, extra, phase, signal, sup>>

CtrlC ==
    /\ phase = "supervise" /\ signal = "none" /\ sup.pc # "done"
    /\ signal' \in {"raised"} \cup (IF "signal" \in Faults THEN {"broken"} ELSE {})
    /\ UNCHANGED <<line, extra, phase, sup, kids>>

Supervise ==
    \/ Spawn \/ KillAll \/ PollChild \/ WaitKilled \/ Decide \/ KillRest \/ Select
    \/ ReapChild \/ ReapWait \/ ReapRound \/ JoinChild \/ TerminateKill \/ TerminateWait

Next ==
    \/ \E o \in Options : Type(o)
    \/ Launch \/ RunMultiTarget
    \/ Supervise
    \/ \E k \in DOMAIN kids : Exit(k)
    \/ CtrlC

Spec == Init /\ [][Next]_vars

-----------------------------------------------------------------------------
(* Properties. *)

\* What an accepted line runs uses the credentials of one mode only, a secure
\* one has a pinned certificate for every host it contacts, and each child of a
\* multi-target line is a single secure client of its own target under the same
\* identity.  (A child's own parser refuses it in one case: the family check is
\* made on the connect address before the targets are known, so an IPv6 target
\* passes the parent with an IPv4 bind.)
LaunchSound ==
    phase = "accepted" =>
        \A c \in ParseClientArgs(line) : ~ c.version =>
            /\ c.lab => ~ c.cert /\ ~ c.key /\ c.peer = {} /\ c.targets = <<>>
            /\ ~ c.lab => c.cert /\ c.key /\ ~ c.approve /\ ~ c.secret
            /\ ~ c.lab /\ Len(c.targets) <= 1 => c.peer # {}
            /\ Len(c.targets) > 1 =>
                 \A t \in Range(c.targets) :
                    LET child == ParseClientArgs(PlanTargetChildArgs(c, t))
                    IN  /\ child = {} <=> (t.addr.family = 6 /\ c.bind.family = 4)
                        /\ \A d \in child :
                             /\ d.targets = <<>> /\ d.connect = t.addr /\ d.peer = {t.cert}
                             /\ d.probes = c.probes /\ d.frames = c.frames /\ ~ d.lab

\* What the supervisor reports (ADR 0016): success only when every child was
\* started, ended well and was reaped and nothing was cancelled; a child that
\* was not reaped makes the run fail and is named, except after a spawn that
\* failed, whose error names its own target only; a reaped child keeps no
\* forwarder.
SupervisorReports ==
    At("done") =>
        /\ ~ sup.failed /\ ~ sup.cancelled =>
             sup.left = 0 /\ \A k \in DOMAIN kids : kids[k].state = "Reaped" /\ kids[k].clean
        /\ \A k \in DOMAIN kids : kids[k].state # "Reaped" =>
             sup.failed /\ (kids[k].named \/ (sup.left > 0 /\ ~ sup.cancelled))
        /\ \A k \in DOMAIN kids : kids[k].state = "Reaped" => kids[k].threads = 0

\* A child counts as reaped only when its process has ended.
ReapedHasEnded == \A k \in DOMAIN kids : kids[k].state = "Reaped" => ~ kids[k].live

SupervisorInv == LaunchSound /\ SupervisorReports /\ ReapedHasEnded

=============================================================================
