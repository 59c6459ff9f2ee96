------------------------------ MODULE Sinkhole ------------------------------
(***************************************************************************)
(* The life of the per-analysis sinkhole of backend/app/sinkhole.py: the   *)
(* class Sinkhole from start() to stop(), and what its commands leave on   *)
(* the host.                                                               *)
(*                                                                         *)
(* Each analysis that asks for the sinkhole creates a docker network of    *)
(* its own, binds DNS, HTTP and HTTPS listeners on the gateway of that     *)
(* network, and installs a NAT chain entered from a rule at the head of    *)
(* the host's PREROUTING chain, which rewrites every packet that leaves    *)
(* the network to the gateway. start() either ends with all of it up       *)
(* ("up"), gives up after a command that failed ("refused"), or lets an    *)
(* exception out ("raised").                                               *)
(*                                                                         *)
(* A command run through _run may succeed, exit non-zero having changed    *)
(* nothing, or raise (its timeout expired or its program is missing); when *)
(* it raises, the change it was asked for may have been made or not.       *)
(*                                                                         *)
(* The state is one value per analysis: the fields of the object, and the  *)
(* host's networks, sockets, chains and rules.                             *)
(***************************************************************************)
EXTENDS Integers

CONSTANTS
    Analyses,     \* analyses that run a sinkhole on this host
    Subnets,      \* address ranges docker can give to a network
    NoSubnet,     \* the range of a network that was never created
    Containers    \* names of the containers an analysis may run

ASSUME SubnetAssumption == NoSubnet \notin Subnets

Ports == {53, 80, 443}

VARIABLES
    step,             \* where start() or stop() of the analysis is
    active,           \* analyses whose Sinkhole.active is true
    status,           \* Sinkhole.status, its wording left out
    networkCreated,   \* those whose _network_created is true
    natInstalled,     \* those whose _nat_installed is true
    sockets,          \* listening sockets open on the gateway address
    serving,          \* listeners whose serving thread is running
    networks,         \* analyses whose docker network exists on the host
    subnet,           \* the range of the analysis's network
    chain,            \* how much of the analysis's NAT chain exists
    rules,            \* analyses with a rule in PREROUTING
    beneath,          \* the rules that were in PREROUTING when this one went in
    attached,         \* containers running on the analysis's network
    mishap            \* history: those for which a removing command did not succeed

objectVars == <<active, status, networkCreated, natInstalled>>
listenerVars == <<sockets, serving>>
networkVars == <<networks, subnet>>
natVars == <<chain, rules, beneath>>
sinkholeVars == <<step, objectVars, listenerVars, networkVars, natVars, attached, mishap>>

StartSteps == {"ca", "create", "inspect", "bind", "nat", "threads", "cleanup"}
StopSteps == {"join", "delete", "flush", "drop", "remove"}
EndSteps == {"idle", "refused", "raised", "up", "stopped", "broken"}
Steps == StartSteps \cup StopSteps \cup EndSteps

Outcomes == {"ok", "fail", "lost", "late"}
Done(o) == o \in {"ok", "late"}       \* the command had its effect
Raises(o) == o \in {"lost", "late"}   \* the call raised instead of returning

SinkholeTypeOK ==
    /\ step \in [Analyses -> Steps]
    /\ active \subseteq Analyses
    /\ status \in [Analyses -> {"not_started", "refused", "capturing", "success"}]
    /\ networkCreated \subseteq Analyses
    /\ natInstalled \subseteq Analyses
    /\ sockets \in [Analyses -> SUBSET Ports]
    /\ serving \in [Analyses -> SUBSET Ports]
    /\ networks \subseteq Analyses
    /\ subnet \in [Analyses -> Subnets \cup {NoSubnet}]
    /\ chain \in [Analyses -> {"absent", "empty", "return", "dnat"}]
    /\ rules \subseteq Analyses
    /\ beneath \in [Analyses -> SUBSET Analyses]
    /\ attached \in [Analyses -> SUBSET Containers]
    /\ mishap \subseteq Analyses

SinkholeInit ==
    /\ step = [a \in Analyses |-> "idle"]
    /\ active = {}
    /\ status = [a \in Analyses |-> "not_started"]
    /\ networkCreated = {}
    /\ natInstalled = {}
    /\ sockets = [a \in Analyses |-> {}]
    /\ serving = [a \in Analyses |-> {}]
    /\ networks = {}
    /\ subnet = [a \in Analyses |-> NoSubnet]
    /\ chain = [a \in Analyses |-> "absent"]
    /\ rules = {}
    /\ beneath = [a \in Analyses |-> {}]
    /\ attached = [a \in Analyses |-> {}]
    /\ mishap = {}

Goto(a, s) == step' = [step EXCEPT ![a] = s]

\* The next step of a method whose command had outcome o: an exception leaves
\* through to "raise", a non-zero exit goes to "fail".
Branch(a, o, ok, fail, raise) ==
    Goto(a, IF Raises(o) THEN raise ELSE IF o = "ok" THEN ok ELSE fail)

\* Docker's address manager gives a new network a range no network has.
FreeSubnets == Subnets \ {subnet[a] : a \in networks}

-----------------------------------------------------------------------------
(* start() *)

\* The call of start(): without openssl it gives up at once.
Start(a) ==
    /\ step[a] = "idle"
    /\ \/ /\ Goto(a, "ca")
          /\ UNCHANGED status
       \/ /\ Goto(a, "refused")
          /\ status' = [status EXCEPT ![a] = "refused"]
    /\ UNCHANGED <<active, networkCreated, natInstalled, listenerVars,
                   networkVars, natVars, attached, mishap>>

\* A step of start() that returns the refusal r when its command exits non-zero.
RefuseOn(a, o) ==
    status' = IF o = "fail" THEN [status EXCEPT ![a] = "refused"] ELSE status

GenerateCA(a) ==
    /\ step[a] = "ca"
    /\ \E o \in Outcomes :
          /\ Branch(a, o, "create", "refused", "raised")
          /\ RefuseOn(a, o)
    /\ UNCHANGED <<active, networkCreated, natInstalled, listenerVars,
                   networkVars, natVars, attached, mishap>>

\* docker network create: the object remembers the network only if the
\* command returned, so a timeout after the fact leaves one nobody owns.
CreateNetwork(a) ==
    /\ step[a] = "create"
    /\ \E o \in Outcomes :
          /\ IF Done(o)
             THEN \E s \in FreeSubnets :
                     /\ networks' = networks \cup {a}
                     /\ subnet' = [subnet EXCEPT ![a] = s]
             ELSE UNCHANGED networkVars
          /\ Branch(a, o, "inspect", "refused", "raised")
          /\ RefuseOn(a, o)
          /\ networkCreated' = IF o = "ok" THEN networkCreated \cup {a} ELSE networkCreated \ {a}
    /\ UNCHANGED <<active, natInstalled, listenerVars, natVars, attached, mishap>>

\* Reading the gateway and subnet of the new network.
InspectNetwork(a) ==
    /\ step[a] = "inspect"
    /\ \E o \in Outcomes : Branch(a, o, "bind", "cleanup", "raised")
    /\ UNCHANGED <<objectVars, listenerVars, networkVars, natVars, attached, mishap>>

\* The three sockets are bound in order; the first that cannot be bound ends
\* the attempt with the earlier ones open.
BindSockets(a) ==
    /\ step[a] = "bind"
    /\ \E opened \in {{}, {53}, {53, 80}, Ports} :
          /\ sockets' = [sockets EXCEPT ![a] = opened]
          /\ Goto(a, IF opened = Ports THEN "nat" ELSE "cleanup")
    /\ UNCHANGED <<objectVars, serving, networkVars, natVars, attached, mishap>>

\* The first three commands of _setup_nat fill the chain: -N, -A RETURN, -A DNAT.
Longer == [absent |-> "empty", empty |-> "return", return |-> "dnat"]

FillChain(a) ==
    /\ step[a] = "nat"
    /\ chain[a] # "dnat"
    /\ \E o \in Outcomes :
          /\ chain' = IF Done(o) THEN [chain EXCEPT ![a] = Longer[@]] ELSE chain
          /\ Branch(a, o, "nat", "cleanup", "raised")
    /\ UNCHANGED <<objectVars, listenerVars, networkVars, rules, beneath, attached, mishap>>

\* Mutant: the rule is appended to PREROUTING, after all others.
RuleAppended(a) ==
    /\ step[a] = "nat"
    /\ chain[a] = "dnat"
    /\ \E o \in Outcomes :
          /\ rules' = IF Done(o) THEN rules \cup {a} ELSE rules
          /\ beneath' = [b \in Analyses |-> IF Done(o) /\ b \in rules THEN beneath[b] \cup {a}
                                            ELSE beneath[b]]
          /\ natInstalled' = IF o = "ok" THEN natInstalled \cup {a} ELSE natInstalled
          /\ Branch(a, o, "threads", "cleanup", "raised")
    /\ UNCHANGED <<active, status, networkCreated, listenerVars, networkVars,
                   chain, attached, mishap>>

\* The fourth inserts the rule that enters the chain, at the head of
\* PREROUTING; only then does the object count the NAT as installed.
InsertRule(a) ==
    /\ step[a] = "nat"
    /\ chain[a] = "dnat"
    /\ \E o \in Outcomes :
          /\ IF Done(o)
             THEN /\ rules' = rules \cup {a}
                  /\ beneath' = [beneath EXCEPT ![a] = rules]
             ELSE UNCHANGED <<rules, beneath>>
          /\ natInstalled' = IF o = "ok" THEN natInstalled \cup {a} ELSE natInstalled
          /\ Branch(a, o, "threads", "cleanup", "raised")
    /\ UNCHANGED <<active, status, networkCreated, listenerVars, networkVars,
                   chain, attached, mishap>>

\* The three serving threads start, and the sinkhole calls itself active.
StartThreads(a) ==
    /\ step[a] = "threads"
    /\ serving' = [serving EXCEPT ![a] = Ports]
    /\ active' = active \cup {a}
    /\ status' = [status EXCEPT ![a] = "capturing"]
    /\ Goto(a, "up")
    /\ UNCHANGED <<networkCreated, natInstalled, sockets, networkVars, natVars,
                   attached, mishap>>

NoteMishap(a, o) == mishap' = IF o = "ok" THEN mishap ELSE mishap \cup {a}

\* docker network rm, which docker refuses while a container is attached.
RemoveNetwork(a, o) ==
    /\ Done(o) => attached[a] = {}
    /\ networks' = IF Done(o) THEN networks \ {a} ELSE networks
    /\ NoteMishap(a, o)

\* Mutant: the sockets that were bound are not closed.
CleanupKeepsSockets(a) ==
    /\ step[a] = "cleanup"
    /\ \E o \in Outcomes :
          /\ IF a \in networkCreated
             THEN RemoveNetwork(a, o)
             ELSE o = "ok" /\ UNCHANGED <<networks, mishap>>
          /\ Goto(a, IF Raises(o) THEN "raised" ELSE "refused")
          /\ status' = IF Raises(o) THEN status ELSE [status EXCEPT ![a] = "refused"]
    /\ UNCHANGED <<active, networkCreated, natInstalled, listenerVars, subnet, natVars, attached>>

\* _cleanup_partial and the return after it. Its _teardown_nat returns at once,
\* _nat_installed being false wherever start() cleans up.
CleanupPartial(a) ==
    /\ step[a] = "cleanup"
    /\ sockets' = [sockets EXCEPT ![a] = {}]
    /\ \E o \in Outcomes :
          /\ IF a \in networkCreated
             THEN RemoveNetwork(a, o)
             ELSE o = "ok" /\ UNCHANGED <<networks, mishap>>
          /\ Goto(a, IF Raises(o) THEN "raised" ELSE "refused")
          /\ status' = IF Raises(o) THEN status ELSE [status EXCEPT ![a] = "refused"]
    /\ UNCHANGED <<active, networkCreated, natInstalled, serving, subnet, natVars, attached>>

StartStep(a) ==
    \/ GenerateCA(a) \/ CreateNetwork(a) \/ InspectNetwork(a) \/ BindSockets(a)
    \/ FillChain(a) \/ InsertRule(a) \/ StartThreads(a) \/ CleanupPartial(a)

-----------------------------------------------------------------------------
(* While it is up: the serving threads and the containers it contains *)

Stopping(a) == step[a] \in StopSteps \cup {"stopped", "broken"}

\* A serving loop polls the stop flag and returns.
LoopSeesStop(a, p) ==
    /\ p \in serving[a]
    /\ Stopping(a)
    /\ serving' = [serving EXCEPT ![a] = @ \ {p}]
    /\ UNCHANGED <<step, objectVars, sockets, networkVars, natVars, attached, mishap>>

\* A serving loop returns for good on an OSError of its socket, and nothing
\* tells the object: it stays active.
LoopFails(a, p) ==
    /\ p \in serving[a]
    /\ ~Stopping(a)
    /\ serving' = [serving EXCEPT ![a] = @ \ {p}]
    /\ UNCHANGED <<step, objectVars, sockets, networkVars, natVars, attached, mishap>>

\* A stage's container starts on the network of an active sinkhole.
Attach(a, c) ==
    /\ step[a] = "up"
    /\ attached' = [attached EXCEPT ![a] = @ \cup {c}]
    /\ UNCHANGED <<step, objectVars, listenerVars, networkVars, natVars, mishap>>

\* A container exits, and docker detaches it (it was run with --rm).
Detach(a, c) ==
    /\ c \in attached[a]
    /\ attached' = [attached EXCEPT ![a] = @ \ {c}]
    /\ UNCHANGED <<step, objectVars, listenerVars, networkVars, natVars, mishap>>

-----------------------------------------------------------------------------
(* stop() *)

\* The call of stop(): it sets the stop flag. On a sinkhole that is not active
\* it returns at once.
Stop(a) ==
    /\ step[a] = "up"
    /\ a \in active
    /\ Goto(a, "join")
    /\ UNCHANGED <<objectVars, listenerVars, networkVars, natVars, attached, mishap>>

\* Each join waits two seconds at most, so the sockets are closed whether the
\* loops have returned or not.
JoinAndClose(a) ==
    /\ step[a] = "join"
    /\ sockets' = [sockets EXCEPT ![a] = {}]
    /\ Goto(a, IF a \in natInstalled THEN "delete" ELSE "remove")
    /\ UNCHANGED <<objectVars, serving, networkVars, natVars, attached, mishap>>

\* _teardown_nat, whose exit codes nobody reads: -D, then -F, then -X. Deleting
\* a chain fails while it holds rules or while PREROUTING refers to it.
DeleteRule(a) ==
    /\ step[a] = "delete"
    /\ \E o \in Outcomes :
          /\ rules' = IF Done(o) THEN rules \ {a} ELSE rules
          /\ NoteMishap(a, o)
          /\ Branch(a, o, "flush", "flush", "broken")
    /\ UNCHANGED <<objectVars, listenerVars, networkVars, chain, beneath, attached>>

\* Mutant: the flushed chain is not dropped.
FlushOnly(a) ==
    /\ step[a] = "flush"
    /\ \E o \in Outcomes :
          /\ chain' = IF Done(o) THEN [chain EXCEPT ![a] = "empty"] ELSE chain
          /\ NoteMishap(a, o)
          /\ Branch(a, o, "remove", "remove", "broken")
    /\ UNCHANGED <<objectVars, listenerVars, networkVars, rules, beneath, attached>>

FlushChain(a) ==
    /\ step[a] = "flush"
    /\ \E o \in Outcomes :
          /\ chain' = IF Done(o) THEN [chain EXCEPT ![a] = "empty"] ELSE chain
          /\ NoteMishap(a, o)
          /\ Branch(a, o, "drop", "drop", "broken")
    /\ UNCHANGED <<objectVars, listenerVars, networkVars, rules, beneath, attached>>

DropChain(a) ==
    /\ step[a] = "drop"
    /\ \E o \in Outcomes :
          /\ Done(o) => chain[a] = "empty" /\ a \notin rules
          /\ chain' = IF Done(o) THEN [chain EXCEPT ![a] = "absent"] ELSE chain
          /\ NoteMishap(a, o)
          /\ Branch(a, o, "remove", "remove", "broken")
    /\ UNCHANGED <<objectVars, listenerVars, networkVars, rules, beneath, attached>>

\* Mutant: the status is one its readers do not know.
ReleaseUnknownStatus(a) ==
    /\ step[a] = "remove"
    /\ \E o \in Outcomes :
          /\ IF a \in networkCreated
             THEN RemoveNetwork(a, o)
             ELSE o = "ok" /\ UNCHANGED <<networks, mishap>>
          /\ Branch(a, o, "stopped", "stopped", "broken")
          /\ status' = IF Raises(o) THEN status ELSE [status EXCEPT ![a] = "stopped"]
    /\ UNCHANGED <<active, networkCreated, natInstalled, listenerVars, subnet,
                   natVars, attached>>

\* The network goes last; a container still attached keeps it. The object
\* reports success either way, and stays active.
Release(a) ==
    /\ step[a] = "remove"
    /\ \E o \in Outcomes :
          /\ IF a \in networkCreated
             THEN RemoveNetwork(a, o)
             ELSE o = "ok" /\ UNCHANGED <<networks, mishap>>
          /\ Branch(a, o, "stopped", "stopped", "broken")
          /\ status' = IF Raises(o) THEN status ELSE [status EXCEPT ![a] = "success"]
    /\ UNCHANGED <<active, networkCreated, natInstalled, listenerVars, subnet,
                   natVars, attached>>

StopStep(a) ==
    JoinAndClose(a) \/ DeleteRule(a) \/ FlushChain(a) \/ DropChain(a) \/ Release(a)

-----------------------------------------------------------------------------
SinkholeNext ==
    \E a \in Analyses :
       \/ Start(a) \/ StartStep(a) \/ Stop(a) \/ StopStep(a)
       \/ \E p \in Ports : LoopSeesStop(a, p) \/ LoopFails(a, p)
       \/ \E c \in Containers : Attach(a, c) \/ Detach(a, c)

SinkholeSpec == SinkholeInit /\ [][SinkholeNext]_sinkholeVars

-----------------------------------------------------------------------------
(* Properties *)

\* A packet from the analysis's network meets the analysis's own rule before
\* any other rule for the same range, and its chain rewrites it.
Rewritten(a) ==
    /\ a \in rules
    /\ chain[a] = "dnat"
    /\ \A b \in rules \ {a} : subnet[b] = subnet[a] => b \in beneath[a]

\* While a sinkhole is up, whatever earlier or concurrent sinkholes left behind
\* on the host (a rule that could not be deleted, for a range docker has since
\* given to this network), traffic of its network is rewritten to its own
\* gateway: start() sets active only after the last NAT command, and the rule
\* goes to the head of PREROUTING.
UpIsRewritten == \A a \in Analyses : step[a] = "up" => a \in networks /\ Rewritten(a)

\* A sinkhole start() gave up on has no rule that redirects traffic, no socket
\* and, unless removing it failed, no network: the entry rule is installed
\* last, and every early return goes through the clean-up it needs.
RefusalLeavesNoTraffic ==
    \A a \in Analyses : step[a] = "refused" =>
        /\ a \notin rules
        /\ sockets[a] = {}
        /\ a \in networks => a \in mishap

\* stop() that met no failing command leaves nothing on the host: the rule is
\* deleted before the chain is flushed and dropped, the network after them.
CleanStopLeavesNothing ==
    \A a \in Analyses : step[a] = "stopped" /\ a \notin mishap =>
        /\ a \notin rules /\ a \notin networks
        /\ chain[a] = "absent"
        /\ sockets[a] = {}

\* A rule never enters a chain that is not complete, except while stop() or an
\* exception is taking it apart: _setup_nat fills the chain before it links it.
NoHalfChain ==
    \A a \in rules : chain[a] = "dnat" \/ step[a] \in {"drop", "remove", "stopped", "broken"}

=============================================================================
