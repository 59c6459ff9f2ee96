------------------------------ MODULE Evidence ------------------------------
(***************************************************************************)
(* The host's computations on evidence, each called once on every input the  *)
(* bounds allow: the sinkhole's DNS answer, the reading of a capture and of  *)
(* a ClientHello (Packets), the process tree (ProcessTree), the similar      *)
(* name, the release before and the comparison with it (Reputation), and     *)
(* the findings (Analyzer). They keep no state; a behaviour is one call, and *)
(* the properties hold its result against a definition of what was asked.    *)
(***************************************************************************)
EXTENDS Packets, ProcessTree, Reputation, Analyzer

CONSTANTS
    Bytes,       \* the bytes of a query's question
    MaxBody,     \* bound: bytes of a question
    MaxRecords,  \* bound: records in a DNS answer
    MaxEvents,   \* bound: execs, and forks
    Pids,
    Letters,
    MaxName,     \* bound: letters and separators of a name
    Versions,
    Contents     \* what a source file may hold

ASSUME BoundsAssumption == {MaxBody, MaxRecords, MaxEvents, MaxName} \subseteq Nat
ASSUME BytesAssumption == Bytes \subseteq Nat
ASSUME PidsAssumption == IsFiniteSet(Pids)
ASSUME LettersAssumption == Separator \notin Letters
ASSUME VersionsAssumption ==
    IsFiniteSet(Versions) /\ Versions \subseteq Nat /\ NoVersion \notin Versions

VARIABLE call

NoCall == [fn |-> "none", in |-> <<>>, out |-> <<>>]
EvidenceInit == call = NoCall
Called(fn, in, out) == call' = [fn |-> fn, in |-> in, out |-> out]

---------------------------------------------------------------------------
(* Inputs.                                                                  *)

SeqsUpTo(S, n) == UNION {[1..k -> S] : k \in 0..n}

Queries ==
    [short : {FALSE}, qdcount : 0..2, body : SeqsUpTo(Bytes, MaxBody)]
        \cup {[short |-> TRUE, qdcount |-> 0, body |-> <<>>]}

\* A resolver's answer: the question for a name, and records that name it by a
\* pointer or spell a name out; type 5 is CNAME, whose data is a pointer.
Names == {<<97>>, <<98, 46, 97>>}
Addresses == {<<10, 0, 0, 1>>, <<10, 0, 0, 2>>}
ResourceRecords ==
    [owner : Names \cup {<<>>}, type : {1}, data : Addresses]
        \cup [owner : Names \cup {<<>>}, type : {5}, data : {<<PointerMark, 12>>}]

Spelled(name) ==
    CASE name = <<97>> -> <<1, 97, 0>>
      [] name = <<98, 46, 97>> -> <<1, 98, 1, 97, 0>>
      [] name = <<>> -> <<PointerMark, 12>>

Question == Spelled(<<97>>) \o <<0, 1, 0, 1>>
RecordBytes(r) == Spelled(r.owner) \o Record(r.type, r.data)
MessageUpTo(records, last) ==
    LET bytes[n \in 0..Len(records)] ==
            IF n = 0 THEN Question ELSE bytes[n - 1] \o RecordBytes(records[n])
    IN  bytes[last]
MessageBytes(records) == MessageUpTo(records, Len(records))

\* A ClientHello for a name, with an extension before it and one after it.
Extensions(name, before, after) ==
    LET n == Len(name)
        other == <<0, 5, 0, 1, 9>>
    IN  (IF before THEN other ELSE <<>>)
        \o (IF n = 0 THEN <<>> ELSE <<0, 0, 0, n + 5, 0, n + 3, 0, 0, n>> \o name)
        \o (IF after THEN other ELSE <<>>)
Hello(name, before, after) ==
    LET extensions == Extensions(name, before, after)
    IN  <<22, 3, 1, 0, 0, 1>> \o [i \in 1..37 |-> 7] \o <<1, 8>> \o <<0, 2, 19, 1>>
        \o <<1, 0>> \o <<0, Len(extensions)>> \o extensions

\* The frames of an analysis that looks a name up and connects to an address.
Capture(message, hello, dst, complete) ==
    [known |-> TRUE, complete |-> complete,
     frames |-> <<[ethertype |-> "ipv4", protocol |-> "udp", headers |-> TRUE,
                   port |-> 53, dst |-> <<>>, payload |-> message],
                  [ethertype |-> "ipv4", protocol |-> "tcp", headers |-> TRUE,
                   port |-> 443, dst |-> dst, payload |-> hello]>>]

\* Execs and forks are read in two passes: their order among each other is free.
Execs == [type : {"exec"}, pid : Pids \cup {NoPid}, child : {NoPid}]
Forks == {e \in [type : {"fork"}, pid : Pids, child : Pids] : e.pid # e.child}

\* Events the analyzer tells apart, in a stage that calls pip itself and in one
\* that does not.
Acts ==
    [type : {"process.exec"}, stage : {"install", "import"},
     exe : {"shell", "pip", "python", "other"}, pip : BOOLEAN, barred : {FALSE}]
        \cup [type : {"file.read", "network.connect", "privilege.change", "sandbox.escape_syscall"},
              stage : {"install", "import"}, exe : {"other"}, pip : {FALSE}, barred : BOOLEAN]

SinkholeIp == <<10, 0, 0, 9>>

---------------------------------------------------------------------------
(* Calls.                                                                   *)

CallRespond == \E query \in Queries : Called("respond", query, Respond(query, SinkholeIp))

CallReadCapture ==
    \E records \in SeqsUpTo(ResourceRecords, MaxRecords) :
    \E cut \in 0..Len(MessageBytes(records)), complete \in 0..2 :
    \E dst \in Addresses \cup {<<10, 0, 0, 3>>}, name \in Names :
    \E header \in {"response", "query", "short"} :
        LET message == [header |-> header, qdcount |-> 1, ancount |-> Len(records),
                        body |-> SubSeq(MessageBytes(records), 1, cut)]
            file == Capture(message, Hello(name, FALSE, FALSE), dst, complete)
            answers == DnsAnswers(file)
        IN  Called("capture",
                [records |-> records, cut |-> cut, complete |-> complete, dst |-> dst,
                 name |-> name, header |-> header],
                [answers |-> answers,
                 bypass |-> BypassAttempts({dst}, answers),
                 mismatches |-> SniMismatches(SniRecords(file), answers)])

CallHelloName ==
    \E name \in Names \cup {<<>>}, before \in BOOLEAN, after \in BOOLEAN :
    \E cut \in 0..Len(Hello(name, before, after)) :
        Called("hello", [name |-> name, before |-> before, after |-> after, cut |-> cut],
               HelloName(SubSeq(Hello(name, before, after), 1, cut)))

CallTreeDepths ==
    \E execs \in SeqsUpTo(Execs, MaxEvents), forks \in SeqsUpTo(Forks, MaxEvents) :
        Called("tree", execs \o forks, TreeDepths(execs \o forks))

CallTyposquat ==
    \E name \in SeqsUpTo(Letters, MaxName) \ {<<>>} :
    \E popular \in SeqsUpTo(SeqsUpTo(Letters \cup {Separator}, MaxName) \ {<<>>}, 2) :
        Called("typosquat", [name |-> name, popular |-> popular], Typosquat(name, popular))

CallPreviousVersion ==
    \E releases \in [Versions -> [uploaded : 0..Cardinality(Versions), files : BOOLEAN]] :
    \E current \in Versions :
        Called("previous", [releases |-> releases, current |-> current],
               PreviousVersion(current, History(releases)))

CallDiff ==
    \E files, olderFiles \in SUBSET {"setup", "module"} :
    \E contents \in [files -> Contents], older \in [olderFiles -> Contents] :
    \E kind, olderKind \in {"wheel", "sdist"} :
        Called("diff", [kind |-> kind, olderKind |-> olderKind, contents |-> contents, older |-> older],
               Diff(Tree(olderKind, 1, older), Tree(kind, 2, contents)))

CallAnalyze == \E events \in SeqsUpTo(Acts, MaxEvents) : Called("analyze", events, Analyze(events))

EvidenceNext ==
    /\ call = NoCall
    /\ \/ CallRespond \/ CallReadCapture \/ CallHelloName \/ CallTreeDepths
       \/ CallTyposquat \/ CallPreviousVersion \/ CallDiff \/ CallAnalyze

EvidenceSpec == EvidenceInit /\ [][EvidenceNext]_call

---------------------------------------------------------------------------
(* Properties.                                                              *)

\* The places labels start at in a message whose name is whole.
IsName(m, starts, end) ==
    /\ 1 \in starts /\ end \in starts /\ m[end] = 0
    /\ \A p \in starts \ {end} : m[p] # 0 /\ p + 1 + m[p] \in starts

NameEnds(m) == {e \in 1..Len(m) : \E starts \in SUBSET (1..Len(m)) : IsName(m, starts, e)}

\* No length in the name is at or above the mark: the sinkhole takes one that is
\* for the length of a long label, the decoder for a pointer (0xC0 and above).
OnlyLabels(m) ==
    \E e \in 1..Len(m), starts \in SUBSET (1..Len(m)) :
        IsName(m, starts, e) /\ \A p \in starts : m[p] < PointerMark

\* The sinkhole answers a query if and only if its name ends and the two bytes
\* of a type follow, so also one cut in its class, which the docstring says gets
\* nothing (MalformedGivesNone); and if the name has no length the two functions
\* read differently, the host's own decoder finds the sinkhole's address in the
\* answer to an A question that is whole, and no address in any other answer.
RepliesAreReadable ==
    call.fn = "respond" =>
        LET m == call.in.body
            SaysType == \E e \in NameEnds(m) : e + 2 <= Len(m)
            WholeA == \E e \in NameEnds(m) : e + 4 <= Len(m) /\ U16(m, e + 1) = 1
        IN  /\ call.out # NoReply <=> ~call.in.short /\ call.in.qdcount > 0 /\ SaysType
            /\ call.out # NoReply /\ OnlyLabels(m) =>
                  Answers(call.out) = IF WholeA THEN <<[name |-> <<>>, address |-> SinkholeIp]>>
                                      ELSE <<>>

\* Where a record starts, where its data does, and where that ends.
Start(records, i) == Len(MessageUpTo(records, i - 1))
DataStart(records, i) == Start(records, i) + Len(Spelled(records[i].owner)) + 10
DataEnd(records, i) == Start(records, i + 1)

\* A connection to an address that a captured answer holds is no bypass, by
\* whatever form the answer names its owner, and one to an address no answer
\* holds is. A mismatch is found if and only if the ClientHello was captured,
\* some answer spells its name, and none of those that do holds the address;
\* an answer whose data the capture cuts short counts as one that does not.
CaptureTellsAnswered ==
    call.fn = "capture" =>
        LET in == call.in
            read == IF in.complete > 0 /\ in.header = "response"
                    THEN 1..Len(in.records) ELSE {}
            begun == {i \in read : in.records[i].type = 1 /\ DataStart(in.records, i) <= in.cut}
            whole == {i \in begun : DataEnd(in.records, i) <= in.cut}
            Holds(i) == in.records[i].data = in.dst
            spelled == {i \in begun : in.records[i].owner = in.name}
        IN  /\ call.out.bypass = {} <=> \E i \in whole : Holds(i)
            /\ call.out.mismatches # {} <=>
                  /\ in.complete = 2
                  /\ spelled # {}
                  /\ ~\E i \in spelled \cap whole : Holds(i)

\* A ClientHello cut by the end of its segment yields the part of its name that
\* is there, and nothing but that name, whatever extensions stand around it.
CutHelloCutsName ==
    call.fn = "hello" =>
        LET n == call.in.name
            start == Len(Hello(<<>>, call.in.before, FALSE)) + 9
            there == IF call.in.cut <= start THEN 0
                     ELSE IF call.in.cut - start < Len(n) THEN call.in.cut - start ELSE Len(n)
        IN  call.out = SubSeq(n, 1, there)

\* In the process tree every node is one deeper than its parent, except that
\* each circle of parents has one node of depth 0: pids of different sandboxes
\* can make one another's parents, and the walk still ends.
DepthsFollowParents ==
    call.fn = "tree" =>
        LET parent == Parents(call.in)
            depth == call.out
            Above(n) == LET up[k \in 0..Cardinality(Pids)] ==
                                IF k = 0 THEN {parent[n]} \ {NoPid}
                                ELSE up[k - 1] \cup ({parent[m] : m \in up[k - 1]} \ {NoPid})
                        IN  up[Cardinality(Pids)]
            Circle(n) == {m \in Above(n) : n \in Above(m)}
        IN  \A n \in DOMAIN parent :
                /\ parent[n] = NoPid => depth[n] = 0
                /\ parent[n] # NoPid /\ n \notin Above(n) => depth[n] = depth[parent[n]] + 1
                /\ n \in Above(n) =>
                      /\ Cardinality({m \in Circle(n) : depth[m] = 0}) = 1
                      /\ depth[n] # 0 => depth[n] = depth[parent[n]] + 1

\* One letter put in, left out or replaced.
Edited(name) ==
    {name}
    \cup {SubSeq(name, 1, i - 1) \o SubSeq(name, i + 1, Len(name)) : i \in 1..Len(name)}
    \cup {SubSeq(name, 1, i) \o <<c>> \o SubSeq(name, i + 1, Len(name)) :
             i \in 0..Len(name), c \in Letters}
    \cup {[name EXCEPT ![i] = c] : i \in 1..Len(name), c \in Letters}
Within2(name) == UNION {Edited(n) : n \in Edited(name)}

\* typosquat_check names a popular package if and only if none is the same but
\* for separators and one is at most two edits away; and it names the first of
\* those that are nearest.
NearestNameFound ==
    call.fn = "typosquat" =>
        LET own == call.in.name
            popular == [i \in 1..Len(call.in.popular) |-> Normalize(call.in.popular[i])]
            near == {i \in 1..Len(popular) : popular[i] \in Within2(own)}
            edits == [i \in near |-> IF popular[i] = own THEN 0
                                     ELSE IF popular[i] \in Edited(own) THEN 1 ELSE 2]
            same == \E i \in near : edits[i] = 0
            place == call.out.place
        IN  /\ call.out.exact <=> same
            /\ place # 0 <=> ~same /\ near # {}
            /\ place # 0 =>
                  /\ place \in near /\ call.out.distance = edits[place]
                  /\ \A i \in near : edits[i] > edits[place] \/ (edits[i] = edits[place] /\ i >= place)

\* In a project that uploads in the order of its versions, an analysis of the
\* latest release is compared with the one before it, or with none when it is
\* the only one; and an older release is, too, while the history kept holds
\* both. Nothing is ever compared with a release without files.
LatestMeetsPredecessor ==
    call.fn = "previous" =>
        LET releases == call.in.releases
            published == {v \in Versions : releases[v].files}
            inOrder == \A v, w \in published :
                           v < w => releases[v].uploaded < releases[w].uploaded
            older == {v \in published : v < call.in.current}
            newer == {v \in published : v >= call.in.current}
        IN  /\ call.out # NoVersion => call.out \in older
            /\ inOrder /\ Cardinality(newer) < KeptReleases =>
                  IF older = {} THEN call.out = NoVersion
                  ELSE call.out # NoVersion /\ \A v \in older : v <= call.out

\* Nothing but a call of pip goes without a finding for the stage it happened in:
\* what the package does while it is built or installed counts as it does later.
\* And the score does not play the worst finding down: the overall severity is at
\* most one step below it, and no step when two findings are as bad.
VerdictFollowsActs ==
    call.fn = "analyze" =>
        LET events == call.in
            later == [i \in 1..Len(events) |-> [events[i] EXCEPT !.stage = "import"]]
            Pip(e) == e.exe = "pip" \/ (e.exe = "python" /\ e.pip)
            steps == <<"INFO", "LOW", "MEDIUM", "HIGH", "CRITICAL">>
            Step(severity) == CHOOSE n \in 1..5 : steps[n] = severity
            bad == [i \in call.out.found |-> Step(SeverityOf(Rule(events[i])))]
            overall == Step(call.out.severity)
        IN  /\ \A i \in Found(later) \ call.out.found : events[i].stage = "install" /\ Pip(events[i])
            /\ \A i \in call.out.found : overall >= bad[i] - 1
            /\ \A i, k \in call.out.found : i # k /\ bad[i] = bad[k] => overall >= bad[i]

---------------------------------------------------------------------------
(* What the comments say; no run checks it.                                 *)

\* "Returns None for a malformed query" (build_dns_a_response). One that ends in
\* the two bytes of its class is answered with the question as cut.
MalformedGivesNone ==
    call.fn = "respond" =>
        LET m == call.in.body
        IN  (\A e \in NameEnds(m) : e + 4 > Len(m)) => call.out = NoReply

\* "Any malformed/short input returns None" (parse_client_hello_sni).
ShortHelloGivesNone ==
    call.fn = "hello" =>
        call.out = NoName \/ call.in.cut >= Len(Hello(call.in.name, call.in.before, FALSE))

\* Answers are read "to check whether a ClientHello's SNI actually matches the
\* IP that was looked up for it" (extract_dns_answers). An answer that names its
\* owner by a pointer to the question, as resolvers write it, is not found.
MismatchIsFound ==
    call.fn = "capture" =>
        LET in == call.in
            records == in.records
            owner == [i \in 1..Len(records) |-> IF records[i].owner = <<>> THEN <<97>>
                                                ELSE records[i].owner]
            ofName == {i \in 1..Len(records) : records[i].type = 1 /\ owner[i] = in.name}
        IN  /\ in.header = "response" /\ in.complete = 2
            /\ in.cut = Len(MessageBytes(records))
            /\ ofName # {} /\ \A i \in ofName : records[i].data # in.dst
            => call.out.mismatches # {}

\* "Sensitive data access followed by network activity", the title of the chain
\* (analyze). Which of the two came first is not looked at.
ChainIsOrdered ==
    call.fn = "analyze" /\ call.out.chain # <<>> => call.out.chain[1] < call.out.chain[2]

\* "no earlier published release found" (diff_against_previous_release).
NoneMeansNone ==
    call.fn = "previous" /\ call.out = NoVersion =>
        \A v \in Versions : call.in.releases[v].files => v >= call.in.current

\* "hash-diffs its source tree against the analyzed one": a file both releases
\* have and hold differently is listed as changed.
ChangedFileIsFound ==
    call.fn = "diff" =>
        LET in == call.in IN
        \A f \in DOMAIN in.contents \cap DOMAIN in.older :
            in.contents[f] # in.older[f] => \E p \in call.out.changed : p[2] = f
=============================================================================
