------------------------------ MODULE Packets ------------------------------
(***************************************************************************)
(* The bytes the host reads off the sandbox's wire: the sinkhole's answer   *)
(* to a DNS query (build_dns_a_response of sinkhole.py), and what is later  *)
(* read from a capture (pcap_tls.py): DNS answers, the name in a TLS        *)
(* ClientHello, and the signals built on them (build_network_signals).      *)
(*                                                                          *)
(* A byte is a number and a message a sequence of them. Positions count     *)
(* from 1; the twelve bytes of a DNS header are a record's fields, so that  *)
(* position 1 is the header's end. Python's slices end silently where the   *)
(* message ends; indexing past it and unpacking too few bytes raise, which  *)
(* each function turns into an answer of its own.                           *)
(***************************************************************************)
EXTENDS Naturals, Sequences, FiniteSets, SequencesExt

CONSTANT PointerMark  \* a length byte from here on is a pointer: 0xC0, scaled down

ASSUME PacketsAssumption == PointerMark \in Nat \ {0, 1}

Positions == Nat \ {0}
U16(m, p) == 256 * m[p] + m[p + 1]
Slice(m, p, n) == SubSeq(m, p, IF p + n - 1 <= Len(m) THEN p + n - 1 ELSE Len(m))
Within(m, p, n) == p + n - 1 <= Len(m)

---------------------------------------------------------------------------
(* The sinkhole's answer.                                                   *)

\* The place of the empty label that ends the name, 0 past the message's end.
NameEnd(m) ==
    LET walk[p \in Positions] ==
            IF p > Len(m) THEN 0 ELSE IF m[p] = 0 THEN p ELSE walk[p + 1 + m[p]]
    IN  walk[1]

\* A resource record without its name: type, class, time to live, length, data.
Record(type, data) == <<0, type, 0, 1, 0, 0, 0, 30, 0, Len(data)>> \o data

NoReply == [qdcount |-> 0, ancount |-> 0, body |-> <<>>]

\* Mistake: the query's class is expected as well.
RespondToWhole(query, answerIp) ==
    LET m == query.body
        end == NameEnd(m)
        question == Slice(m, 1, end + 4)
    IN  IF query.short \/ query.qdcount < 1 \/ end = 0 \/ ~Within(m, end + 1, 4)
        THEN NoReply
        ELSE [qdcount |-> 1, ancount |-> 1,
              body |-> question \o <<PointerMark, 12>> \o Record(1, answerIp)]

\* build_dns_a_response.
Respond(query, answerIp) ==
    LET m == query.body
        end == NameEnd(m)
        question == Slice(m, 1, end + 4)
    IN  IF query.short \/ query.qdcount < 1 \/ end = 0 \/ ~Within(m, end + 1, 2)
        THEN NoReply
        ELSE IF U16(m, end + 1) # 1
        THEN [qdcount |-> 1, ancount |-> 0, body |-> question]
        ELSE [qdcount |-> 1, ancount |-> 1,
              body |-> question \o <<PointerMark, 12>> \o Record(1, answerIp)]

---------------------------------------------------------------------------
(* DNS answers in a capture.                                                *)

Overrun == [labels |-> <<>>, next |-> 0]

\* _decode_dns_name: the labels up to the end or a pointer, and what follows.
DecodeName(m, from) ==
    LET walk[p \in Positions] ==
            IF p > Len(m) THEN Overrun
            ELSE IF m[p] = 0 THEN [labels |-> <<>>, next |-> p + 1]
            ELSE IF m[p] >= PointerMark THEN [labels |-> <<>>, next |-> p + 2]
            ELSE LET rest == walk[p + 1 + m[p]] IN
                 IF rest = Overrun THEN Overrun
                 ELSE [labels |-> <<Slice(m, p + 1, m[p])>> \o rest.labels, next |-> rest.next]
    IN  walk[from]

\* Where the questions end, 0 past the message's end.
AfterQuestions(message) ==
    LET after[k \in 0..message.qdcount] ==
            IF k = 0 THEN 1
            ELSE LET name == DecodeName(message.body, after[k - 1]) IN
                 IF after[k - 1] = 0 \/ name = Overrun THEN 0 ELSE name.next + 4
    IN  after[message.qdcount]

Dotted(labels) ==
    LET joined[n \in 1..Len(labels)] ==
            IF n = 1 THEN labels[1] ELSE joined[n - 1] \o <<46>> \o labels[n]
    IN  IF labels = <<>> THEN <<>> ELSE joined[Len(labels)]

\* extract_dns_answers for one message: names and addresses in their order.
Answers(message) ==
    LET m == message.body
        read[k \in 0..message.ancount] == [p \in Positions |->
            IF k = 0 THEN <<>>
            ELSE LET name == DecodeName(m, p)
                     head == name.next
                 IN  IF name = Overrun \/ ~Within(m, head, 10) THEN <<>>
                     ELSE (IF U16(m, head) = 1 /\ U16(m, head + 8) = 4
                           THEN <<[name |-> Dotted(name.labels), address |-> Slice(m, head + 10, 4)]>>
                           ELSE <<>>)
                          \o read[k - 1][head + 10 + U16(m, head + 8)]]
        start == AfterQuestions(message)
    IN  IF start = 0 THEN <<>> ELSE read[message.ancount][start]

---------------------------------------------------------------------------
(* The name in a ClientHello.                                               *)

NoName == <<>>

\* Mistake: the length of the list of names is taken for that of the name.
NameAtList(m, p) ==
    IF Within(m, p, 2) THEN Slice(m, p + 5, U16(m, p)) ELSE NoName

\* The server_name extension: the length of its list, a type, the name.
NameAt(m, p) ==
    IF Within(m, p + 3, 2) THEN Slice(m, p + 5, U16(m, p + 3)) ELSE NoName

\* The extensions from one place up to another.
NameAmong(m, from, end) ==
    LET walk[p \in Positions] ==
            IF p + 4 > end \/ ~Within(m, p, 4) THEN NoName
            ELSE IF U16(m, p) = 0 THEN NameAt(m, p + 4)
            ELSE walk[p + 4 + U16(m, p + 2)]
    IN  walk[from]

\* parse_client_hello_sni: a record header of five bytes, a handshake header
\* of four, a version of two and 32 random bytes; then three lists with their
\* lengths, and the extensions.
HelloName(m) ==
    LET ciphers == 45 + m[44]
        methods == ciphers + 2 + U16(m, ciphers)
        sizeOfExtensions == methods + 1 + m[methods]
        extensions == sizeOfExtensions + 2
    IN  IF /\ Len(m) >= 6 /\ m[1] = 22 /\ m[6] = 1
           /\ Within(m, 44, 1)
           /\ Within(m, ciphers, 2)
           /\ Within(m, methods, 1)
           /\ Within(m, sizeOfExtensions, 2)
        THEN NameAmong(m, extensions, extensions + U16(m, sizeOfExtensions))
        ELSE NoName

---------------------------------------------------------------------------
(* What the capture file yields, and the signals: sets, for nothing made of    *)
(* them depends on their order or on repetitions.                           *)

\* _iter_frames, _parse_ipv4_tcp, _parse_udp: of a file with a known magic
\* number the frames that are wholly in it; of those IPv4 and one protocol.
Payloads(file, protocol) ==
    LET whole == IF file.known THEN {file.frames[i] : i \in 1..file.complete} ELSE {}
    IN  {frame \in whole : frame.ethertype = "ipv4" /\ frame.protocol = protocol /\ frame.headers}

\* extract_dns_answers: responses from port 53 that have a header and carry
\* answers.
DnsAnswers(file) ==
    LET messages == {frame \in Payloads(file, "udp") :
                        /\ frame.port = 53
                        /\ frame.payload.header = "response" /\ frame.payload.ancount > 0}
    IN  UNION {ToSet(Answers(frame.payload)) : frame \in messages}

\* extract_sni_records.
SniRecords(file) ==
    {record \in {[dst |-> frame.dst, sni |-> HelloName(frame.payload)] : frame \in Payloads(file, "tcp")} :
        record.sni # NoName}

\* Mistake: only addresses whose answers spell a name count.
AddressesSpelled(answers) == {a.address : a \in {b \in answers : b.name # <<>>}}

\* resolved_ips of build_network_signals.
ResolvedAddresses(answers) == {a.address : a \in answers}

\* ip_hardcode_bypass_attempts of build_network_signals.
BypassAttempts(connections, answers) == connections \ ResolvedAddresses(answers)

\* sni_mismatches: a name nobody was seen to look up is no mismatch.
SniMismatches(records, answers) ==
    LET Known(name) == {a.address : a \in {b \in answers : b.name = name}}
    IN  {r \in records : Known(r.sni) # {} /\ r.dst \notin Known(r.sni)}
=============================================================================
