--------------------------- MODULE Serving_proofs ---------------------------
(***************************************************************************)
(* Proofs about the serving sinkhole, for any connections and any names:   *)
(* what is captured, and what the analysis reads of it.                    *)
(***************************************************************************)
EXTENDS Serving, FiniteSetTheorems, TLAPS

\* The lock is held from the cache miss to the loaded certificate.
Locked == \A c \in Clients : conn[c] \in {"key", "sign", "load"} <=> lock = c

\* While it is, and without a failure of the holder's own, the files of its host
\* are of its making; with the handshake it has its certificate.
Certified(c) ==
    /\ conn[c] \in {"hello", "key", "sign", "load", "handshake"} => scheme[c] = "https"
    /\ conn[c] = "sign" /\ c \notin failed => key[Host(c)] = c /\ csr[Host(c)] = c
    /\ conn[c] = "load" /\ c \notin failed => key[Host(c)] = c /\ pem[Host(c)] = c
    /\ conn[c] = "handshake" /\ c \notin failed => c \in ready

Once(c) ==
    \E i \in DOMAIN captures :
        captures[i] = c /\ \A j \in DOMAIN captures : captures[j] = c => j = i

\* A connection is captured by its answer, and not before.
Captured(c) ==
    /\ conn[c] \notin {"respond", "closed"} => ~Recorded(c)
    /\ conn[c] = "respond" => Once(c)
    /\ /\ conn[c] = "closed" /\ c \notin failed
       /\ scheme[c] = "https" /\ c \in verifying => SafeHost(sni[c]) = sni[c]
       => Once(c)

Begins(s, t) == Len(s) <= Len(t) /\ \A i \in 1..Len(s) : s[i] = t[i]

\* What the analysis has read so far, next to what there is to read.
Reads ==
    /\ owner \in {"status", "reading", "records", "count", "done"} => took.status <= Len(captures)
    /\ owner \in {"records", "count", "done"} =>
          took.status <= Len(took.records) /\ Begins(took.records, captures)
    /\ owner \in {"count", "done"} => Len(took.records) <= took.count /\ took.count <= Len(captures)
    /\ owner = "done" => took.count <= Len(took.netsim) /\ Begins(took.records, took.netsim)

ServingInv ==
    /\ ServingTypeOK
    /\ Locked
    /\ \A c \in Clients : Certified(c) /\ Captured(c)
    /\ Reads

-----------------------------------------------------------------------------
LEMMA HostIsHost == ServingTypeOK => \A c \in Clients : Host(c) \in Hosts
  BY NamesAssumption DEF ServingTypeOK, Host, SafeHost, Hosts

LEMMA TypingStep == ServingTypeOK /\ [ServingNext]_servingVars => ServingTypeOK'
<1> SUFFICES ASSUME ServingTypeOK, [ServingNext]_servingVars PROVE ServingTypeOK'
  OBVIOUS
<1> USE DEF ServingTypeOK, clientVars, fileVars, ownerVars, handling, Step
<1>1. ASSUME NEW d \in Clients, Accept(d)
      PROVE ServingTypeOK'
  BY <1>1 DEF Accept
<1>2. ASSUME NEW d \in Clients, LookUp(d)
      PROVE ServingTypeOK'
  BY <1>2 DEF LookUp
<1>3. ASSUME NEW d \in Clients, BeginLeaf(d)
      PROVE ServingTypeOK'
  BY <1>3 DEF BeginLeaf
<1>4. ASSUME NEW d \in Clients, MakeKey(d)
      PROVE ServingTypeOK'
  <2>1. PICK k \in Clients \cup {Nobody} : key' = [key EXCEPT ![Host(d)] = k]
    BY HostIsHost, <1>4 DEF MakeKey, LeftBy
  <2>2. PICK r \in Clients \cup {Nobody} : csr' = [csr EXCEPT ![Host(d)] = r]
    BY HostIsHost, <1>4 DEF MakeKey
  <2>3. \E p \in {"sign", "handshake"} : conn' = [conn EXCEPT ![d] = p]
    BY <1>4 DEF MakeKey, Abandon
  <2>4. lock' \in Clients \cup {Nobody} /\ failed' \subseteq Clients
    BY <1>4 DEF MakeKey, Abandon
  <2>5. UNCHANGED <<clientVars, pem, cached, ready, captures, ownerVars>>
    BY <1>4 DEF MakeKey
  <2> QED
    BY <2>1, <2>2, <2>3, <2>4, <2>5
<1>5. ASSUME NEW d \in Clients, Sign(d)
      PROVE ServingTypeOK'
  BY HostIsHost, <1>5 DEF Sign, Abandon
<1>6. ASSUME NEW d \in Clients, Load(d)
      PROVE ServingTypeOK'
  BY HostIsHost, <1>6 DEF Load, Matching
<1>7. ASSUME NEW d \in Clients, Handshake(d)
      PROVE ServingTypeOK'
  BY <1>7 DEF Handshake, Accepts
<1>8. ASSUME NEW d \in Clients, ReadRequest(d)
      PROVE ServingTypeOK'
  BY <1>8 DEF ReadRequest
<1>9. ASSUME NEW d \in Clients, Break(d)
      PROVE ServingTypeOK'
  BY <1>9 DEF Break
<1>10. ASSUME NEW d \in Clients, Record(d)
       PROVE ServingTypeOK'
  BY <1>10 DEF Record
<1>11. ASSUME NEW d \in Clients, Respond(d)
       PROVE ServingTypeOK'
  BY <1>11 DEF Respond
<1>12. ASSUME NEW l \in Loops, LoopEnds(l)
       PROVE ServingTypeOK'
  BY <1>12 DEF LoopEnds
<1>13. CASE Stop
  BY <1>13 DEF Stop, Move
<1>14. CASE CloseSockets
  BY <1>14 DEF CloseSockets, Move
<1>15. CASE SetStatus
  <2>1. Len(captures) \in Nat
    OBVIOUS
  <2>2. owner' \in {"status", "raised"} /\ UNCHANGED <<handling, captures>>
    BY <1>15 DEF SetStatus, Move
  <2>3. took' = [took EXCEPT !.status = Len(captures)] \/ took' = took
    BY <1>15 DEF SetStatus
  <2>4. took' \in [status : Nat, records : Seq(Clients), count : Nat, netsim : Seq(Clients)]
    BY <2>1, <2>3
  <2> QED
    BY <2>2, <2>4
<1>16. CASE Records
  BY <1>16 DEF Records, Move
<1>17. CASE CountCaptures
  BY <1>17 DEF CountCaptures, Move
<1>18. CASE NetsimRecords
  BY <1>18 DEF NetsimRecords, Move
<1>20. CASE ReadLogs
  BY <1>20 DEF ReadLogs, Move
<1>19. CASE UNCHANGED servingVars
  BY <1>19 DEF servingVars
<1> QED
  BY <1>1, <1>2, <1>3, <1>4, <1>5, <1>6, <1>7, <1>8, <1>9, <1>10, <1>11,
     <1>12, <1>13, <1>14, <1>15, <1>16, <1>17, <1>18, <1>19, <1>20
     DEF ServingNext, Handler, Finish

LEMMA LockedStep == ServingInv /\ [ServingNext]_servingVars => Locked'
<1> SUFFICES ASSUME ServingInv, [ServingNext]_servingVars PROVE Locked'
  OBVIOUS
<1>0. ServingTypeOK /\ Locked
  BY DEF ServingInv
<1> USE <1>0, ClientsAssumption DEF ServingTypeOK, Locked, clientVars, fileVars, ownerVars, handling, Step
<1>1. ASSUME NEW d \in Clients, Accept(d)
      PROVE Locked'
  BY <1>1 DEF Accept
<1>2. ASSUME NEW d \in Clients, LookUp(d)
      PROVE Locked'
  BY <1>2 DEF LookUp
<1>3. ASSUME NEW d \in Clients, BeginLeaf(d)
      PROVE Locked'
  BY <1>3 DEF BeginLeaf
<1>4. ASSUME NEW d \in Clients, MakeKey(d)
      PROVE Locked'
  BY <1>4 DEF MakeKey, Abandon, LeftBy
<1>5. ASSUME NEW d \in Clients, Sign(d)
      PROVE Locked'
  BY <1>5 DEF Sign, Abandon
<1>6. ASSUME NEW d \in Clients, Load(d)
      PROVE Locked'
  BY <1>6 DEF Load, Matching
<1>7. ASSUME NEW d \in Clients, Handshake(d)
      PROVE Locked'
  BY <1>7 DEF Handshake, Accepts
<1>8. ASSUME NEW d \in Clients, ReadRequest(d)
      PROVE Locked'
  BY <1>8 DEF ReadRequest
<1>9. ASSUME NEW d \in Clients, Break(d)
      PROVE Locked'
  BY <1>9 DEF Break
<1>10. ASSUME NEW d \in Clients, Record(d)
       PROVE Locked'
  BY <1>10 DEF Record
<1>11. ASSUME NEW d \in Clients, Respond(d)
       PROVE Locked'
  BY <1>11 DEF Respond
<1>12. ASSUME NEW l \in Loops, LoopEnds(l)
       PROVE Locked'
  BY <1>12 DEF LoopEnds
<1>13. CASE Stop
  BY <1>13 DEF Stop, Move
<1>14. CASE CloseSockets
  BY <1>14 DEF CloseSockets, Move
<1>15. CASE SetStatus
  BY <1>15 DEF SetStatus, Move
<1>16. CASE Records
  BY <1>16 DEF Records, Move
<1>17. CASE CountCaptures
  BY <1>17 DEF CountCaptures, Move
<1>18. CASE NetsimRecords
  BY <1>18 DEF NetsimRecords, Move
<1>20. CASE ReadLogs
  BY <1>20 DEF ReadLogs, Move
<1>19. CASE UNCHANGED servingVars
  BY <1>19 DEF servingVars
<1> QED
  BY <1>1, <1>2, <1>3, <1>4, <1>5, <1>6, <1>7, <1>8, <1>9, <1>10, <1>11,
     <1>12, <1>13, <1>14, <1>15, <1>16, <1>17, <1>18, <1>19, <1>20
     DEF ServingNext, Handler, Finish

LEMMA CertifiedStep ==
  ServingInv /\ [ServingNext]_servingVars => \A c \in Clients : Certified(c)'
<1> SUFFICES ASSUME ServingInv, [ServingNext]_servingVars, NEW c \in Clients
             PROVE  Certified(c)'
  OBVIOUS
<1>0. /\ ServingTypeOK /\ Locked /\ Certified(c)
      /\ \A d \in Clients : Host(d) \in Hosts
      /\ UNCHANGED clientVars => Host(c)' = Host(c)
  BY HostIsHost DEF ServingInv, clientVars, Host
<1> USE <1>0, ClientsAssumption DEF ServingTypeOK, Locked, Certified, clientVars, fileVars, ownerVars, handling, Step
<1>1. ASSUME NEW d \in Clients, Accept(d)
      PROVE Certified(c)'
  BY <1>1 DEF Accept, Loops
<1>2. ASSUME NEW d \in Clients, LookUp(d)
      PROVE Certified(c)'
  BY <1>2 DEF LookUp
<1>3. ASSUME NEW d \in Clients, BeginLeaf(d)
      PROVE Certified(c)'
  BY <1>3 DEF BeginLeaf
<1>4. ASSUME NEW d \in Clients, MakeKey(d)
      PROVE Certified(c)'
  BY <1>4 DEF MakeKey, Abandon, LeftBy
<1>5. ASSUME NEW d \in Clients, Sign(d)
      PROVE Certified(c)'
  BY <1>5 DEF Sign, Abandon
<1>6. ASSUME NEW d \in Clients, Load(d)
      PROVE Certified(c)'
  BY <1>6 DEF Load, Matching
<1>7. ASSUME NEW d \in Clients, Handshake(d)
      PROVE Certified(c)'
  BY <1>7 DEF Handshake, Accepts
<1>8. ASSUME NEW d \in Clients, ReadRequest(d)
      PROVE Certified(c)'
  BY <1>8 DEF ReadRequest
<1>9. ASSUME NEW d \in Clients, Break(d)
      PROVE Certified(c)'
  BY <1>9 DEF Break
<1>10. ASSUME NEW d \in Clients, Record(d)
       PROVE Certified(c)'
  BY <1>10 DEF Record
<1>11. ASSUME NEW d \in Clients, Respond(d)
       PROVE Certified(c)'
  BY <1>11 DEF Respond
<1>12. ASSUME NEW l \in Loops, LoopEnds(l)
       PROVE Certified(c)'
  BY <1>12 DEF LoopEnds
<1>13. CASE Stop
  BY <1>13 DEF Stop, Move
<1>14. CASE CloseSockets
  BY <1>14 DEF CloseSockets, Move
<1>15. CASE SetStatus
  BY <1>15 DEF SetStatus, Move
<1>16. CASE Records
  BY <1>16 DEF Records, Move
<1>17. CASE CountCaptures
  BY <1>17 DEF CountCaptures, Move
<1>18. CASE NetsimRecords
  BY <1>18 DEF NetsimRecords, Move
<1>20. CASE ReadLogs
  BY <1>20 DEF ReadLogs, Move
<1>19. CASE UNCHANGED servingVars
  BY <1>19 DEF servingVars
<1> QED
  BY <1>1, <1>2, <1>3, <1>4, <1>5, <1>6, <1>7, <1>8, <1>9, <1>10, <1>11,
     <1>12, <1>13, <1>14, <1>15, <1>16, <1>17, <1>18, <1>19, <1>20
     DEF ServingNext, Handler, Finish

LEMMA RecordOnce ==
  ASSUME ServingTypeOK, NEW c \in Clients, NEW d \in Clients, captures' = Append(captures, d)
  PROVE  /\ c # d => (Recorded(c)' <=> Recorded(c)) /\ (Once(c) => Once(c)')
         /\ c = d /\ ~Recorded(c) => Once(c)'
<1>1. /\ captures \in Seq(Clients) /\ DOMAIN captures = 1..Len(captures)
      /\ DOMAIN captures' = 1..(Len(captures) + 1) /\ Len(captures) \in Nat
      /\ \A i \in 1..Len(captures) : captures'[i] = captures[i]
      /\ captures'[Len(captures) + 1] = d
  BY DEF ServingTypeOK
<1>2. c # d => (Recorded(c)' <=> Recorded(c))
  BY <1>1 DEF Recorded
<1>3. ASSUME c # d, Once(c) PROVE Once(c)'
  BY <1>1, <1>3 DEF Once
<1>4. ASSUME c = d, ~Recorded(c) PROVE Once(c)'
  <2> SUFFICES \A j \in DOMAIN captures' : captures'[j] = c => j = Len(captures) + 1
    BY <1>1, <1>4 DEF Once
  <2> QED
    BY <1>1, <1>4 DEF Recorded
<1> QED
  BY <1>2, <1>3, <1>4

LEMMA CapturedStep ==
  ServingInv /\ [ServingNext]_servingVars => \A c \in Clients : Captured(c)'
<1> SUFFICES ASSUME ServingInv, [ServingNext]_servingVars, NEW c \in Clients
             PROVE  Captured(c)'
  OBVIOUS
<1>0. /\ ServingTypeOK /\ Certified(c) /\ Captured(c)
      /\ UNCHANGED captures => (Recorded(c)' <=> Recorded(c)) /\ (Once(c) => Once(c)')
  BY DEF ServingInv, Recorded, Once
<1> USE <1>0 DEF ServingTypeOK, Certified, Captured, clientVars, fileVars, ownerVars, handling, Step
<1>1. ASSUME NEW d \in Clients, Accept(d)
      PROVE Captured(c)'
  BY <1>1 DEF Accept
<1>2. ASSUME NEW d \in Clients, LookUp(d)
      PROVE Captured(c)'
  BY <1>2 DEF LookUp
<1>3. ASSUME NEW d \in Clients, BeginLeaf(d)
      PROVE Captured(c)'
  BY <1>3 DEF BeginLeaf
<1>4. ASSUME NEW d \in Clients, MakeKey(d)
      PROVE Captured(c)'
  BY <1>4 DEF MakeKey, Abandon, LeftBy
<1>5. ASSUME NEW d \in Clients, Sign(d)
      PROVE Captured(c)'
  BY <1>5 DEF Sign, Abandon
<1>6. ASSUME NEW d \in Clients, Load(d)
      PROVE Captured(c)'
  BY <1>6 DEF Load, Matching
<1>7. ASSUME NEW d \in Clients, Handshake(d)
      PROVE Captured(c)'
  BY <1>7 DEF Handshake, Accepts
<1>8. ASSUME NEW d \in Clients, ReadRequest(d)
      PROVE Captured(c)'
  BY <1>8 DEF ReadRequest
<1>9. ASSUME NEW d \in Clients, Break(d)
      PROVE Captured(c)'
  BY <1>9 DEF Break
<1>10. ASSUME NEW d \in Clients, Record(d)
       PROVE Captured(c)'
  BY RecordOnce, <1>10 DEF Record
<1>11. ASSUME NEW d \in Clients, Respond(d)
       PROVE Captured(c)'
  BY <1>11 DEF Respond
<1>12. ASSUME NEW l \in Loops, LoopEnds(l)
       PROVE Captured(c)'
  BY <1>12 DEF LoopEnds
<1>13. CASE Stop
  BY <1>13 DEF Stop, Move
<1>14. CASE CloseSockets
  BY <1>14 DEF CloseSockets, Move
<1>15. CASE SetStatus
  BY <1>15 DEF SetStatus, Move
<1>16. CASE Records
  BY <1>16 DEF Records, Move
<1>17. CASE CountCaptures
  BY <1>17 DEF CountCaptures, Move
<1>18. CASE NetsimRecords
  BY <1>18 DEF NetsimRecords, Move
<1>20. CASE ReadLogs
  BY <1>20 DEF ReadLogs, Move
<1>19. CASE UNCHANGED servingVars
  BY <1>19 DEF servingVars
<1> QED
  BY <1>1, <1>2, <1>3, <1>4, <1>5, <1>6, <1>7, <1>8, <1>9, <1>10, <1>11,
     <1>12, <1>13, <1>14, <1>15, <1>16, <1>17, <1>18, <1>19, <1>20
     DEF ServingNext, Handler, Finish

LEMMA ReadsStep == ServingInv /\ [ServingNext]_servingVars => Reads'
<1> SUFFICES ASSUME ServingInv, [ServingNext]_servingVars PROVE Reads'
  OBVIOUS
<1>0. ServingTypeOK /\ Reads
  BY DEF ServingInv
<1> USE <1>0 DEF ServingTypeOK, Reads, Begins, clientVars, fileVars, ownerVars, handling, Step
<1>1. ASSUME NEW d \in Clients, Accept(d)
      PROVE Reads'
  BY <1>1 DEF Accept
<1>2. ASSUME NEW d \in Clients, LookUp(d)
      PROVE Reads'
  BY <1>2 DEF LookUp
<1>3. ASSUME NEW d \in Clients, BeginLeaf(d)
      PROVE Reads'
  BY <1>3 DEF BeginLeaf
<1>4. ASSUME NEW d \in Clients, MakeKey(d)
      PROVE Reads'
  BY <1>4 DEF MakeKey, Abandon, LeftBy
<1>5. ASSUME NEW d \in Clients, Sign(d)
      PROVE Reads'
  BY <1>5 DEF Sign, Abandon
<1>6. ASSUME NEW d \in Clients, Load(d)
      PROVE Reads'
  BY <1>6 DEF Load, Matching
<1>7. ASSUME NEW d \in Clients, Handshake(d)
      PROVE Reads'
  BY <1>7 DEF Handshake, Accepts
<1>8. ASSUME NEW d \in Clients, ReadRequest(d)
      PROVE Reads'
  BY <1>8 DEF ReadRequest
<1>9. ASSUME NEW d \in Clients, Break(d)
      PROVE Reads'
  BY <1>9 DEF Break
<1>10. ASSUME NEW d \in Clients, Record(d)
       PROVE Reads'
  BY <1>10 DEF Record
<1>11. ASSUME NEW d \in Clients, Respond(d)
       PROVE Reads'
  BY <1>11 DEF Respond
<1>12. ASSUME NEW l \in Loops, LoopEnds(l)
       PROVE Reads'
  BY <1>12 DEF LoopEnds
<1>13. CASE Stop
  BY <1>13 DEF Stop, Move
<1>14. CASE CloseSockets
  BY <1>14 DEF CloseSockets, Move
<1>15. CASE SetStatus
  BY <1>15 DEF SetStatus, Move
<1>16. CASE Records
  BY <1>16 DEF Records, Move
<1>17. CASE CountCaptures
  BY <1>17 DEF CountCaptures, Move
<1>18. CASE NetsimRecords
  BY <1>18 DEF NetsimRecords, Move
<1>20. CASE ReadLogs
  BY <1>20 DEF ReadLogs, Move
<1>19. CASE UNCHANGED servingVars
  BY <1>19 DEF servingVars
<1> QED
  BY <1>1, <1>2, <1>3, <1>4, <1>5, <1>6, <1>7, <1>8, <1>9, <1>10, <1>11,
     <1>12, <1>13, <1>14, <1>15, <1>16, <1>17, <1>18, <1>19, <1>20
     DEF ServingNext, Handler, Finish

LEMMA ServingInvariant == ServingSpec => []ServingInv
<1>1. ServingInit => ServingInv
  BY ClientsAssumption
     DEF ServingInit, ServingInv, ServingTypeOK, Loops, Locked, Certified, Captured, Recorded,
         Once, Reads
<1>2. ServingInv /\ [ServingNext]_servingVars => ServingInv'
  <2> SUFFICES ASSUME ServingInv, [ServingNext]_servingVars PROVE ServingInv'
    OBVIOUS
  <2>1. ServingTypeOK'
    BY TypingStep DEF ServingInv
  <2> QED
    BY <2>1, LockedStep, CertifiedStep, CapturedStep, ReadsStep DEF ServingInv
<1> QED
  BY <1>1, <1>2, PTL DEF ServingSpec

-----------------------------------------------------------------------------
(* The theorems *)

\* Every variable of the serving sinkhole keeps its type.
THEOREM ServingTyping == ServingSpec => []ServingTypeOK
<1>1. ServingInv => ServingTypeOK
  BY DEF ServingInv
<1> QED
  BY <1>1, ServingInvariant, PTL

\* A connection that meets no failure of its own, and whose client takes the
\* certificate, is in _captures exactly once.
THEOREM CompleteCaptured == ServingSpec => []CompleteIsCaptured
<1>1. ASSUME ServingInv PROVE CompleteIsCaptured
  <2> SUFFICES ASSUME NEW c \in Clients, conn[c] = "closed", c \notin failed,
                      scheme[c] = "https" /\ c \in verifying => SafeHost(sni[c]) = sni[c]
               PROVE  Cardinality({i \in DOMAIN captures : captures[i] = c}) = 1
    BY DEF CompleteIsCaptured
  <2>1. Once(c)
    BY <1>1 DEF ServingInv, Captured
  <2>2. PICK i \in DOMAIN captures : {j \in DOMAIN captures : captures[j] = c} = {i}
    BY <2>1 DEF Once
  <2> QED
    BY <2>2, FS_Singleton
<1> QED
  BY <1>1, ServingInvariant, PTL

\* The four readings the analysis makes of the captures, while handlers may
\* still add to them, differ by growing only.
THEOREM ReadingsGrow == ServingSpec => []CountsGrow
<1>1. ASSUME ServingInv PROVE CountsGrow
  <2>1. ServingTypeOK /\ Reads
    BY <1>1 DEF ServingInv
  <2>2. owner = "done" => IsPrefix(took.records, took.netsim)
    <3> SUFFICES ASSUME owner = "done" PROVE IsPrefix(took.records, took.netsim)
      OBVIOUS
    <3>1. took.records \in Seq(Clients) /\ took.netsim \in Seq(Clients)
      BY <2>1 DEF ServingTypeOK
    <3>2. Begins(took.records, took.netsim)
      BY <2>1 DEF Reads
    <3> QED
      BY <3>1, <3>2 DEF Begins, IsPrefix
  <2> QED
    BY <2>1, <2>2 DEF Reads, CountsGrow
<1> QED
  BY <1>1, ServingInvariant, PTL
=============================================================================
