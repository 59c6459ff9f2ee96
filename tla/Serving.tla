------------------------------ MODULE Serving ------------------------------
(***************************************************************************)
(* How a sinkhole that is up answers connections (backend/app/sinkhole.py)  *)
(* and how the analysis takes what it captured (backend/app/package.py).    *)
(*                                                                         *)
(* Two accept loops give every connection a thread of its own. A TLS one    *)
(* says a server name, and the thread mints a certificate for that name     *)
(* with two openssl commands and four files named after it, unless the      *)
(* cache has one. The same lock protects the cache and the captures, and    *)
(* is held while openssl runs.                                              *)
(***************************************************************************)
EXTENDS Naturals, Sequences, FiniteSets, SequencesExt

CONSTANTS
    Clients,    \* connections the sandboxed code makes
    Names,      \* host names
    Unsafe,     \* names _SAFE_HOSTNAME_RE rejects
    NoName,     \* no SNI
    Invalid,    \* "invalid-sni.invalid"
    Nobody      \* nobody holds the lock; nobody's file

ASSUME NamesAssumption == Unsafe \subseteq Names /\ {NoName, Invalid} \cap Names = {}
ASSUME ClientsAssumption == Nobody \notin Clients

Loops == {"http", "https"}
SafeHost(n) == IF n \in Names \ Unsafe THEN n ELSE Invalid
Hosts == (Names \ Unsafe) \cup {Invalid}

VARIABLES
    conn,       \* where the thread of each connection is
    scheme,     \* the listener it came to
    sni,        \* the server name it says
    verifying,  \* history: connections whose client checks the certificate's name
    failed,     \* history: connections that met a failing command, an error or a timeout
    lock,       \* who holds _lock
    key, csr, pem,  \* the files of each host: whose key they are made from
    cached,     \* hosts in _leaf_cache
    ready,      \* connections given a certificate
    captures,   \* _captures
    loops,      \* accept loops running
    owner,      \* where the analysis is
    took        \* what the analysis read: [status, records, count, netsim]

fileVars == <<key, csr, pem, cached>>
ownerVars == <<loops, owner, took>>
clientVars == <<scheme, sni, verifying>>
servingVars == <<conn, clientVars, failed, lock, fileVars, ready, captures, ownerVars>>

ServingTypeOK ==
    /\ conn \in [Clients -> {"away", "hello", "key", "sign", "load", "handshake",
                             "request", "record", "respond", "closed"}]
    /\ scheme \in [Clients -> Loops]
    /\ sni \in [Clients -> Names \cup {NoName}]
    /\ verifying \subseteq Clients /\ failed \subseteq Clients
    /\ lock \in Clients \cup {Nobody}
    /\ key \in [Hosts -> Clients \cup {Nobody}]
    /\ csr \in [Hosts -> Clients \cup {Nobody}]
    /\ pem \in [Hosts -> Clients \cup {Nobody}]
    /\ cached \subseteq Hosts
    /\ ready \subseteq Clients
    /\ captures \in Seq(Clients)
    /\ loops \subseteq Loops
    /\ owner \in {"up", "stopping", "closed", "status", "reading", "records", "count",
                 "done", "raised"}
    /\ took \in [status : Nat, records : Seq(Clients), count : Nat, netsim : Seq(Clients)]

ServingInit ==
    /\ conn = [c \in Clients |-> "away"]
    /\ scheme \in [Clients -> Loops]
    /\ sni \in [Clients -> Names \cup {NoName}]
    /\ verifying \in SUBSET Clients
    /\ failed = {} /\ lock = Nobody
    /\ key = [h \in Hosts |-> Nobody] /\ csr = key /\ pem = key
    /\ cached = {} /\ ready = {} /\ captures = <<>>
    /\ loops = Loops /\ owner = "up"
    /\ took = [status |-> 0, records |-> <<>>, count |-> 0, netsim |-> <<>>]

Host(c) == SafeHost(sni[c])
Step(c, from, to) == conn[c] = from /\ conn' = [conn EXCEPT ![c] = to]

---------------------------------------------------------------------------
(* The accept loops. One that checked the stop flag just before stop() set  *)
(* it accepts once more; after the sockets are closed none does.            *)

Accept(c) ==
    /\ scheme[c] \in loops /\ owner \in {"up", "stopping"}
    /\ Step(c, "away", IF scheme[c] = "http" THEN "request" ELSE "hello")
    /\ UNCHANGED <<clientVars, failed, lock, fileVars, ready, captures, ownerVars>>

LoopEnds(l) ==
    /\ l \in loops /\ owner # "up"
    /\ loops' = loops \ {l}
    /\ UNCHANGED <<conn, clientVars, failed, lock, fileVars, ready, captures, owner, took>>

---------------------------------------------------------------------------
(* The handshake: _sni_callback and _leaf_context. The exit status of       *)
(* openssl is not looked at: what a failing command left is loaded.         *)

\* A command of c's that fails leaves each file it writes as it was, empty, or,
\* the key, which comes first, written.
LeftBy(c, old) == {old, Nobody, c}

\* Mistake: acquire() and release() around the body instead of a with block.
AbandonLocked(c, at) ==
    /\ Step(c, at, "handshake")
    /\ failed' = failed \cup {c}
    /\ UNCHANGED lock

\* An exception on the way out of the callback releases the lock; the handshake
\* goes on without a certificate.
Abandon(c, at) ==
    /\ Step(c, at, "handshake")
    /\ lock' = Nobody
    /\ failed' = failed \cup {c}

LookUp(c) ==
    /\ lock = Nobody
    /\ Host(c) \in cached
    /\ Step(c, "hello", "handshake")
    /\ ready' = ready \cup {c}
    /\ UNCHANGED <<clientVars, failed, lock, fileVars, captures, ownerVars>>

\* Mistake: the lock is given up before openssl runs.
BeginLeafUnlocked(c) ==
    /\ lock = Nobody
    /\ Host(c) \notin cached
    /\ Step(c, "hello", "key")
    /\ UNCHANGED <<clientVars, failed, lock, fileVars, ready, captures, ownerVars>>

BeginLeaf(c) ==
    /\ lock = Nobody
    /\ Host(c) \notin cached
    /\ Step(c, "hello", "key")
    /\ lock' = c
    /\ UNCHANGED <<clientVars, failed, fileVars, ready, captures, ownerVars>>

\* openssl req
MakeKey(c) ==
    /\ \/ /\ Step(c, "key", "sign")
          /\ key' = [key EXCEPT ![Host(c)] = c]
          /\ csr' = [csr EXCEPT ![Host(c)] = c]
          /\ UNCHANGED <<lock, failed>>
       \/ /\ \E k \in LeftBy(c, key[Host(c)]) : key' = [key EXCEPT ![Host(c)] = k]
          /\ \E r \in {csr[Host(c)], Nobody} : csr' = [csr EXCEPT ![Host(c)] = r]
          /\ \/ Step(c, "key", "sign") /\ failed' = failed \cup {c} /\ UNCHANGED lock
             \/ Abandon(c, "key")
    /\ UNCHANGED <<clientVars, pem, cached, ready, captures, ownerVars>>

\* openssl x509: signs whatever request the file holds
Sign(c) ==
    /\ \/ /\ csr[Host(c)] # Nobody
          /\ Step(c, "sign", "load")
          /\ pem' = [pem EXCEPT ![Host(c)] = csr[Host(c)]]
          /\ UNCHANGED <<lock, failed>>
       \/ /\ \E p \in {pem[Host(c)], Nobody} : pem' = [pem EXCEPT ![Host(c)] = p]
          /\ \/ Step(c, "sign", "load") /\ failed' = failed \cup {c} /\ UNCHANGED lock
             \/ Abandon(c, "sign")
    /\ UNCHANGED <<clientVars, key, csr, cached, ready, captures, ownerVars>>

\* load_cert_chain takes a certificate and the key that belongs to it
Matching(h) == pem[h] # Nobody /\ pem[h] = key[h]

\* Mistake: the cache entry is named by what the client said.
LoadAsSaid(c) ==
    /\ Step(c, "load", "handshake")
    /\ lock' = Nobody
    /\ cached' = IF Matching(Host(c)) THEN cached \cup {sni[c]} ELSE cached
    /\ ready' = IF Matching(Host(c)) THEN ready \cup {c} ELSE ready
    /\ UNCHANGED <<clientVars, failed, key, csr, pem, captures, ownerVars>>

Load(c) ==
    /\ Step(c, "load", "handshake")
    /\ lock' = Nobody
    /\ cached' = IF Matching(Host(c)) THEN cached \cup {Host(c)} ELSE cached
    /\ ready' = IF Matching(Host(c)) THEN ready \cup {c} ELSE ready
    /\ UNCHANGED <<clientVars, failed, key, csr, pem, captures, ownerVars>>

\* The client's side of the handshake: a client that checks names refuses the
\* certificate every rejected name shares.
Accepts(c) == c \in ready /\ (c \in verifying => SafeHost(sni[c]) = sni[c])

Handshake(c) ==
    /\ Step(c, "handshake", IF Accepts(c) THEN "request" ELSE "closed")
    /\ UNCHANGED <<clientVars, failed, lock, fileVars, ready, captures, ownerVars>>

---------------------------------------------------------------------------
(* _handle_http. A client that ends its request early is recorded with what *)
(* arrived; a reset or five silent seconds close the connection.            *)

ReadRequest(c) ==
    /\ Step(c, "request", "record")
    /\ UNCHANGED <<clientVars, failed, lock, fileVars, ready, captures, ownerVars>>

Break(c) ==
    /\ \E at \in {"handshake", "request"} : Step(c, at, "closed")
    /\ failed' = failed \cup {c}
    /\ UNCHANGED <<clientVars, lock, fileVars, ready, captures, ownerVars>>

Record(c) ==
    /\ lock = Nobody
    /\ Step(c, "record", "respond")
    /\ captures' = Append(captures, c)
    /\ UNCHANGED <<clientVars, failed, lock, fileVars, ready, ownerVars>>

\* An error while the 502 is sent is passed over.
Respond(c) ==
    /\ Step(c, "respond", "closed")
    /\ UNCHANGED <<clientVars, failed, lock, fileVars, ready, captures, ownerVars>>

---------------------------------------------------------------------------
(* The analysis: stop(), then records(), then to_netsim_json(). Only        *)
(* records() takes the lock. An exception before it makes a failed report,   *)
(* which has none of the captures.                                          *)

Move(from, to) == owner = from /\ owner' = to
handling == <<conn, clientVars, failed, lock, fileVars, ready, loops>>

Stop == Move("up", "stopping") /\ UNCHANGED <<handling, captures, took>>
\* The joins wait two seconds for a loop and go on without it.
CloseSockets == Move("stopping", "closed") /\ UNCHANGED <<handling, captures, took>>

\* The commands of the teardown: one of them may run out of its time, and raise.
SetStatus ==
    /\ \/ Move("closed", "status") /\ took' = [took EXCEPT !.status = Len(captures)]
       \/ Move("closed", "raised") /\ UNCHANGED took
    /\ UNCHANGED <<handling, captures>>

\* What lies between stop() and records(): an exception of a stage or a collector
\* that the finally block held back, the logs and the pcap, whose reading may raise.
ReadLogs ==
    /\ \E to \in {"reading", "raised"} : Move("status", to)
    /\ UNCHANGED <<handling, captures, took>>

\* Mistake: records() hands the captures over and starts a new list.
RecordsDrained ==
    /\ lock = Nobody
    /\ Move("reading", "records")
    /\ took' = [took EXCEPT !.records = captures]
    /\ captures' = <<>>
    /\ UNCHANGED handling

Records ==
    /\ lock = Nobody
    /\ Move("reading", "records")
    /\ took' = [took EXCEPT !.records = captures]
    /\ UNCHANGED <<handling, captures>>

CountCaptures ==
    /\ Move("records", "count")
    /\ took' = [took EXCEPT !.count = Len(captures)]
    /\ UNCHANGED <<handling, captures>>

NetsimRecords ==
    /\ lock = Nobody
    /\ Move("count", "done")
    /\ took' = [took EXCEPT !.netsim = captures]
    /\ UNCHANGED <<handling, captures>>

---------------------------------------------------------------------------

Handler(c) ==
    \/ LookUp(c) \/ BeginLeaf(c) \/ MakeKey(c) \/ Sign(c) \/ Load(c)
    \/ Handshake(c) \/ ReadRequest(c) \/ Break(c) \/ Record(c) \/ Respond(c)

Finish == CloseSockets \/ SetStatus \/ ReadLogs \/ Records \/ CountCaptures \/ NetsimRecords

ServingNext ==
    \/ \E c \in Clients : Accept(c) \/ Handler(c)
    \/ \E l \in Loops : LoopEnds(l)
    \/ Stop \/ Finish

\* A handler's thread runs, its openssl commands end or time out, its socket
\* has a timeout, and the analysis goes on. When the analysis stops is up to
\* its stages.
ServingFairness ==
    /\ \A c \in Clients : WF_servingVars(Handler(c))
    /\ \A l \in Loops : WF_servingVars(LoopEnds(l))
    /\ WF_servingVars(Finish)

ServingSpec == ServingInit /\ [][ServingNext]_servingVars /\ ServingFairness

---------------------------------------------------------------------------
(* What makes serving correct.                                              *)

Recorded(c) == \E i \in DOMAIN captures : captures[i] = c

\* A connection that ends without an error of its own, and whose certificate a
\* client that checks names accepts, is in the captures exactly once. Connections
\* that say the same name share its files; the lock keeps one from loading what
\* another is writing, and a leaf somebody else's failure left half made is
\* made anew.
CompleteIsCaptured ==
    \A c \in Clients :
        /\ conn[c] = "closed" /\ c \notin failed
        /\ scheme[c] = "https" /\ c \in verifying => SafeHost(sni[c]) = sni[c]
        => Cardinality({i \in DOMAIN captures : captures[i] = c}) = 1

\* Handlers outlive stop(), so what the analysis reads one after the other may
\* differ, but only by growing: the count in the status, the records the
\* signals are made from, the count and the list in netsim.json.
CountsGrow ==
    /\ owner \in {"records", "count", "done"} => took.status <= Len(took.records)
    /\ owner \in {"count", "done"} => Len(took.records) <= took.count
    /\ owner = "done" => took.count <= Len(took.netsim) /\ IsPrefix(took.records, took.netsim)

\* What the comment on _SAFE_HOSTNAME_RE says: a rejected name is still
\* recorded as it was said, nothing is lost. The code records a request, and a
\* client that checks the certificate sends none.
RejectedNameIsRecorded ==
    \A c \in Clients :
        conn[c] = "closed" /\ c \notin failed /\ scheme[c] = "https" /\ sni[c] \in Unsafe
        => Recorded(c)

\* An analysis that stops its sinkhole gets its records, or an exception before it
\* asks for them: it never waits for good for the lock they need, which is held
\* across the openssl commands of connections still open.
RecordsReturn == owner = "stopping" ~> owner \in {"done", "raised"}
=============================================================================
