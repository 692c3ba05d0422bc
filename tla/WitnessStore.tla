------------------------------ MODULE WitnessStore ------------------------------
(***************************************************************************)
(* The content-addressed witnesses of the PostgreSQL adapter,              *)
(* src/src/howedo/storage/postgres.py put_witness and get_witness over the *)
(* table howedo_witnesses, with the WitnessRecord of protocol.py.  One     *)
(* action is one SQL statement of one READ COMMITTED transaction, as in    *)
(* PostgresStorage; the schema check that opens each transaction is        *)
(* modelled there, and its failure is one of the errors of the Abort       *)
(* actions here.                                                           *)
(*                                                                         *)
(* A payload is in memory, is written with json.dumps, and is read back    *)
(* from a jsonb column.  JSON turns a tuple into a list, and jsonb writes  *)
(* a float such as 1e16 as an integer, which Python takes for equal but    *)
(* which has another text and so another digest.                           *)
(***************************************************************************)

CONSTANTS
    Writer,     \* threads or processes that put witnesses
    Reader,     \* threads or processes that get them
    Payload,    \* payloads, as they are in memory
    Digest,     \* digests of payloads
    DigestOf,   \* canonical_digest: of the text that json.dumps makes of a payload
    ReadBack,   \* the payload read from jsonb after it was written there
    ValueOf,    \* what Python's == sees of a payload
    Witness,    \* the WitnessRecords put
    NoWitness   \* no witness, no row

ASSUME PayloadAssumption ==
    /\ DigestOf \in [Payload -> Digest]
    /\ ReadBack \in [Payload -> Payload]
    /\ \A p, q \in Payload : DigestOf[p] = DigestOf[q] => ReadBack[p] = ReadBack[q]

ASSUME WitnessAssumption ==
    /\ \A w \in Witness : w.payload \in Payload
    /\ NoWitness \notin Witness

VARIABLES
    witnesses,  \* committed rows of howedo_witnesses
    put,        \* the next statement of the writer's transaction
    witness,    \* the record the writer puts, or put last
    inserted,   \* its row is inserted, not committed
    answer,     \* what the writer's last put returned or raised
    recorded,   \* history: the records that were put with success
    asked,      \* the digest of the reader's call
    known,      \* history: what was recorded when the call began
    reply,      \* what the reader's last get returned or raised
    got         \* the row it was built from

witnessVars == <<witnesses, put, witness, inserted, answer, recorded, asked, known, reply, got>>

\* The row of a record.
WitnessRow(w) == [witness_digest |-> DigestOf[w.payload],
                  witness_kind |-> w.witness_kind,
                  payload |-> ReadBack[w.payload]]

WitnessRows == {WitnessRow(w) : w \in Witness}

WitnessTypeOK ==
    /\ witnesses \subseteq WitnessRows
    /\ put \in [Writer -> {"idle", "insert", "confirm", "commit"}]
    /\ witness \in [Writer -> Witness \union {NoWitness}]
    /\ inserted \in [Writer -> BOOLEAN]
    /\ answer \in [Writer -> {"none", "pending", "stored", "lost", "error", "WitnessConflict"}]
    /\ recorded \subseteq Witness
    /\ asked \in [Reader -> Digest]
    /\ known \in [Reader -> SUBSET Witness]
    /\ reply \in [Reader -> {"none", "pending", "found", "absent", "error", "ValueError"}]
    /\ got \in [Reader -> WitnessRows \union {NoWitness}]
    /\ \A c \in Writer : /\ put[c] = "idle" <=> answer[c] # "pending"
                         /\ answer[c] # "none" => witness[c] \in Witness

WitnessInit ==
    /\ witnesses = {}
    /\ put = [c \in Writer |-> "idle"]
    /\ witness = [c \in Writer |-> NoWitness]
    /\ inserted = [c \in Writer |-> FALSE]
    /\ answer = [c \in Writer |-> "none"]
    /\ recorded = {}
    /\ asked \in [Reader -> Digest]
    /\ known = [r \in Reader |-> {}]
    /\ reply = [r \in Reader |-> "none"]
    /\ got = [r \in Reader |-> NoWitness]

-------------------------------------------------------------------------------

AddressedBy(digest) == {row \in witnesses : row.witness_digest = digest}

DigestPut(c) == DigestOf[witness[c].payload]

\* The writers whose uncommitted row has c's digest.
InTheWay(c) == {o \in Writer \ {c} : inserted[o] /\ DigestPut(o) = DigestPut(c)}

\* Defect: the row is looked for outside the transaction.
SeenBy_Committed(c) == AddressedBy(DigestPut(c))

\* The rows of c's digest that c's transaction sees.
SeenBy(c) == AddressedBy(DigestPut(c))
             \union (IF inserted[c] THEN {WitnessRow(witness[c])} ELSE {})

\* Defect: a call that ended keeps its transaction.
EndPut_Open(c, result) ==
    /\ answer' = [answer EXCEPT ![c] = result]
    /\ UNCHANGED <<put, inserted, witness, asked, known, reply, got>>

\* The transaction ends with an answer to its caller.
EndPut(c, result) ==
    /\ put' = [put EXCEPT ![c] = "idle"]
    /\ inserted' = [inserted EXCEPT ![c] = FALSE]
    /\ answer' = [answer EXCEPT ![c] = result]
    /\ UNCHANGED <<witness, asked, known, reply, got>>

PutWitness(c, w) ==
    /\ put[c] = "idle"
    /\ put' = [put EXCEPT ![c] = "insert"]
    /\ witness' = [witness EXCEPT ![c] = w]
    /\ answer' = [answer EXCEPT ![c] = "pending"]
    /\ UNCHANGED <<witnesses, inserted, recorded, asked, known, reply, got>>

\* INSERT ... ON CONFLICT (witness_digest) DO NOTHING
InsertWitness(c) ==
    /\ put[c] = "insert"
    /\ InTheWay(c) = {}
    /\ put' = [put EXCEPT ![c] = "confirm"]
    /\ inserted' = [inserted EXCEPT ![c] = AddressedBy(DigestPut(c)) = {}]
    /\ UNCHANGED <<witnesses, witness, answer, recorded, asked, known, reply, got>>

\* The comparison of a row with the record in memory.
Confirms(row, w) ==
    row.witness_kind = w.witness_kind /\ ValueOf[row.payload] = ValueOf[w.payload]

\* Defect: the digest alone is taken as proof of the same record.
ConfirmWitness_DigestOnly(c) ==
    /\ put[c] = "confirm"
    /\ put' = [put EXCEPT ![c] = "commit"]
    /\ UNCHANGED <<witnesses, witness, inserted, answer, recorded, asked, known, reply, got>>

\* SELECT the row of the digest, its own or another's; it must be the record given.
ConfirmWitness(c) ==
    /\ put[c] = "confirm"
    /\ \/ /\ \E row \in SeenBy(c) : Confirms(row, witness[c])
          /\ put' = [put EXCEPT ![c] = "commit"]
          /\ UNCHANGED <<witness, inserted, answer, asked, known, reply, got>>
       \/ /\ \A row \in SeenBy(c) : ~Confirms(row, witness[c])
          /\ EndPut(c, "WitnessConflict")
    /\ UNCHANGED <<witnesses, recorded>>

\* The transaction commits, and the writer learns it or does not.
CommitWitness(c) ==
    /\ put[c] = "commit"
    /\ witnesses' = IF inserted[c] THEN witnesses \union {WitnessRow(witness[c])} ELSE witnesses
    /\ \/ EndPut(c, "stored") /\ recorded' = recorded \union {witness[c]}
       \/ EndPut(c, "lost") /\ UNCHANGED recorded

\* The writer dies, the transaction is lost, or its schema or payload is refused.
AbortPut(c) ==
    /\ put[c] # "idle"
    /\ EndPut(c, "error")
    /\ UNCHANGED <<witnesses, recorded>>

-------------------------------------------------------------------------------

GetWitness(r, digest) ==
    /\ reply[r] # "pending"
    /\ asked' = [asked EXCEPT ![r] = digest]
    /\ known' = [known EXCEPT ![r] = recorded]
    /\ reply' = [reply EXCEPT ![r] = "pending"]
    /\ got' = [got EXCEPT ![r] = NoWitness]
    /\ UNCHANGED <<witnesses, put, witness, inserted, answer, recorded>>

\* SELECT the row, and build a WitnessRecord, which computes the digest of what
\* was read and raises a ValueError unless it is the digest asked for.
SelectWitness(r) ==
    /\ reply[r] = "pending"
    /\ \/ /\ AddressedBy(asked[r]) = {}
          /\ reply' = [reply EXCEPT ![r] = "absent"]
          /\ UNCHANGED got
       \/ \E row \in AddressedBy(asked[r]) :
              /\ reply' = [reply EXCEPT ![r] = IF DigestOf[row.payload] = asked[r]
                                               THEN "found" ELSE "ValueError"]
              /\ got' = [got EXCEPT ![r] = row]
    /\ UNCHANGED <<witnesses, put, witness, inserted, answer, recorded, asked, known>>

AbortGet(r) ==
    /\ reply[r] = "pending"
    /\ reply' = [reply EXCEPT ![r] = "error"]
    /\ UNCHANGED <<witnesses, put, witness, inserted, answer, recorded, asked, known, got>>

WitnessNext ==
    \/ \E c \in Writer, w \in Witness : PutWitness(c, w)
    \/ \E c \in Writer :
           \/ InsertWitness(c)
           \/ ConfirmWitness(c)
           \/ CommitWitness(c)
           \/ AbortPut(c)
    \/ \E r \in Reader, digest \in Digest : GetWitness(r, digest)
    \/ \E r \in Reader : SelectWitness(r) \/ AbortGet(r)

WitnessSpec == WitnessInit /\ [][WitnessNext]_witnessVars

-------------------------------------------------------------------------------
(* Properties *)

\* A get that follows a successful put of its digest, by anybody, finds the
\* record: the same kind and an equal payload.  It fails only where jsonb writes
\* the payload with another text than json.dumps.
PutIsReadable ==
    \A r \in Reader : \A w \in known[r] :
        DigestOf[w.payload] = asked[r] =>
            /\ reply[r] # "absent"
            /\ reply[r] = "found" => Confirms(got[r], w)
            /\ reply[r] = "ValueError" => DigestOf[ReadBack[w.payload]] # asked[r]

\* The digest is taken by a record of another kind, or JSON changes the payload.
HasCause(w) ==
    \/ ValueOf[ReadBack[w.payload]] # ValueOf[w.payload]
    \/ \E row \in AddressedBy(DigestOf[w.payload]) : row.witness_kind # w.witness_kind

\* A put is refused only for its record's sake, never for a race or for a retry.
RefusedForCause == \A c \in Writer : answer[c] = "WitnessConflict" => HasCause(witness[c])

\* Seen from its committed rows and its callers, the table is the atomic witness
\* store of protocol v1: a put takes effect in the step that answers it, once per
\* digest, or not at all, and is refused only for its record's sake, never for a
\* race or a retry; a get returns what is on record when it is answered.
Contract == INSTANCE ContinuityWitnesses

WitnessContract == Contract!StoreSpec

\* The record is in the table.
InPlace(w) == \E row \in AddressedBy(DigestOf[w.payload]) : Confirms(row, w)

\* What the order of statements guarantees: one row of a digest, committed or
\* not, and a transaction that may commit has seen its own record in place.
StoreInv ==
    /\ \A a, b \in witnesses : a.witness_digest = b.witness_digest => a = b
    /\ \A w \in recorded : InPlace(w)
    /\ \A r \in Reader : known[r] \subseteq recorded
    /\ \A c \in Writer :
           /\ put[c] \in {"idle", "insert"} => ~inserted[c]
           /\ inserted[c] => AddressedBy(DigestPut(c)) = {} /\ InTheWay(c) = {}
           /\ put[c] \in {"confirm", "commit"} => SeenBy(c) # {}
           /\ put[c] = "commit" => \E row \in SeenBy(c) : Confirms(row, witness[c])

WitnessInv == WitnessTypeOK /\ StoreInv /\ PutIsReadable /\ RefusedForCause
===============================================================================
