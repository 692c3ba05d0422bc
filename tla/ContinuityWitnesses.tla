-------------------------- MODULE ContinuityWitnesses --------------------------
(***************************************************************************)
(* What a witness store of protocol v1 promises its callers: the           *)
(* StorageAdapter contract of put_witness and get_witness                  *)
(* (src/src/howedo/storage/base.py, src/docs/protocol/V1.md:19, ADR-0006). *)
(* Each call takes effect atomically, at the step that answers it.  A put  *)
(* records a new witness, or finds it on record, or changes nothing; a get *)
(* returns what is on record at that step.  Nothing leaves the record, so  *)
(* a get that follows a successful put finds it.                           *)
(***************************************************************************)

CONSTANTS
    Writer,     \* callers of put_witness
    Reader,     \* callers of get_witness
    Digest,     \* digests of payloads
    DigestOf,   \* the digest of a payload
    ReadBack,   \* the payload read back after it was recorded
    ValueOf,    \* what a comparison of payloads sees
    Witness,    \* the witnesses put
    NoWitness   \* no witness, no row

VARIABLES
    witnesses,  \* the rows on record
    witness,    \* the witness of the writer's call
    answer,     \* how the call ended, or "pending"
    asked,      \* the digest of the reader's call
    reply,      \* how it ended, or "pending"
    got         \* the row it returned

putVars == <<witness, answer>>
getVars == <<asked, reply, got>>
storeVars == <<witnesses, putVars, getVars>>

StoreInit ==
    /\ witnesses = {}
    /\ witness = [c \in Writer |-> NoWitness]
    /\ answer = [c \in Writer |-> "none"]
    /\ asked \in [Reader -> Digest]
    /\ reply = [r \in Reader |-> "none"]
    /\ got = [r \in Reader |-> NoWitness]

OnRecord(digest) == {row \in witnesses : row.witness_digest = digest}

DigestPut(c) == DigestOf[witness[c].payload]

\* A row that the writer's own record would compare equal to.
Same(row, w) == row.witness_kind = w.witness_kind /\ ValueOf[row.payload] = ValueOf[w.payload]

\* A record that compares equal to itself when it is read back.
Kept(w) == ValueOf[ReadBack[w.payload]] = ValueOf[w.payload]

InvokePut(c, w) ==
    /\ answer[c] # "pending"
    /\ witness' = [witness EXCEPT ![c] = w]
    /\ answer' = [answer EXCEPT ![c] = "pending"]
    /\ UNCHANGED <<witnesses, getVars>>

AnswerPut(c, result) ==
    /\ answer' = [answer EXCEPT ![c] = result]
    /\ UNCHANGED <<witness, getVars>>

\* The caller learns of the success, or the answer is lost.
Success(c) == AnswerPut(c, "stored") \/ AnswerPut(c, "lost")

\* A new digest.
Record(c) ==
    /\ OnRecord(DigestPut(c)) = {}
    /\ Kept(witness[c])
    /\ witnesses' = witnesses \union
           {[witness_digest |-> DigestPut(c), witness_kind |-> witness[c].witness_kind,
             payload |-> ReadBack[witness[c].payload]]}
    /\ Success(c)

\* The witness is on record already: a retry, or another's put of the same.
Repeat(c) ==
    /\ \E row \in OnRecord(DigestPut(c)) : Same(row, witness[c])
    /\ UNCHANGED witnesses
    /\ Success(c)

\* A put that fails changes nothing; a conflict has a cause: the digest is taken
\* by a witness of another kind, or the payload does not survive its conversion.
Refuse(c) ==
    /\ \/ AnswerPut(c, "error")
       \/ /\ \/ ~Kept(witness[c])
             \/ \E row \in OnRecord(DigestPut(c)) : row.witness_kind # witness[c].witness_kind
          /\ AnswerPut(c, "WitnessConflict")
    /\ UNCHANGED witnesses

InvokeGet(r, digest) ==
    /\ reply[r] # "pending"
    /\ asked' = [asked EXCEPT ![r] = digest]
    /\ reply' = [reply EXCEPT ![r] = "pending"]
    /\ got' = [got EXCEPT ![r] = NoWitness]
    /\ UNCHANGED <<witnesses, putVars>>

\* The witness of the digest, or none, or an error: a row whose payload has
\* another digest than the one it is kept under cannot be returned.
AnswerGet(r) ==
    /\ reply[r] = "pending"
    /\ \/ reply' = [reply EXCEPT ![r] = "error"] /\ UNCHANGED got
       \/ /\ OnRecord(asked[r]) = {}
          /\ reply' = [reply EXCEPT ![r] = "absent"]
          /\ UNCHANGED got
       \/ \E row \in OnRecord(asked[r]) :
              /\ reply' = [reply EXCEPT ![r] = IF DigestOf[row.payload] = asked[r]
                                               THEN "found" ELSE "ValueError"]
              /\ got' = [got EXCEPT ![r] = row]
    /\ UNCHANGED <<witnesses, putVars, asked>>

StoreNext ==
    \/ \E c \in Writer, w \in Witness : InvokePut(c, w)
    \/ \E c \in Writer : answer[c] = "pending" /\ (Record(c) \/ Repeat(c) \/ Refuse(c))
    \/ \E r \in Reader, digest \in Digest : InvokeGet(r, digest)
    \/ \E r \in Reader : AnswerGet(r)

StoreSpec == StoreInit /\ [][StoreNext]_storeVars
===============================================================================
