-------------------------------- MODULE Domain --------------------------------
(***************************************************************************)
(* Resource revisions, shared by every module about registered state       *)
(* (src/src/howedo/domain.py).  A revision is an exact, content-addressed  *)
(* version of one resource; its key is (resource_id, revision) and its     *)
(* digest stands for its content.                                          *)
(***************************************************************************)

CONSTANTS
    ResourceId,   \* resource identifiers
    RevisionId,   \* revision identifiers
    Digest,       \* content digests
    Revision,     \* the ResourceRevision values in use
    None          \* "no head", Python's None

ASSUME RevisionAssumption ==
    /\ Revision \subseteq [resource_id : ResourceId, revision : RevisionId, digest : Digest]
    /\ None \notin Revision

\* A dict or a unique index keyed by (resource_id, revision) holds one of a and b.
SameKey(a, b) == a.resource_id = b.resource_id /\ a.revision = b.revision

\* The rows registered under rev's key.
RowsOf(rev, rows) == {row \in rows : SameKey(row, rev)}

\* rev's key is registered with another content: RevisionConflict.
Conflicts(rev, rows) == \E row \in RowsOf(rev, rows) : row.digest # rev.digest

\* A revision identifier names one content: what "immutable revision" means for
\* a set of rows.
OneContentPerKey(rows) == \A a, b \in rows : SameKey(a, b) => a = b
===============================================================================
