----------------------------- MODULE ImageTables -----------------------------
(***************************************************************************)
(* The two SQLite tables that say whose an image is, and the statements    *)
(* that internal/authz/ownership.go runs on them.  SQLite is opened with a *)
(* single connection, so one statement is one atomic step; a Go method     *)
(* that runs two statements is two steps, and other requests run between.  *)
(*                                                                         *)
(*   images[i]     the row of table images for key i; an absent row is     *)
(*                 NoRow.                                                  *)
(*   access[i][u]  the row (i, u) of table image_access: "none", or its    *)
(*                 privileged_context, 0 = "plain", 1 = "sudo".            *)
(*                                                                         *)
(* A key is the content id of an image or a manifest digest: the spellings *)
(* that normalizeImageID and resolveImageIDInDB reconcile (sha256: prefix, *)
(* 12-character short id) all denote the same element of Images.           *)
(***************************************************************************)
EXTENDS CallerIdentity, Naturals, FiniteSets

CONSTANT
    Images      \* content ids and manifest digests, the keys of the tables

VARIABLES images, access

tableVars == <<images, access>>

Sources == {"pull", "build", "load", "commit", "import"}
Contexts == {"none", "plain", "sudo"}

Rows == [owner : Uids, public : BOOLEAN, sudo : BOOLEAN, source : Sources \cup {"none"}]
NoRow == [owner |-> RootUid, public |-> FALSE, sudo |-> FALSE, source |-> "none"]

-----------------------------------------------------------------------------
(* Queries. *)

\* GetImageOwner's "found"
Tracked(i) == images[i].source # "none"

HasUserImageAccess(i, u) == access[i][u] # "none"

\* GetImageRefCountExcluding(i, u) > 0
ReferencedByOthers(i, u) == \E v \in Uids \ {u} : access[i][v] # "none"

CanUseImage(u, i) ==
    IF Tracked(i)
    THEN images[i].public \/ images[i].owner = u \/ HasUserImageAccess(i, u)
    ELSE u = RootUid

CanSeeImage(u, i) ==
    /\ Tracked(i)
    /\ \/ ~images[i].sudo /\ (images[i].public \/ images[i].owner = u)
       \/ access[i][u] = "plain"

-----------------------------------------------------------------------------
(* Statements.  Each one is the whole effect on the two tables. *)

\* mutant: any pull takes the row over
UpsertedRow_anyPull(row, id, source) ==
    IF row.source = "none"
    THEN [owner |-> id.uid, public |-> FALSE, sudo |-> IsSudoCommand(id), source |-> source]
    ELSE IF source = "pull"
    THEN [row EXCEPT !.owner = id.uid, !.sudo = IsSudoCommand(id), !.source = source]
    ELSE row

\* the row SetImageOwner's upsert leaves behind: a new row, the row of a
\* "build" taken over by a "pull" (is_public is kept), or the old row.
UpsertedRow(row, id, source) ==
    IF row.source = "none"
    THEN [owner |-> id.uid, public |-> FALSE, sudo |-> IsSudoCommand(id), source |-> source]
    ELSE IF row.source = "build" /\ source = "pull"
    THEN [row EXCEPT !.owner = id.uid, !.sudo = IsSudoCommand(id), !.source = source]
    ELSE row

\* SetImageOwner, first statement
InsertOwner(i, id, source) ==
    /\ images' = [images EXCEPT ![i] = UpsertedRow(@, id, source)]
    /\ UNCHANGED access

\* mutant: the new context replaces the old one
MinContext_replaced(old, id) ==
    IF IsSudoCommand(id) THEN "sudo" ELSE "plain"

\* the MIN of the privileged contexts of the old row and of the new one
MinContext(old, id) ==
    IF IsSudoCommand(id) /\ old # "plain" THEN "sudo" ELSE "plain"

\* SetImageOwner, second statement
UpsertAccess(i, id) ==
    /\ access' = [access EXCEPT ![i][id.uid] = MinContext(@, id)]
    /\ UNCHANGED images

\* INSERT OR IGNORE with the column's default context 0
EnsureImageAccess(i, u) ==
    /\ access' = [access EXCEPT ![i][u] = IF @ = "none" THEN "plain" ELSE @]
    /\ UNCHANGED images

RemoveUserImageAccess(i, u) ==
    /\ access' = [access EXCEPT ![i][u] = "none"]
    /\ UNCHANGED images

\* DeleteImage, first statement
DeleteAccessRows(i) ==
    /\ access' = [access EXCEPT ![i] = [u \in Uids |-> "none"]]
    /\ UNCHANGED images

\* mutant: the row of the deleted image stays
DeleteOwnerRow_kept(i) == UNCHANGED <<images, access>>

\* DeleteImage, second statement
DeleteOwnerRow(i) ==
    /\ images' = [images EXCEPT ![i] = NoRow]
    /\ UNCHANGED access

\* UPDATE images SET is_public: no row, no effect
SetImagePublic(i, isPublic) ==
    /\ images' = [images EXCEPT ![i].public = (isPublic /\ Tracked(i))]
    /\ UNCHANGED access

TablesTypeOK ==
    /\ images \in [Images -> Rows]
    /\ access \in [Images -> [Uids -> Contexts]]

TablesInit ==
    /\ images = [i \in Images |-> NoRow]
    /\ access = [i \in Images |-> [u \in Uids |-> "none"]]
==============================================================================
