--------------------------- MODULE CallerIdentity ---------------------------
(***************************************************************************)
(* Who sends a request, as internal/auth/identity.go establishes it.       *)
(***************************************************************************)
CONSTANTS
    Uids,       \* the uids that send requests, RootUid included
    RootUid     \* uid 0

ASSUME UidsAssumption == RootUid \in Uids

(***************************************************************************)
(* A caller: a uid (RealUID) and how it reached root rights, if it did.    *)
(* "sudo" is UserTypeSudo; "config" is a user named in privileged_users of *)
(* policy.yaml; "regular" is everyone else, and root itself.               *)
(***************************************************************************)
Modes == {"regular", "sudo", "config"}
Identities ==
    {id \in [uid : Uids, mode : Modes] : id.uid = RootUid => id.mode = "regular"}

IsPrivileged(id) == id.uid = RootUid \/ id.mode \in {"sudo", "config"}
IsSudoCommand(id) == id.mode = "sudo"

Root == [uid |-> RootUid, mode |-> "regular"]
=============================================================================
