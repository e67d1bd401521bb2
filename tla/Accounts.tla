------------------------------ MODULE Accounts ------------------------------
(***************************************************************************)
(* One account's row and its avatar in the object storage.                 *)
(*   src/src/application/use-cases/user/*.use-case.ts                      *)
(*   src/src/application/use-cases/auth/change-password.use-case.ts        *)
(*   src/src/application/use-cases/auth/authenticate-user.use-case.ts      *)
(*   src/src/infrastructure/database/repositories/prisma-user.repository   *)
(*                                                                         *)
(* PrismaUserRepository.update writes every column of the row it was given *)
(* back, changed or not; the account-security transactions write one.      *)
(* Names, profile fields and roles are left out: they are written only by  *)
(* the first kind.  So is the middleware's check that the account is       *)
(* active: it comes before the operation reads the row, and may be         *)
(* outdated by then.                                                       *)
(***************************************************************************)
EXTENDS FiniteSets

CONSTANTS Keys,       \* identities of avatar objects
          Passwords,  \* passwords, whatever kind of hash the row holds of them
          Requests,
          None

ASSUME NoneAssumption == None \notin Keys \cup Passwords

VARIABLES
    row,       \* the account's row
    objects,   \* the avatars in the object storage
    drawn,     \* the keys given out; they are random and never drawn again
    request,   \* [Requests -> a request's local variables]
    intended,  \* history: what the operations that change a column left in it
    mixed,     \* history: something was written while another request held a
               \* copy of the row to write back
    unheard    \* history: the uploaded avatars the row was made to refer to
               \* without the request hearing of it

vars == <<row, objects, drawn, request, intended, mixed, unheard>>

Row == [active : BOOLEAN, verified : BOOLEAN,
        password : Passwords \cup {None}, avatar : Keys \cup {None}]

Phases == {"idle", "update.write",
           "upload.put", "upload.sign", "upload.write", "upload.undo", "upload.clean",
           "remove.write", "remove.clean",
           "password.write"}

\* user: the row as the request has read and changed it; old: the key it
\* has to remove from the storage afterwards.
Local == [phase : Phases, user : {None} \cup Row, key : Keys \cup {None},
          old : Keys \cup {None}, password : Passwords \cup {None}]

Idle == [phase |-> "idle", user |-> None, key |-> None, old |-> None,
         password |-> None]

\* A registered account has a password to verify its address with; one that
\* came from a social provider has none, and its address counts as verified.
Init ==
    /\ \E p \in Passwords \cup {None} :
          row = [active |-> TRUE, verified |-> p = None, password |-> p, avatar |-> None]
    /\ objects = {}
    /\ drawn = {}
    /\ request = [r \in Requests |-> Idle]
    /\ intended = row
    /\ mixed = FALSE
    /\ unheard = {}

-----------------------------------------------------------------------------
At(r, phase) == request[r].phase = phase

Begin(r, local) == At(r, "idle") /\ request' = [request EXCEPT ![r] = local]

Goto(r, phase) == request' = [request EXCEPT ![r].phase = phase]

Finish(r) == request' = [request EXCEPT ![r] = Idle]

\* Phases in which a request holds a copy of the row that it will write back.
Holding == {"update.write", "upload.put", "upload.sign", "upload.write", "remove.write"}

Mixes(q) == request[q].phase \in Holding

\* Whether a write by r falls into such a phase of another request.
MixedBy(r) == mixed' = (mixed \/ \E q \in Requests \ {r} : Mixes(q))

MixedByAny == mixed' = (mixed \/ \E q \in Requests : Mixes(q))

-----------------------------------------------------------------------------
(* PUT /users/:id; the fields it changes are not in the model.             *)
\* Mutant: the row to write back is built from the request, not from the row
\* that was read.
UpdateFromInput(r) ==
    /\ Begin(r, [Idle EXCEPT !.phase = "update.write", !.user = [avatar |-> None]])
    /\ UNCHANGED <<row, objects, drawn, intended, mixed, unheard>>

UpdateUser(r) ==
    /\ Begin(r, [Idle EXCEPT !.phase = "update.write", !.user = row])
    /\ UNCHANGED <<row, objects, drawn, intended, mixed, unheard>>

(* POST /auth/login where the stored hash is of an older kind: a new hash  *)
(* of the same password is written back with everything else, before the   *)
(* log-in looks at whether the account is active.                          *)
Rehash(r) ==
    /\ row.password # None
    /\ Begin(r, [Idle EXCEPT !.phase = "update.write", !.user = row])
    /\ UNCHANGED <<row, objects, drawn, intended, mixed, unheard>>

WriteUser(r) ==
    /\ At(r, "update.write")
    /\ row' = request[r].user
    /\ MixedBy(r)
    /\ Finish(r)
    /\ UNCHANGED <<objects, drawn, intended, unheard>>

-----------------------------------------------------------------------------
(* POST /users/me/avatar: the object is put, a URL for it signed, the row  *)
(* written, and then the old object removed.  Where the URL or the row     *)
(* fails, the new object is removed.                                       *)
UploadAvatar(r) ==
    /\ \E k \in Keys \ drawn :
          /\ Begin(r, [Idle EXCEPT !.phase = "upload.put", !.user = row,
                                   !.key = k, !.old = row.avatar])
          /\ drawn' = drawn \cup {k}
    /\ UNCHANGED <<row, objects, intended, mixed, unheard>>

PutObject(r) ==
    /\ At(r, "upload.put")
    /\ objects' = objects \cup {request[r].key}
    /\ Goto(r, "upload.sign")
    /\ UNCHANGED <<row, drawn, intended, mixed, unheard>>

SignUrl(r) ==
    /\ At(r, "upload.sign")
    /\ Goto(r, "upload.write") \/ Goto(r, "upload.undo")
    /\ UNCHANGED <<row, objects, drawn, intended, mixed, unheard>>

\* The row with its new avatar; an error of the database undoes the upload,
\* whether the row was not written or was and only the answer is lost.
WriteAvatar(r) ==
    /\ At(r, "upload.write")
    /\ \/ /\ row' = [request[r].user EXCEPT !.avatar = request[r].key]
          /\ intended' = [intended EXCEPT !.avatar = request[r].key]
          /\ MixedBy(r)
          /\ \/ /\ IF request[r].old = None THEN Finish(r) ELSE Goto(r, "upload.clean")
                /\ UNCHANGED unheard
             \/ /\ Goto(r, "upload.undo")
                /\ unheard' = unheard \cup {request[r].key}
       \/ Goto(r, "upload.undo") /\ UNCHANGED <<row, intended, mixed, unheard>>
    /\ UNCHANGED <<objects, drawn>>

\* Best effort: the deletion may fail.
UndoUpload(r) ==
    /\ At(r, "upload.undo")
    /\ objects' \in {objects, objects \ {request[r].key}}
    /\ Finish(r)
    /\ UNCHANGED <<row, drawn, intended, mixed, unheard>>

RemoveOld(r) ==
    /\ request[r].phase \in {"upload.clean", "remove.clean"}
    /\ objects' \in {objects, objects \ {request[r].old}}
    /\ Finish(r)
    /\ UNCHANGED <<row, drawn, intended, mixed, unheard>>

(* DELETE /users/me/avatar: the reference goes first, then the object.     *)
DeleteAvatar(r) ==
    /\ row.avatar # None
    /\ Begin(r, [Idle EXCEPT !.phase = "remove.write", !.user = row, !.old = row.avatar])
    /\ UNCHANGED <<row, objects, drawn, intended, mixed, unheard>>

\* Mutant: the object goes first; the request may fail before the row.
DeleteObjectFirst(r) ==
    /\ At(r, "remove.write")
    /\ request[r].old \in objects
    /\ objects' = objects \ {request[r].old}
    /\ UNCHANGED <<row, drawn, request, intended, mixed, unheard>>

ClearAvatar(r) ==
    /\ At(r, "remove.write")
    /\ row' = [request[r].user EXCEPT !.avatar = None]
    /\ intended' = [intended EXCEPT !.avatar = None]
    /\ MixedBy(r)
    /\ Goto(r, "remove.clean")
    /\ UNCHANGED <<objects, drawn, unheard>>

-----------------------------------------------------------------------------
(* The account-security transactions: one column each.                     *)
ChangePassword(r, p) ==
    /\ row.password \notin {None, p}
    /\ Begin(r, [Idle EXCEPT !.phase = "password.write", !.user = row, !.password = p])
    /\ UNCHANGED <<row, objects, drawn, intended, mixed, unheard>>

\* Mutant: the password is saved with the row that was read.
WritePasswordRow(r) ==
    /\ At(r, "password.write")
    /\ row' = [request[r].user EXCEPT !.password = request[r].password]
    /\ intended' = [intended EXCEPT !.password = request[r].password]
    /\ MixedBy(r)
    /\ Finish(r)
    /\ UNCHANGED <<objects, drawn, unheard>>

WritePassword(r) ==
    /\ At(r, "password.write")
    /\ row' = [row EXCEPT !.password = request[r].password]
    /\ intended' = [intended EXCEPT !.password = request[r].password]
    /\ MixedBy(r)
    /\ Finish(r)
    /\ UNCHANGED <<objects, drawn, unheard>>

ResetPassword(p) ==
    /\ row.password # p
    /\ row' = [row EXCEPT !.password = p]
    /\ intended' = [intended EXCEPT !.password = p]
    /\ MixedByAny
    /\ UNCHANGED <<objects, drawn, request, unheard>>

VerifyEmail ==
    /\ ~row.verified
    /\ row' = [row EXCEPT !.verified = TRUE]
    /\ intended' = [intended EXCEPT !.verified = TRUE]
    /\ MixedByAny
    /\ UNCHANGED <<objects, drawn, request, unheard>>

(* DELETE /users/:id, a soft delete.                                       *)
DeactivateUser ==
    /\ row.active
    /\ row' = [row EXCEPT !.active = FALSE]
    /\ intended' = [intended EXCEPT !.active = FALSE]
    /\ MixedByAny
    /\ UNCHANGED <<objects, drawn, request, unheard>>

-----------------------------------------------------------------------------
\* A crash, or an error of the database or the storage, ends the request
\* where it is.
Fail(r) ==
    /\ ~At(r, "idle")
    /\ Finish(r)
    /\ UNCHANGED <<row, objects, drawn, intended, mixed, unheard>>

Next ==
    \/ \E r \in Requests :
          \/ UpdateUser(r) \/ WriteUser(r)
          \/ UploadAvatar(r) \/ PutObject(r) \/ SignUrl(r) \/ WriteAvatar(r)
          \/ UndoUpload(r) \/ RemoveOld(r)
          \/ DeleteAvatar(r) \/ ClearAvatar(r)
          \/ WritePassword(r) \/ Rehash(r)
          \/ \E p \in Passwords : ChangePassword(r, p)
          \/ Fail(r)
    \/ \E p \in Passwords : ResetPassword(p)
    \/ VerifyEmail
    \/ DeactivateUser

Spec == Init /\ [][Next]_vars

-----------------------------------------------------------------------------
\* Rows and requests are well formed; only keys that were drawn are stored or
\* referred to.
TypeOK ==
    /\ row \in Row
    /\ objects \subseteq drawn
    /\ drawn \subseteq Keys
    /\ request \in [Requests -> Local]
    /\ intended \in Row
    /\ mixed \in BOOLEAN
    /\ unheard \subseteq drawn
    /\ row.avatar \in drawn \cup {None}

\* The avatar of the profile is in the storage, wherever an upload or a
\* removal fails or stops (delete-avatar 30 "so a storage failure cannot keep a
\* broken avatar in the public profile").  Two things are left out: requests
\* that wrote the row from overlapping copies, and an upload whose row was
\* written while the answer was lost, for which upload-avatar 80-83 removes the
\* object the row has just been made to refer to.
AvatarStored == ~mixed => row.avatar \in objects \cup unheard \cup {None}

\* Every column holds what the last operation meant for it left there: a
\* deactivated account stays deactivated, a password that was changed or reset
\* stays, a verified address stays verified, as long as no request wrote back
\* a copy of the row that it had read before (prisma-user.repository 85-112).
ChangesKept == ~mixed => row = intended

\* What DELETE /users/:id promises: the account stays deactivated, no
\* operation activates one (doc/README_USER.md "Modifica o status para INACTIVE").
DeactivatedStays == ~intended.active => ~row.active
=============================================================================
