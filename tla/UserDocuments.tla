--------------------------- MODULE UserDocuments ---------------------------
(***************************************************************************)
(* How UserService takes the identity documents of one user, who is active *)
(* once they are there: it looks for the row, sends three pictures to the  *)
(* store at once, under names made of the user's id and the picture, then  *)
(* inserts the row that names them and updates the user.  Promise.all      *)
(* gives up at the first picture that fails and stops none of the others.  *)
(* All pictures are of one type, which is the rest of their names.         *)
(***************************************************************************)
EXTENDS Integers

CONSTANTS
    Uploads,      \* requests of the user, each made once
    MaxMishaps,   \* bound: pictures the store refuses, requests that break off
    NoUpload

UserDocumentsAssumption == MaxMishaps \in Nat /\ NoUpload \notin Uploads

Pictures == {"front", "back", "selfie"}
UploadSteps == {"new", "send", "row", "activate", "done", "refused", "cut"}

VARIABLES
    upload,         \* the step each request is at
    flying,         \* its pictures that are on their way
    picture,        \* whose each stored picture is
    userDocument,   \* who inserted the user_document row
    userActive,     \* the user's status is ACTIVE
    crossed,        \* history: an upload began before another had ended, pictures included
    mishaps

userDocumentVars == <<upload, flying, picture, userDocument, userActive, crossed, mishaps>>
userVars == <<userDocument, userActive>>

UserDocumentsTypeOK ==
    /\ upload \in [Uploads -> UploadSteps]
    /\ flying \in [Uploads -> SUBSET Pictures]
    /\ picture \in [Pictures -> Uploads \cup {NoUpload}]
    /\ userDocument \in Uploads \cup {NoUpload}
    /\ userActive \in BOOLEAN /\ crossed \in BOOLEAN
    /\ mishaps \in 0..MaxMishaps

Init ==
    /\ upload = [u \in Uploads |-> "new"]
    /\ flying = [u \in Uploads |-> {}]
    /\ picture = [f \in Pictures |-> NoUpload]
    /\ userDocument = NoUpload /\ userActive = FALSE
    /\ crossed = FALSE
    /\ mishaps = 0

Goes(u, step) == upload' = [upload EXCEPT ![u] = step]

\* A request, or what is left of it, that may still write a picture or the row.
Busy(u) == upload[u] \in {"send", "row"} \/ flying[u] # {}

\* findByUserId and validateDocumentFiles, then the three calls of Promise.all.
FindNoDocument(u) ==
    /\ upload[u] = "new"
    /\ \E valid \in BOOLEAN :
         IF valid /\ userDocument = NoUpload
         THEN /\ Goes(u, "send")
              /\ flying' = [flying EXCEPT ![u] = Pictures]
              /\ crossed' = (crossed \/ \E v \in Uploads : Busy(v))
         ELSE Goes(u, "refused") /\ UNCHANGED <<flying, crossed>>
    /\ UNCHANGED <<picture, userVars, mishaps>>

\* uploadBuffer puts a picture over the one of that name; the last one lets
\* the request go on, if it still waits.
Land(u, f) ==
    /\ f \in flying[u]
    /\ picture' = [picture EXCEPT ![f] = u]
    /\ flying' = [flying EXCEPT ![u] = @ \ {f}]
    /\ IF upload[u] = "send" /\ flying[u] = {f} THEN Goes(u, "row") ELSE UNCHANGED upload
    /\ UNCHANGED <<userVars, crossed, mishaps>>

\* The store refuses a picture: the request ends, the others fly on.
Fail(u, f) ==
    /\ f \in flying[u]
    /\ mishaps < MaxMishaps
    /\ mishaps' = mishaps + 1
    /\ flying' = [flying EXCEPT ![u] = @ \ {f}]
    /\ IF upload[u] = "send" THEN Goes(u, "refused") ELSE UNCHANGED upload
    /\ UNCHANGED <<picture, userVars, crossed>>

\* user_id is unique in user_document.
InsertDocument(u) ==
    /\ upload[u] = "row"
    /\ IF userDocument = NoUpload THEN userDocument' = u /\ Goes(u, "activate")
                                  ELSE Goes(u, "refused") /\ UNCHANGED userDocument
    /\ UNCHANGED <<flying, picture, userActive, crossed, mishaps>>

Activate(u) ==
    /\ upload[u] = "activate"
    /\ userActive' = TRUE
    /\ Goes(u, "done")
    /\ UNCHANGED <<flying, picture, userDocument, crossed, mishaps>>

\* The process dies or a statement fails; what it sent may still arrive.
BreakOff(u) ==
    /\ upload[u] \in {"send", "row", "activate"}
    /\ mishaps < MaxMishaps
    /\ mishaps' = mishaps + 1
    /\ Goes(u, "cut")
    /\ UNCHANGED <<flying, picture, userVars, crossed>>

UserDocumentsNext ==
    \E u \in Uploads :
        \/ FindNoDocument(u) \/ InsertDocument(u) \/ Activate(u) \/ BreakOff(u)
        \/ \E f \in Pictures : Land(u, f) \/ Fail(u, f)

Spec == Init /\ [][UserDocumentsNext]_userDocumentVars

(***************************************************************************)
(* Properties.                                                             *)
(***************************************************************************)

\* The pictures stored for a user are those of the request whose row names
\* them, however the earlier requests failed, unless one began while pictures
\* of another were still on their way: a picture of a request that was refused
\* may land after the row, under the same name.
PicturesAreTheRows ==
    userDocument # NoUpload /\ ~crossed => \A f \in Pictures : picture[f] = userDocument

\* Nobody is active without documents; whose documents are there is active, or
\* will be by the request that inserted them, unless it was cut off between the
\* two: then a retry is refused and the user waits for the support.
RowActivates ==
    /\ userActive => userDocument # NoUpload
    /\ userDocument # NoUpload => userActive \/ upload[userDocument] \in {"activate", "cut"}

(***************************************************************************)
(* The inductive invariant behind them.                                    *)
(***************************************************************************)

\* Pictures fly only for a request that sends or has failed; who is to
\* activate the user inserted the row.
StepsHold ==
    \A u \in Uploads :
        /\ upload[u] \notin {"send", "refused", "cut"} => flying[u] = {}
        /\ upload[u] = "activate" => userDocument = u

\* While none crossed another, one at a time writes, until the row is there,
\* and what no longer flies for it has landed.
OneAtATime ==
    ~crossed =>
        /\ \A u, v \in Uploads : Busy(u) /\ Busy(v) => u = v
        /\ \A u \in Uploads :
             /\ upload[u] \in {"send", "row"} => \A f \in Pictures \ flying[u] : picture[f] = u
             /\ userDocument # NoUpload => ~Busy(u)

UserDocumentsIInv ==
    UserDocumentsTypeOK /\ StepsHold /\ OneAtATime /\ PicturesAreTheRows /\ RowActivates
=============================================================================
