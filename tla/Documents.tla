------------------------------ MODULE Documents ------------------------------
(***************************************************************************)
(* The documents of an organization: a row of the table, and an object in  *)
(* the document store.  The store is no part of the transaction: what is   *)
(* put there stays when the transaction is rolled back.                    *)
(***************************************************************************)
EXTENDS Integers

CONSTANTS
  DocumentRows, \* rows of documents
  Contents,     \* what a client may send as content
  Large,        \* contents larger than any declared size
  Uploads       \* uploadContent requests that may be under way at once

\* The hash of an object that is not this system's, given at registration.
Claimed == "claimed"
None == "none"

ASSUME DocumentsAssumption == Large \subseteq Contents /\ Contents \cap {Claimed, None} = {}

VARIABLES
  fileRequired, \* requiresDocumentFileUpload(): production, with a store
  document,     \* the rows: status, storage_key, sha256
  stored,       \* the object under each row's key
  upload,       \* the uploads under way
  overlapped    \* history: documents two uploads of which were under way at once

documentVars == <<fileRequired, document, stored, upload, overlapped>>

NoUpload == [step |-> "none"]
NoRow == [status |-> "none", key |-> FALSE, sha |-> None]

DocumentsTypeOK ==
  /\ fileRequired \in BOOLEAN
  /\ \A d \in DocumentRows :
       /\ document[d].status \in {"none", "UPLOADED", "PENDING_REVIEW", "ACCEPTED",
                                  "REJECTED", "ARCHIVED"}
       /\ document[d].key \in BOOLEAN
       /\ document[d].sha \in Contents \cup {Claimed, None}
       /\ stored[d] \in Contents \cup {None}
  /\ \A u \in Uploads : upload[u].step \in {"none", "begun", "put"}
  /\ overlapped \subseteq DocumentRows

DocumentsInit ==
  /\ fileRequired \in BOOLEAN
  /\ document = [d \in DocumentRows |-> NoRow]
  /\ stored = [d \in DocumentRows |-> None]
  /\ upload = [u \in Uploads |-> NoUpload]
  /\ overlapped = {}

\* The DOCUMENT_TYPE requirement: one document of the type, with content
\* where content is required.
documentPresent ==
  \E d \in DocumentRows :
    /\ document[d].status \in {"UPLOADED", "PENDING_REVIEW", "ACCEPTED"}
    /\ fileRequired => document[d].key /\ document[d].sha # None

-----------------------------------------------------------------------------
\* Metadata only, or with the key and the hash the client gives.
register(d, key, sha) ==
  /\ fileRequired => key
  /\ document[d].status = "none"
  /\ document' = [document EXCEPT ![d] = [status |-> "UPLOADED", key |-> key, sha |-> sha]]
  /\ UNCHANGED <<fileRequired, stored, upload, overlapped>>

\* The row comes first, under the status of a document with content.
createUploadIntent(d) ==
  /\ document[d].status = "none"
  /\ document' = [document EXCEPT ![d] = [status |-> "UPLOADED", key |-> TRUE, sha |-> None]]
  /\ UNCHANGED <<fileRequired, stored, upload, overlapped>>

\* Read without a lock, whatever the status.
uploadable(d) == document[d].key /\ document[d].sha = None

uploadContent(u, d, c) ==
  /\ upload[u] = NoUpload
  /\ uploadable(d)
  /\ upload' = [upload EXCEPT ![u] = [step |-> "begun", of |-> d, content |-> c]]
  /\ overlapped' = IF \E v \in Uploads : upload[v].step # "none" /\ upload[v].of = d
                   THEN overlapped \cup {d} ELSE overlapped
  /\ UNCHANGED <<fileRequired, document, stored>>

\* putDocumentObject writes over what is there.
putDocumentObject(u) ==
  /\ upload[u].step = "begun"
  /\ stored' = [stored EXCEPT ![upload[u].of] = upload[u].content]
  /\ upload' = [upload EXCEPT ![u].step = "put"]
  /\ UNCHANGED <<fileRequired, document, overlapped>>

\* The hash is recorded in the row, whatever has become of it.
CommitUpload(u) ==
  /\ upload[u].step = "put"
  /\ upload[u].content \notin Large
  /\ document' = [document EXCEPT ![upload[u].of].sha = upload[u].content]
  /\ upload' = [upload EXCEPT ![u] = NoUpload]
  /\ UNCHANGED <<fileRequired, stored, overlapped>>

\* Too large, or the process was lost: the object stays.
FailUpload(u) ==
  /\ upload[u].step # "none"
  /\ upload' = [upload EXCEPT ![u] = NoUpload]
  /\ UNCHANGED <<fileRequired, document, stored, overlapped>>

\* Part of the submission of the KYB case.
markPendingReviewForOrganization ==
  document' = [d \in DocumentRows |->
    IF document[d].status = "UPLOADED" /\ document[d].key /\ document[d].sha # None
    THEN [document[d] EXCEPT !.status = "PENDING_REVIEW"] ELSE document[d]]

archive(d) ==
  /\ document[d].status \in {"UPLOADED", "REJECTED"}
  /\ document' = [document EXCEPT ![d].status = "ARCHIVED"]
  /\ UNCHANGED <<fileRequired, stored, upload, overlapped>>

review(d, decision) ==
  /\ document[d].status \in {"UPLOADED", "PENDING_REVIEW"}
  /\ fileRequired => document[d].key
  /\ document' = [document EXCEPT ![d].status = decision]
  /\ UNCHANGED <<fileRequired, stored, upload, overlapped>>

\* getContent: what a reviewer is shown of a document.
getContent(d) == IF document[d].key THEN stored[d] ELSE None

DocumentsNext ==
  \/ \E d \in DocumentRows :
       \/ \E key \in BOOLEAN, sha \in {Claimed, None} : register(d, key, sha)
       \/ createUploadIntent(d) \/ archive(d)
       \/ \E decision \in {"ACCEPTED", "REJECTED"} : review(d, decision)
       \/ \E u \in Uploads, c \in Contents : uploadContent(u, d, c)
  \/ \E u \in Uploads : putDocumentObject(u) \/ CommitUpload(u) \/ FailUpload(u)

-----------------------------------------------------------------------------
(* Properties.                                                             *)

\* A recorded hash is that of the object a reader is given, unless two
\* uploads of the document overlapped; and a document waits for its review
\* only with a hash.
DocumentsHold ==
  \A d \in DocumentRows :
    /\ document[d].sha \in Contents /\ d \notin overlapped => getContent(d) = document[d].sha
    /\ document[d].status = "PENDING_REVIEW" => document[d].sha # None

\* "Cannot review a document without uploaded content": where files are
\* required, an accepted document has its content.
AcceptedHasContent ==
  \A d \in DocumentRows :
    fileRequired /\ document[d].status = "ACCEPTED" => document[d].sha # None
=============================================================================
