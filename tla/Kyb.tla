--------------------------------- MODULE Kyb ---------------------------------
(***************************************************************************)
(* The verification of a merchant (KYB): its case, the data the merchant   *)
(* edits, and the requirements a submission is checked against, to which   *)
(* documents and payout accounts contribute.                               *)
(*                                                                         *)
(* Operations on the case lock its row and are steps of their own.  An     *)
(* edit of merchant data locks the row too (assertKybEditable), but only   *)
(* if there is a case that is not rejected: an edit is taken apart into    *)
(* what it reads first and what it commits.                                *)
(***************************************************************************)
EXTENDS PayoutAccounts, Documents, Sums

CONSTANTS
  Persons,      \* rows of beneficial_owners, directors and representatives
  Percents,     \* shares an owner may be entered with
  Editors,      \* edits of merchant data that may be under way at once
  MaxCases,     \* bound: cases of the organization
  MaxVersion    \* bound: versions of a case

ASSUME KybAssumption == IsFiniteSet(Persons) /\ None \notin Persons /\ Percents \subseteq Nat

VARIABLES
  requirements, \* kyb_requirements: active ones, each for one risk category or for all
  kase,         \* the latest verification_cases row
  profile,      \* the parts of the merchant's profile that are complete
  person,       \* who is active
  edit,         \* the edits under way
  announced,    \* outbox keys of submissions and decisions
  asDecided,    \* history: the data is what the last approval was about
  stray,        \* history: an edit begun without a case was committed after a submission
  unannounced   \* history: some submission or decision was not announced

kybVars == <<requirements, kase, profile, person, edit, announced, asDecided, stray,
             unannounced>>

Sections == {"LEGAL_PROFILE", "BUSINESS_PROFILE", "ADDRESS"}
RiskCategories == {"none", "HIGH"}

\* The allowed transitions of a case.
TRANSITIONS ==
  {<<"DRAFT", "SUBMITTED">>, <<"SUBMITTED", "UNDER_REVIEW">>,
   <<"UNDER_REVIEW", "NEEDS_INFORMATION">>, <<"UNDER_REVIEW", "APPROVED">>,
   <<"UNDER_REVIEW", "REJECTED">>, <<"NEEDS_INFORMATION", "SUBMITTED">>,
   <<"APPROVED", "SUSPENDED">>, <<"APPROVED", "UNDER_REVIEW">>,
   <<"SUSPENDED", "UNDER_REVIEW">>}

KybStatuses == {"none", "DRAFT", "SUBMITTED", "UNDER_REVIEW", "NEEDS_INFORMATION",
                "APPROVED", "REJECTED", "SUSPENDED"}

NoEdit == [step |-> "none"]
Nobody == [kind |-> "nobody", percent |-> 0]

KybTypeOK ==
  /\ kase.status \in KybStatuses
  /\ kase.version \in 0..MaxVersion /\ kase.number \in 0..MaxCases
  /\ kase.risk \in RiskCategories
  /\ profile \subseteq Sections
  /\ \A p \in Persons : person[p].kind \in {"nobody", "owner", "director", "representative"}
  /\ \A e \in Editors : edit[e] # NoEdit => edit[e].locked \in BOOLEAN
  /\ <<asDecided, stray, unannounced>> \in BOOLEAN \X BOOLEAN \X BOOLEAN

KybInit(required) ==
  /\ requirements = required
  /\ kase = [number |-> 0, status |-> "none", version |-> 0, risk |-> "none"]
  /\ profile = {}
  /\ person = [p \in Persons |-> Nobody]
  /\ edit = [e \in Editors |-> NoEdit]
  /\ announced = {}
  /\ asDecided = FALSE
  /\ stray = FALSE
  /\ unannounced = FALSE

-----------------------------------------------------------------------------
(* Requirements.                                                           *)

Active(kind) == {p \in Persons : person[p].kind = kind}
ownership == SumOver([p \in Persons |-> person[p].percent], Active("owner"))

applicableRequirements(risk) == {r \in requirements : r.risk \in {"all", risk}}

satisfied(type) ==
  CASE type \in Sections           -> type \in profile
    [] type = "PERSON_MIN"          -> \E p \in Persons : person[p] # Nobody
    [] type = "OWNERSHIP_TOTAL_MAX" -> ownership <= 100
    [] type = "DOCUMENT_TYPE"       -> documentPresent
    [] type = "BANK_ACCOUNT"        -> payoutAccountPresent

evaluateRequirements(risk) ==
  {r \in applicableRequirements(risk) : ~satisfied(r.type)}

complete == evaluateRequirements(kase.risk) = {}

\* The requirements on what the merchant edits.
OwnData == Sections \cup {"PERSON_MIN", "OWNERSHIP_TOTAL_MAX"}

\* What the merchant is shown.
uiStatus ==
  CASE kase.status = "DRAFT" -> IF complete THEN "pending" ELSE "incomplete"
    [] kase.status = "SUBMITTED" -> "pending"
    [] kase.status = "NEEDS_INFORMATION" -> "verification_required"
    [] OTHER -> kase.status

-----------------------------------------------------------------------------
(* The case.                                                               *)

live == kase.status \notin {"none", "REJECTED"}

\* Nobody else holds the lock of the case's row.
caseFree == \A e \in Editors : edit[e] # NoEdit => ~edit[e].locked

transitionCase(to) ==
  /\ caseFree
  /\ <<kase.status, to>> \in TRANSITIONS
  /\ kase.version < MaxVersion
  /\ kase' = [kase EXCEPT !.status = to, !.version = @ + 1]

\* The row that getOrCreateCase returns.
existingOrDraft ==
  IF live THEN kase
  ELSE [number |-> kase.number + 1, status |-> "DRAFT", version |-> 1, risk |-> "none"]

getOrCreateCase ==
  /\ caseFree
  /\ existingOrDraft.number <= MaxCases

\* Reading the overview creates the case.
getCaseOverview ==
  /\ getOrCreateCase
  /\ kase' = existingOrDraft
  /\ UNCHANGED <<requirements, profile, person, edit, announced, asDecided, stray, unannounced>>

keyOf(what) == <<what, existingOrDraft.number, existingOrDraft.version>>

\* An event whose key is taken is not written.
emitOutboxEvent(what) ==
  /\ announced' = announced \cup {keyOf(what)}
  /\ unannounced' = (unannounced \/ keyOf(what) \in announced)

\* Nothing of an incomplete submission stays, the case it created included.
submit ==
  LET k == existingOrDraft IN
  /\ getOrCreateCase
  /\ k.status \in {"DRAFT", "NEEDS_INFORMATION"}
  /\ evaluateRequirements(k.risk) = {}
  /\ k.version < MaxVersion
  /\ kase' = [k EXCEPT !.status = "SUBMITTED", !.version = @ + 1]
  /\ markPendingReviewForOrganization
  /\ emitOutboxEvent("kyb-submit")
  /\ stray' = FALSE
  /\ UNCHANGED <<requirements, profile, person, edit, asDecided, fileRequired, stored,
                 upload, overlapped>>

startReview ==
  /\ transitionCase("UNDER_REVIEW")
  /\ UNCHANGED <<requirements, profile, person, edit, announced, asDecided, stray, unannounced>>

requestInformation ==
  /\ transitionCase("NEEDS_INFORMATION")
  /\ UNCHANGED <<requirements, profile, person, edit, announced, asDecided, stray, unannounced>>

\* The requirements are not looked at again; the category that is given
\* selects the ones that apply from now on.
decide(decision, risk) ==
  /\ caseFree
  /\ <<kase.status, decision>> \in TRANSITIONS
  /\ kase.version < MaxVersion
  /\ kase' = [kase EXCEPT !.status = decision, !.version = @ + 1,
                          !.risk = IF risk = "none" THEN @ ELSE risk]
  /\ emitOutboxEvent("kyb-decide")
  /\ asDecided' = (decision = "APPROVED")
  /\ stray' = FALSE
  /\ UNCHANGED <<requirements, profile, person, edit>>

suspend ==
  /\ transitionCase("SUSPENDED")
  /\ UNCHANGED <<requirements, profile, person, edit, announced, asDecided, stray, unannounced>>

-----------------------------------------------------------------------------
(* Edits of merchant data.                                                 *)

\* Sections that are written, those that are complete then, and a person.
Write(sections, whole) ==
  [sections |-> sections, whole |-> whole, person |-> None, becomes |-> Nobody]
OfPerson(p, who) == [sections |-> {}, whole |-> {}, person |-> p, becomes |-> who]

\* Frozen while submitted, under review or suspended.
assertKybEditable(e, write) ==
  /\ edit[e] = NoEdit
  /\ live => caseFree /\ kase.status \in {"DRAFT", "NEEDS_INFORMATION", "APPROVED"}
  /\ edit' = [edit EXCEPT ![e] = [step |-> "begun", locked |-> live, write |-> write]]
  /\ UNCHANGED <<requirements, kase, profile, person, announced, asDecided, stray, unannounced>>

\* Fields the call leaves out are emptied; addresses are only added.
upsertLegalProfile(e, whole) ==
  /\ whole \subseteq {"LEGAL_PROFILE", "ADDRESS"}
  /\ assertKybEditable(e, Write({"LEGAL_PROFILE"}, whole))

upsertBusinessProfile(e, whole) ==
  /\ whole \subseteq {"BUSINESS_PROFILE"}
  /\ assertKybEditable(e, Write({"BUSINESS_PROFILE"}, whole))

Writes(p) == {e \in Editors : edit[e] # NoEdit /\ edit[e].write.person = p}

\* Owners are added under the lock of the organization's row.
ownersFree ==
  \A e \in Editors : edit[e] # NoEdit => edit[e].write.becomes.kind # "owner"

addPerson(e, p, kind, percent) ==
  /\ person[p] = Nobody /\ Writes(p) = {}
  /\ IF kind = "owner" THEN ownersFree /\ ownership + percent <= 100 ELSE percent = 0
  /\ assertKybEditable(e, OfPerson(p, [kind |-> kind, percent |-> percent]))

removePerson(e, p) ==
  /\ person[p] # Nobody
  /\ assertKybEditable(e, OfPerson(p, Nobody))

\* Mutant: an approved case stays approved.
flagDataChangedAfterApproval_Never == FALSE

\* The case goes back to review with the edit.
flagDataChangedAfterApproval == kase.status = "APPROVED"

CommitEdit(e) ==
  LET w == edit[e].write IN
  /\ edit[e] # NoEdit
  /\ w.person # None => (w.becomes = Nobody) = (person[w.person] # Nobody)
  /\ profile' = (profile \ w.sections) \cup w.whole
  /\ person' = [p \in Persons |-> IF p = w.person THEN w.becomes ELSE person[p]]
  /\ IF edit[e].locked /\ flagDataChangedAfterApproval
     THEN kase.version < MaxVersion
          /\ kase' = [kase EXCEPT !.status = "UNDER_REVIEW", !.version = @ + 1]
     ELSE kase' = kase
  /\ stray' = (stray \/ (~edit[e].locked /\ kase.status \notin {"none", "DRAFT"}))
  /\ asDecided' = FALSE
  /\ edit' = [edit EXCEPT ![e] = NoEdit]
  /\ UNCHANGED <<requirements, announced, unannounced>>

\* A code that is not known, a person removed meanwhile, or the process lost.
FailEdit(e) ==
  /\ edit[e] # NoEdit
  /\ edit' = [edit EXCEPT ![e] = NoEdit]
  /\ UNCHANGED <<requirements, kase, profile, person, announced, asDecided, stray, unannounced>>

-----------------------------------------------------------------------------
CaseNext ==
  \/ getCaseOverview \/ startReview \/ requestInformation \/ suspend
  \/ \E decision \in {"APPROVED", "REJECTED"}, risk \in RiskCategories : decide(decision, risk)

ProfileNext ==
  \E e \in Editors :
    \/ \E whole \in SUBSET Sections : upsertLegalProfile(e, whole) \/ upsertBusinessProfile(e, whole)
    \/ CommitEdit(e) \/ FailEdit(e)

PeopleNext ==
  \E e \in Editors :
    \/ \E p \in Persons :
         \/ removePerson(e, p)
         \/ \E percent \in Percents : addPerson(e, p, "owner", percent)
         \/ \E kind \in {"director", "representative"} : addPerson(e, p, kind, 0)
    \/ CommitEdit(e) \/ FailEdit(e)

-----------------------------------------------------------------------------
(* Properties.                                                             *)

\* What was approved is what the merchant's data still says, and what was
\* submitted is complete, unless an edit begun before there was a case came
\* in behind it; and every submission and every decision is announced.
ApprovalsHold ==
  /\ kase.status = "APPROVED" /\ ~stray => asDecided
  /\ kase.status = "SUBMITTED" /\ ~stray
     => \A r \in applicableRequirements(kase.risk) : r.type \in OwnData => satisfied(r.type)
  /\ ~unannounced

\* No more than the whole company is owned.
OwnershipHolds == ownership <= 100

\* No more than the whole company is owned; accounts, their verification and
\* the one default agree; documents agree with what is stored for them.
RecordsHold == OwnershipHolds /\ AccountsHold /\ DocumentsHold
=============================================================================
