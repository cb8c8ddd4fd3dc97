---------------------------- MODULE MerchantsPage ----------------------------
(***************************************************************************)
(* The administrator's merchants page (frontend/js/merchants.js) against   *)
(* the registry: one modal for new and for edited merchants, filled when   *)
(* an answer arrives, whatever the modal shows by then.  Other clients     *)
(* work on the same merchants.                                             *)
(***************************************************************************)
EXTENDS Registry

VARIABLES open,     \* the modal is shown
          editing,  \* _editingId
          form,     \* the merchant whose values the form was filled with
          disabled, \* the submit button is disabled
          saved     \* history: handleSubmit went on as after a success since the page was loaded

pageVars == <<open, editing, form, disabled, saved>>
registry == <<rows, loose>>
vars == <<registry, req, pageVars>>

Pending(op) == {r \in Req : req[r].page /\ req[r].op \in op}

\* Mutant of EditingAt: _editingId is set before the answer is awaited.
EditingAtClick(when, e) == IF when = "click" THEN e ELSE editing

\* openEditModal sets _editingId with the form, after its await.
EditingAt(when, e) == IF when = "answer" THEN e ELSE editing

\* openEditModal: the cards can be clicked while no modal covers them.
ClickEdit(r, e) ==
  /\ ~open /\ Exists(e)
  /\ Arrive(r, "get", e, NoBody, TRUE)
  /\ editing' = EditingAt("click", e)
  /\ UNCHANGED <<registry, open, form, disabled, saved>>

\* The page's call has an answer, an error or null.
Answered(r) == req[r].at \in {"ok", "failed", "null"}

\* openEditModal after its await: a failure is only shown as a toast.
AnswerEdit(r) ==
  /\ r \in Pending({"get"}) /\ Answered(r)
  /\ IF req[r].at = "ok"
     THEN open' = TRUE /\ form' = req[r].rec
          /\ editing' = EditingAt("answer", req[r].rec)
     ELSE UNCHANGED <<open, form, editing>>
  /\ req' = [req EXCEPT ![r] = Idle]
  /\ UNCHANGED <<registry, disabled, saved>>

OpenCreate ==
  /\ ~open
  /\ open' = TRUE /\ editing' = None /\ form' = None
  /\ UNCHANGED <<registry, req, disabled, saved>>

Close ==
  /\ open
  /\ open' = FALSE /\ editing' = None /\ form' = None
  /\ UNCHANGED <<registry, req, disabled, saved>>

\* handleSubmit up to its await: an update of _editingId, or a create, with
\* the values of the form and whatever e-mail it now holds; a form filled from
\* no merchant holds the new one's.
Submit(r) ==
  /\ open /\ ~disabled
  /\ disabled' = TRUE
  /\ \E email \in Email :
       IF editing # None
       THEN Arrive(r, "update", editing, Plain(email, form), TRUE)
       ELSE \E e \in Merchant :
              /\ Creatable(e)
              /\ Arrive(r, "create", e, Plain(email, IF form = None THEN e ELSE form), TRUE)
  /\ UNCHANGED <<registry, open, editing, form, saved>>

\* Mutant of AfterFailure: the catch block leaves the button as it is.
StaysDisabled == TRUE

\* The catch block enables the button again; the try block never does.
AfterFailure == FALSE

\* handleSubmit after its await; on success the modal closes, whichever it is,
\* and also on null, which it does not look at, while the page leaves for the
\* login page.
SubmitDone(r) ==
  /\ r \in Pending({"create", "update"}) /\ Answered(r)
  /\ IF req[r].at # "failed"
     THEN open' = FALSE /\ editing' = None /\ form' = None /\ saved' = TRUE /\ UNCHANGED disabled
     ELSE disabled' = AfterFailure /\ UNCHANGED <<open, editing, form, saved>>
  /\ req' = [req EXCEPT ![r] = Idle]
  /\ UNCHANGED registry

\* A call nobody waits for any more.
Abandoned(r) ==
  IF Answered(r) THEN Idle ELSE [req[r] EXCEPT !.page = FALSE]

\* The connection breaks: the page's call rejects, the server goes on.
Lost(r) ==
  /\ req[r].page
  /\ disabled' = IF req[r].op = "get" THEN disabled ELSE AfterFailure
  /\ req' = [req EXCEPT ![r] = Abandoned(r)]
  /\ UNCHANGED <<registry, open, editing, form, saved>>

Reload ==
  /\ open' = FALSE /\ editing' = None /\ form' = None /\ disabled' = FALSE /\ saved' = FALSE
  /\ req' = [r \in Req |-> Abandoned(r)]
  /\ UNCHANGED registry

Init ==
  /\ RegistryInit
  /\ open = FALSE /\ editing = None /\ form = None /\ disabled = FALSE /\ saved = FALSE

Next ==
  \/ \E r \in Req :
       \/ (Other(r) \/ Handle(r)) /\ UNCHANGED pageVars
       \/ \E e \in Merchant : ClickEdit(r, e)
       \/ AnswerEdit(r) \/ Submit(r) \/ SubmitDone(r) \/ Lost(r)
  \/ OpenCreate \/ Close \/ Reload

Spec == Init /\ [][Next]_vars
-----------------------------------------------------------------------------
\* The unique columns hold through every interleaving of creates and updates
\* that found no row, so no two rows of a kind share an e-mail, deleted or not.
TypeOK ==
  /\ rows \in [Record -> [status : Status, deleted : BOOLEAN, email : Email \cup {None},
                          data : Record \cup {None}]]
  /\ req \in [Req -> [op : {"none", "get", "create", "update", "delete", "activate", "suspend"},
                      at : {"done", "find", "write", "ok", "failed", "null"},
                      rec : Record \cup {None}, body : Body, page : BOOLEAN]]
  /\ loose \subseteq Record
  /\ open \in BOOLEAN /\ disabled \in BOOLEAN /\ saved \in BOOLEAN
  /\ {editing, form} \subseteq Merchant \cup {None}
  /\ \A e, f \in Record :
       e # f /\ Kind(e) = Kind(f) /\ Exists(e) /\ Exists(f) => rows[e].email # rows[f].email

\* No merchant is saved with the values of another: _editingId and the form
\* change together, in whatever order the answers to several clicks on Edit
\* arrive (merchants.js:111-131), and a submit reads both before it waits.
SavedWithItsOwn ==
  \A e \in Record : Exists(e) => rows[e].data = e

\* The modal can be submitted unless a submit is on its way, or one succeeded
\* or was taken for a success since the page was loaded: after that the button
\* stays disabled for good (merchants.js:154, 172-186).
BlockedOnlyBySubmit ==
  disabled => saved \/ Pending({"create", "update"}) # {}
=============================================================================
