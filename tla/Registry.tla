------------------------------ MODULE Registry ------------------------------
(***************************************************************************)
(* Merchants and customers on the server: merchant.service.ts and          *)
(* customer.service.ts over their repositories.  Every handler looks the   *)
(* row up, decides, and writes in a second call; rows are deleted by       *)
(* setting deletedAt, and stay in the table under its unique columns.      *)
(* No route has a schema for its body: create and update write what the    *)
(* body says, status and deletedAt too.                                    *)
(***************************************************************************)
EXTENDS Naturals, FiniteSets

CONSTANTS Merchant, \* merchants there are or will be, one per create
          Customer, \* the same of one merchant's customers
          Email,
          Req,      \* request slots
          Shapes,   \* the fields the bodies of other clients have
          MaxRows,  \* bound: rows there are, or are being created
          None

Record == Merchant \cup Customer

\* MerchantStatus and CustomerStatus; "none" stands for no row, or no status.
MerchantStatus == {"PENDING", "ACTIVE", "SUSPENDED", "CLOSED"}
CustomerStatus == {"ACTIVE", "INACTIVE", "BLOCKED"}
Status == MerchantStatus \cup CustomerStatus \cup {"none"}

\* A body has the values of a record, with an e-mail or none, and may have a
\* status or a deletedAt, which null clears.
Shape == [email : BOOLEAN, status : Status, deletedAt : {"kept", "set", "cleared"}]
Body == [email : Email \cup {None}, data : Record \cup {None}, status : Status,
         deletedAt : {"kept", "set", "cleared"}]

ASSUME RegistryAssumption ==
  /\ Merchant \cap Customer = {}
  /\ IsFiniteSet(Req)
  /\ Shapes \subseteq Shape
  /\ MaxRows \in Nat
  /\ None \notin Record \cup Email

VARIABLES rows, \* per record: its row, status "none" before it is created
          req,  \* per slot: operation, next step, record, body
          loose \* history: deleted by a body that sets deletedAt, or by DELETE
                \* while another request was about to write the status

NoRow == [status |-> "none", deleted |-> FALSE, email |-> None, data |-> None]

\* The body of the documented fields.
Plain(email, data) ==
  [email |-> email, data |-> data, status |-> "none", deletedAt |-> "kept"]

NoBody == Plain(None, None)
Idle == [op |-> "none", at |-> "done", rec |-> None, body |-> NoBody, page |-> FALSE]

Kind(e) == IF e \in Merchant THEN Merchant ELSE Customer
Exists(e) == rows[e].status # "none"

\* Mutant of Visible: the lookups do not ask for deletedAt: null.
VisibleDeleted(e) == Exists(e)

\* findById, findByEmail and findByMerchantAndEmail skip deleted rows.
Visible(e) == Exists(e) /\ ~rows[e].deleted

\* Mutant of Taken: the columns are not unique, only looked up.
NeverTaken(e, email) == FALSE

\* The status of a new row, by the repository or by the column's default, and
\* of a deleted one.
Fresh(e) == IF e \in Merchant THEN "PENDING" ELSE "ACTIVE"
Closed(e) == IF e \in Merchant THEN "CLOSED" ELSE "INACTIVE"

\* The unique columns, email and (merchantId, email), know no deletedAt.
Taken(e, email) == \E f \in Kind(e) \ {e} : Exists(f) /\ rows[f].email = email

\* A request arrives, from a page of this browser or from elsewhere.
Arrive(r, op, e, body, page) ==
  /\ req[r].at = "done"
  /\ req' = [req EXCEPT ![r] = [op |-> op, at |-> "find", rec |-> e, body |-> body,
                                page |-> page]]

\* Within the bound, e may be created.
Creatable(e) ==
  LET present == {f \in Record : Exists(f) \/ \E r \in Req : req[r].op = "create" /\ req[r].rec = f}
  IN ~Exists(e) /\ Cardinality(present \cup {e}) <= MaxRows

Operations(e) ==
  IF ~Exists(e) THEN IF Creatable(e) THEN {"create"} ELSE {}
  ELSE {"update", "delete"} \cup IF e \in Merchant THEN {"activate", "suspend"} ELSE {}

\* The answer; only the page modelled here waits for one.
Reply(r, result) ==
  req' = [req EXCEPT ![r] = IF req[r].page THEN [req[r] EXCEPT !.at = result] ELSE Idle]

\* What the handler checks before it writes.
Admits(op, e, email) ==
  CASE op = "create"   -> ~ \E f \in Kind(e) : Visible(f) /\ rows[f].email = email
    [] op = "activate" -> Visible(e) /\ rows[e].status # "CLOSED"
    [] OTHER           -> Visible(e)

Find(r) ==
  /\ req[r].at = "find"
  /\ IF Admits(req[r].op, req[r].rec, req[r].body.email)
     THEN IF req[r].op = "get" THEN Reply(r, "ok") ELSE req' = [req EXCEPT ![r].at = "write"]
     ELSE Reply(r, "failed")
  /\ UNCHANGED <<rows, loose>>

\* The row after create and update: what the body says of it.  Only the
\* status of a new merchant is not the body's.
Written(e, op, body) ==
  LET given == body.status # "none" /\ ~(op = "create" /\ e \in Merchant)
  IN [status  |-> IF given THEN body.status
                  ELSE IF op = "create" THEN Fresh(e) ELSE rows[e].status,
      deleted |-> \/ body.deletedAt = "set"
                  \/ body.deletedAt = "kept" /\ rows[e].deleted,
      email   |-> IF body.email = None THEN rows[e].email ELSE body.email,
      data    |-> body.data]

Save(r, e) ==
  LET op == req[r].op  body == req[r].body IN
  /\ op \in {"create", "update"}
  /\ IF Taken(e, body.email) \/ (op = "create" /\ Exists(e))
     THEN Reply(r, "failed") /\ UNCHANGED <<rows, loose>>
     ELSE /\ rows' = [rows EXCEPT ![e] = Written(e, op, body)]
          /\ loose' = CASE body.deletedAt = "kept"    -> loose
                        [] body.deletedAt = "cleared" -> loose \ {e}
                        [] OTHER -> IF rows[e].deleted THEN loose ELSE loose \cup {e}
          /\ Reply(r, "ok")

\* activate and suspend write the status whatever the row is by now.
WriteStatus(r, e) ==
  /\ req[r].op \in {"activate", "suspend"}
  /\ rows' = [rows EXCEPT ![e].status = IF req[r].op = "activate" THEN "ACTIVE" ELSE "SUSPENDED"]
  /\ Reply(r, "ok")
  /\ UNCHANGED loose

\* The request writes a status when it comes to its write.
ChangesStatus(r) ==
  \/ req[r].op \in {"activate", "suspend"}
  \/ req[r].op = "update" /\ req[r].body.status # "none"

SoftDelete(r, e) ==
  /\ req[r].op = "delete"
  /\ rows' = [rows EXCEPT ![e].deleted = TRUE, ![e].status = Closed(e)]
  /\ loose' = IF \E q \in Req : req[q].at = "write" /\ req[q].rec = e /\ ChangesStatus(q)
              THEN loose \cup {e} ELSE loose \ {e}
  /\ Reply(r, "ok")

\* A database call rejects.
CallFails(r) ==
  /\ req[r].at \in {"find", "write"}
  /\ Reply(r, "failed")
  /\ UNCHANGED <<rows, loose>>

\* The access token is over and the browser cannot refresh it: the call gives
\* the page null (api.js:82-90).  Nothing is done on the server.
SessionOver(r) ==
  /\ req[r].at = "find"
  /\ Reply(r, "null")
  /\ UNCHANGED <<rows, loose>>

Write(r, e) == Save(r, e) \/ WriteStatus(r, e) \/ SoftDelete(r, e)

Handle(r) ==
  \/ Find(r) \/ CallFails(r) \/ SessionOver(r)
  \/ req[r].at = "write" /\ Write(r, req[r].rec)

\* Bodies another client sends for e: an update may leave the e-mail out, and
\* a status is one of e's kind.
Bodies(e, op) ==
  LET Kinds == {"none"} \cup IF e \in Merchant THEN MerchantStatus ELSE CustomerStatus
      Fitting == {s \in Shapes : s.status \in Kinds /\ (op = "create" => s.email)}
  IN UNION {{[Plain(m, e) EXCEPT !.status = s.status, !.deletedAt = s.deletedAt] :
               m \in IF s.email THEN Email ELSE {None}} : s \in Fitting}

\* A request from another client.
Other(r) ==
  /\ \E e \in Record : \E op \in Operations(e) :
       \E body \in IF op \in {"create", "update"} THEN Bodies(e, op) ELSE {NoBody} :
         Arrive(r, op, e, body, FALSE)
  /\ UNCHANGED <<rows, loose>>

RegistryInit ==
  /\ rows = [e \in Record |-> NoRow]
  /\ req = [r \in Req |-> Idle]
  /\ loose = {}
-----------------------------------------------------------------------------
\* A merchant deleted by DELETE is CLOSED and a customer INACTIVE for good, but
\* for a status written by a request that had found the row before: activate,
\* suspend and an update whose body has a status write without looking once
\* more (merchant.service.ts:31-47, customer.service.ts:31-34).  A body that
\* sets deletedAt itself deletes without closing.
DeletedStaysClosed ==
  \A e \in Record : rows[e].deleted => rows[e].status = Closed(e) \/ e \in loose
=============================================================================
