------------------------- MODULE MerchantsPageProofs -------------------------
(* Proofs of the safety properties of MerchantsPage and Registry, for any    *)
(* constants.                                                                *)
EXTENDS MerchantsPage, TLAPS

Row ==
  [status : Status, deleted : BOOLEAN, email : Email \cup {None}, data : Record \cup {None}]

Request ==
  [op : {"none", "get", "create", "update", "delete", "activate", "suspend"},
   at : {"done", "find", "write", "ok", "failed", "null"},
   rec : Record \cup {None}, body : Body, page : BOOLEAN]

Types ==
  /\ rows \in [Record -> Row]
  /\ req \in [Req -> Request]
  /\ loose \subseteq Record
  /\ open \in BOOLEAN /\ disabled \in BOOLEAN /\ saved \in BOOLEAN
  /\ {editing, form} \subseteq Merchant \cup {None}

\* No two rows of a kind share an e-mail address.
UniqueEmails ==
  \A e, f \in Record :
    e # f /\ Kind(e) = Kind(f) /\ Exists(e) /\ Exists(f) => rows[e].email # rows[f].email

Arrived(r) == req[r].at \in {"find", "write"}

\* What a request carries: a record, the record's own values if it saves one,
\* an e-mail address if it creates one, a merchant if it is the page's lookup; a free slot belongs to no page.
RequestsCarry ==
  \A r \in Req :
    /\ Arrived(r) => req[r].rec \in Record
    /\ Arrived(r) /\ req[r].op \in {"create", "update"} => req[r].body.data = req[r].rec
    /\ Arrived(r) /\ req[r].op = "create" => req[r].body.email # None
    /\ req[r].page /\ req[r].op = "get" => req[r].rec \in Merchant
    /\ req[r].at = "done" => ~req[r].page

\* A request that is about to write found the row, unless it creates it; and
\* a status is about to be written over a deletion only where that is known.
WritesFound ==
  \A r \in Req : req[r].at = "write" =>
    /\ req[r].op # "create" => Exists(req[r].rec)
    /\ ChangesStatus(r) /\ rows[req[r].rec].deleted => req[r].rec \in loose

\* A deleted row is a row.
DeletedExists == \A e \in Record : rows[e].deleted => Exists(e)

\* The form shows the merchant that is edited.
FormIsEdited == form = editing

Inv ==
  /\ Types /\ UniqueEmails /\ RequestsCarry /\ WritesFound /\ DeletedExists
  /\ FormIsEdited /\ DeletedStaysClosed /\ SavedWithItsOwn /\ BlockedOnlyBySubmit

(***************************************************************************)
(* What each part of a step changes.                                       *)
(***************************************************************************)

\* A slot taken by a request for a record.
Takes(r, op, e, body, page) ==
  /\ req[r].at = "done" /\ ~req[r].page
  /\ req' \in [Req -> Request]
  /\ req'[r].op = op /\ req'[r].at = "find" /\ req'[r].rec = e
  /\ req'[r].body = body /\ req'[r].page = page
  /\ \A q \in Req : q # r => req'[q] = req[q]

\* A request that arrives takes a free slot.
LEMMA ArriveFacts ==
  ASSUME Inv, NEW r \in Req, NEW op \in {"get", "create", "update", "delete", "activate", "suspend"},
         NEW e \in Record, NEW body \in Body, NEW page \in BOOLEAN,
         Arrive(r, op, e, body, page)
  PROVE  Takes(r, op, e, body, page)
<1> DEFINE new == [op |-> op, at |-> "find", rec |-> e, body |-> body, page |-> page]
<1>1. new \in Request
  BY DEF Request
<1>2. req[r].at = "done" /\ req' = [req EXCEPT ![r] = new]
  BY DEF Arrive
<1>3. req' \in [Req -> Request] /\ req'[r] = new /\ \A q \in Req : q # r => req'[q] = req[q]
  BY <1>1, <1>2 DEF Inv, Types
<1> QED BY <1>2, <1>3 DEF Takes, Inv, RequestsCarry

\* A new request keeps what the requests carry.
LEMMA TakesFacts ==
  ASSUME Inv, NEW r \in Req, NEW op, NEW e \in Record, NEW body, NEW page \in BOOLEAN,
         Takes(r, op, e, body, page), UNCHANGED <<rows, loose>>,
         op \in {"create", "update"} => body.data = e,
         op = "create" => body.email # None,
         page /\ op = "get" => e \in Merchant
  PROVE  /\ RequestsCarry' /\ WritesFound'
         /\ Pending({"create", "update"}) \subseteq Pending({"create", "update"})'
<1>1. RequestsCarry'
  BY DEF Takes, Inv, RequestsCarry, Arrived
<1>2. WritesFound'
  BY DEF Takes, Inv, WritesFound, Exists, ChangesStatus
<1> QED BY <1>1, <1>2 DEF Takes, Pending

\* A free slot is a request of no kind.
LEMMA IdleRequest == Idle \in Request
  BY DEF Idle, Request, NoBody, Plain, Body, Status

\* An answer frees the slot, or stays until the page that waits has heard it.
LEMMA ReplyFacts ==
  ASSUME Types, NEW r \in Req, NEW result \in {"ok", "failed", "null"}, Reply(r, result)
  PROVE  /\ req' \in [Req -> Request]
         /\ req'[r].at \in {"done", "ok", "failed", "null"}
         /\ req'[r].page = req[r].page
         /\ req'[r].page => req'[r].op = req[r].op /\ req'[r].rec = req[r].rec
         /\ req'[r].at = "done" => ~req'[r].page
         /\ \A q \in Req : q # r => req'[q] = req[q]
<1>1. req[r] \in Request
  BY DEF Types
<1>2. CASE req[r].page
  <2>1. req' = [req EXCEPT ![r] = [req[r] EXCEPT !.at = result]]
    BY <1>2 DEF Reply
  <2>2. [req[r] EXCEPT !.at = result] \in Request
    BY <1>1 DEF Request
  <2>3. req' \in [Req -> Request]
    BY <2>1, <2>2 DEF Types
  <2>4. req'[r] = [req[r] EXCEPT !.at = result]
    BY <2>1 DEF Types
  <2> QED BY <1>1, <1>2, <2>1, <2>3, <2>4 DEF Types, Request
<1>3. CASE ~req[r].page
  <2>1. req' = [req EXCEPT ![r] = Idle]
    BY <1>3 DEF Reply
  <2>2. /\ req' \in [Req -> Request] /\ req'[r] = Idle
        /\ \A q \in Req : q # r => req'[q] = req[q]
    BY <2>1, IdleRequest DEF Types
  <2>3. Idle.at = "done" /\ ~Idle.page /\ req[r].page = FALSE /\ Idle.page = FALSE
    BY <1>1, <1>3 DEF Idle, Request
  <2> QED BY <2>2, <2>3
<1> QED BY <1>1, <1>2, <1>3 DEF Request
\* A lookup that admits its request: it goes on to the write.
Found(r) ==
  /\ req[r].at = "find" /\ req[r].op # "get"
  /\ Admits(req[r].op, req[r].rec, req[r].body.email)
  /\ req' = [req EXCEPT ![r].at = "write"]
  /\ UNCHANGED <<rows, loose>>

\* A step of a handler is a lookup that goes on, or ends with an answer.
LEMMA HandleCases ==
  ASSUME NEW r \in Req, Handle(r)
  PROVE  \/ Found(r)
         \/ /\ Arrived(r)
            /\ \E result \in {"ok", "failed", "null"} : Reply(r, result)
            /\ \/ UNCHANGED <<rows, loose>>
               \/ req[r].at = "write" /\ Write(r, req[r].rec)
  BY DEF Handle, Find, CallFails, SessionOver, Write, Save, WriteStatus, SoftDelete, Found, Arrived

\* What every step of a handler does to the requests.
LEMMA HandleFacts ==
  ASSUME Types, NEW r \in Req, Handle(r)
  PROVE  /\ req' \in [Req -> Request]
         /\ Arrived(r)
         /\ req'[r].page = req[r].page
         /\ req'[r].page => req'[r].op = req[r].op /\ req'[r].rec = req[r].rec
         /\ req'[r].at = "done" => ~req'[r].page
         /\ req'[r].at # "find"
         /\ req'[r].at = "write" =>
              /\ Found(r)
              /\ req'[r].op = req[r].op /\ req'[r].rec = req[r].rec /\ req'[r].body = req[r].body
         /\ \A q \in Req : q # r => req'[q] = req[q]
<1>1. CASE Found(r)
  <2>1. req[r] \in Request
    BY DEF Types
  <2>2. [req[r] EXCEPT !.at = "write"] \in Request
    BY <2>1 DEF Request
  <2>3. req' = [req EXCEPT ![r] = [req[r] EXCEPT !.at = "write"]]
    BY <1>1 DEF Found, Types
  <2>4. req' \in [Req -> Request] /\ req'[r] = [req[r] EXCEPT !.at = "write"]
    BY <2>2, <2>3 DEF Types
  <2> QED BY <1>1, <2>1, <2>3, <2>4 DEF Types, Request, Found, Arrived
<1>2. CASE ~Found(r)
  BY <1>2, HandleCases, ReplyFacts
<1> QED BY <1>1, <1>2

\* A handler's step keeps what the requests carry and what blocks the modal.
LEMMA HandleRequests ==
  ASSUME Inv, NEW r \in Req, Handle(r), UNCHANGED pageVars
  PROVE  RequestsCarry' /\ BlockedOnlyBySubmit'
<1>1. RequestsCarry'
  BY HandleFacts DEF Inv, RequestsCarry, Arrived
<1>2. BlockedOnlyBySubmit'
  BY HandleFacts DEF Inv, BlockedOnlyBySubmit, Pending, pageVars
<1> QED BY <1>1, <1>2

\* The row create and update write.
LEMMA WrittenFacts ==
  ASSUME NEW e \in Record, NEW row \in Row, rows[e] = row, NEW body \in Body,
         NEW op \in {"create", "update"}, op # "create" => row.status # "none"
  PROVE  /\ Written(e, op, body) \in Row
         /\ Written(e, op, body).status # "none"
         /\ Written(e, op, body).data = body.data
         /\ Written(e, op, body).email = IF body.email = None THEN row.email ELSE body.email
         /\ op = "update" /\ body.status = "none" => Written(e, op, body).status = row.status
         /\ body.deletedAt = "set" => Written(e, op, body).deleted
         /\ body.deletedAt = "cleared" => ~Written(e, op, body).deleted
         /\ body.deletedAt = "kept" => Written(e, op, body).deleted = row.deleted
<1>1. Fresh(e) \in Status \ {"none"}
  BY DEF Fresh, Status, MerchantStatus, CustomerStatus
<1> QED BY <1>1 DEF Written, Row, Body

\* What a write does to the rows: the row of its record only.  A row deleted by
\* it, and not loose, is closed; one deleted before stays as it is, or is loose
\* if the request changes its status.
LEMMA WriteFacts ==
  ASSUME Inv, NEW r \in Req, req[r].at = "write", Write(r, req[r].rec), NEW e, e = req[r].rec
  PROVE  /\ e \in Record
         /\ rows' \in [Record -> Row]
         /\ \A f \in Record : f # e => rows'[f] = rows[f]
         /\ rows' = rows \/ Exists(e)'
         /\ rows'[e].data # rows[e].data => rows'[e].data = e
         /\ ~Exists(e) => rows' = rows \/ rows'[e].data = e
         /\ rows'[e].email # rows[e].email \/ ~Exists(e) =>
              rows' = rows \/ ~Taken(e, rows'[e].email)
         /\ loose' \subseteq Record
         /\ \A f \in Record : f # e => (f \in loose' <=> f \in loose)
         /\ rows'[e].deleted /\ e \notin loose' =>
              /\ rows'[e].status = Closed(e)
              /\ \A q \in Req : q # r /\ req[q].at = "write" /\ req[q].rec = e
                                => ~ChangesStatus(q)
<1>1. /\ e \in Record /\ req[r] \in Request /\ req[r].body \in Body
      /\ req[r].op \in {"create", "update"} => req[r].body.data = e
      /\ req[r].op = "create" => req[r].body.email # None
      /\ req[r].op # "create" => Exists(e)
  BY DEF Inv, Types, RequestsCarry, WritesFound, Arrived, Request
<1>2. rows[e] \in Row /\ rows \in [Record -> Row] /\ loose \subseteq Record
  BY <1>1 DEF Inv, Types
<1>3. Closed(e) \in Status \ {"none"}
  BY DEF Closed, Status, MerchantStatus, CustomerStatus
<1>4. rows[e].deleted /\ e \notin loose =>
        /\ rows[e].status = Closed(e) /\ Exists(e)
        /\ \A q \in Req : req[q].at = "write" /\ req[q].rec = e => ~ChangesStatus(q)
  BY <1>1 DEF Inv, DeletedStaysClosed, DeletedExists, WritesFound
<1>5. CASE Save(r, e) /\ rows' # rows
  <2> DEFINE op == req[r].op  body == req[r].body  row == Written(e, op, body)
  <2>1. /\ op \in {"create", "update"} /\ ~Taken(e, body.email)
        /\ op = "create" => ~Exists(e)
        /\ rows' = [rows EXCEPT ![e] = row]
        /\ loose' = CASE body.deletedAt = "kept"    -> loose
                      [] body.deletedAt = "cleared" -> loose \ {e}
                      [] OTHER -> IF rows[e].deleted THEN loose ELSE loose \cup {e}
    BY <1>5 DEF Save
  <2>2. /\ row \in Row /\ row.status # "none" /\ row.data = e
        /\ row.email = IF body.email = None THEN rows[e].email ELSE body.email
        /\ op = "update" /\ body.status = "none" => row.status = rows[e].status
        /\ body.deletedAt = "set" => row.deleted
        /\ body.deletedAt = "cleared" => ~row.deleted
        /\ body.deletedAt = "kept" => row.deleted = rows[e].deleted
    <3>1. op # "create" => rows[e].status # "none"
      BY <1>1 DEF Exists
    <3> HIDE DEF op, body
    <3>2. body \in Body /\ op \in {"create", "update"} /\ body.data = e
      BY <1>1, <2>1 DEF op, body
    <3> QED BY <1>1, <1>2, <3>1, <3>2, WrittenFacts
  <2> HIDE DEF row
  <2>3. /\ rows' \in [Record -> Row] /\ rows'[e] = row
        /\ \A f \in Record : f # e => rows'[f] = rows[f]
    BY <1>1, <1>2, <2>1, <2>2
  <2>4. Exists(e)'
    BY <2>2, <2>3 DEF Exists
  <2>5. /\ loose' \subseteq Record
        /\ \A f \in Record : f # e => (f \in loose' <=> f \in loose)
        /\ row.deleted /\ e \notin loose' => rows[e].deleted /\ e \notin loose
    BY <1>1, <1>2, <2>1, <2>2 DEF Body
  <2>6. ASSUME row.deleted, e \notin loose'
        PROVE  row.status = Closed(e)
    <3>1. rows[e].deleted /\ e \notin loose
      BY <2>5, <2>6
    <3>2. op = "update" /\ ~ChangesStatus(r)
      BY <1>4, <2>1, <3>1
    <3> QED BY <1>4, <2>2, <3>1, <3>2 DEF ChangesStatus
  <2>7. row.email # rows[e].email => row.email = body.email
    BY <2>2
  <2>8. ~Exists(e) => row.email = body.email
    BY <1>1, <2>1, <2>2
  <2> QED BY <1>1, <1>4, <2>1, <2>2, <2>3, <2>4, <2>5, <2>6, <2>7, <2>8
<1>6. CASE Save(r, e) /\ rows' = rows
  <2>2. CASE loose' = loose
    BY <1>1, <1>2, <1>4, <1>6, <2>2 DEF Inv, Types
  <2>3. CASE loose' # loose
    <3> DEFINE op == req[r].op  body == req[r].body  row == Written(e, op, body)
    <3>1. /\ op \in {"create", "update"} /\ (op = "create" => ~Exists(e))
          /\ rows' = [rows EXCEPT ![e] = row]
          /\ loose' = CASE body.deletedAt = "kept"    -> loose
                        [] body.deletedAt = "cleared" -> loose \ {e}
                        [] OTHER -> IF rows[e].deleted THEN loose ELSE loose \cup {e}
      BY <1>6, <2>3 DEF Save
    <3>2. row = rows[e]
      BY <1>1, <1>2, <1>6, <3>1
    <3>3. body.deletedAt = "cleared" => ~rows[e].deleted
      BY <3>2 DEF Written
    <3>4. body.deletedAt = "set" => rows[e].deleted
      BY <3>2 DEF Written
    <3> HIDE DEF row
    <3> QED BY <1>1, <1>2, <1>4, <1>6, <3>1, <3>3, <3>4 DEF Body, Inv, Types
  <2> QED BY <2>2, <2>3
<1>7. CASE WriteStatus(r, e)
  <2>1. PICK s \in {"ACTIVE", "SUSPENDED"} : rows' = [rows EXCEPT ![e] = [rows[e] EXCEPT !.status = s]]
    BY <1>1, <1>2, <1>7 DEF WriteStatus
  <2>2. [rows[e] EXCEPT !.status = s] \in Row /\ s # "none"
    BY <1>2 DEF Row, Status, MerchantStatus
  <2>3. /\ rows' \in [Record -> Row]
        /\ rows'[e] = [rows[e] EXCEPT !.status = s]
        /\ \A f \in Record : f # e => rows'[f] = rows[f]
    BY <1>1, <1>2, <2>1, <2>2
  <2>4. /\ rows'[e].deleted = rows[e].deleted /\ rows'[e].status = s
        /\ rows'[e].data = rows[e].data /\ rows'[e].email = rows[e].email
    BY <1>2, <2>3 DEF Row
  <2>5. Exists(e) /\ Exists(e)' /\ ChangesStatus(r) /\ loose' = loose
    BY <1>1, <1>7, <2>2, <2>4 DEF WriteStatus, ChangesStatus, Exists
  <2> QED BY <1>1, <1>2, <1>4, <2>3, <2>4, <2>5
<1>8. CASE SoftDelete(r, e)
  <2> DEFINE row == [rows[e] EXCEPT !.deleted = TRUE, !.status = Closed(e)]
  <2>1. /\ rows' = [rows EXCEPT ![e] = row] /\ req[r].op = "delete"
        /\ loose' = IF \E q \in Req : req[q].at = "write" /\ req[q].rec = e /\ ChangesStatus(q)
                    THEN loose \cup {e} ELSE loose \ {e}
    BY <1>1, <1>2, <1>8 DEF SoftDelete
  <2>2. /\ row \in Row /\ row.deleted /\ row.status = Closed(e)
        /\ row.data = rows[e].data /\ row.email = rows[e].email
    BY <1>2, <1>3 DEF Row
  <2> HIDE DEF row
  <2>3. /\ rows' \in [Record -> Row] /\ rows'[e] = row
        /\ \A f \in Record : f # e => rows'[f] = rows[f]
    BY <1>1, <1>2, <2>1, <2>2
  <2>4. Exists(e) /\ Exists(e)'
    BY <1>1, <1>3, <2>1, <2>2, <2>3 DEF Exists
  <2>5. /\ loose' \subseteq Record
        /\ \A f \in Record : f # e => (f \in loose' <=> f \in loose)
        /\ e \notin loose' =>
             \A q \in Req : req[q].at = "write" /\ req[q].rec = e => ~ChangesStatus(q)
    BY <1>1, <1>2, <2>1
  <2> QED BY <1>1, <2>2, <2>3, <2>4, <2>5
<1> QED BY <1>5, <1>6, <1>7, <1>8 DEF Write
(***************************************************************************)
(* Every step keeps the invariant.                                         *)
(***************************************************************************)

\* A write over a row keeps what is known of the rows.
LEMMA WriteRows ==
  ASSUME Inv, NEW r \in Req, Handle(r), req[r].at = "write", Write(r, req[r].rec)
  PROVE  /\ UniqueEmails' /\ DeletedExists' /\ WritesFound'
         /\ DeletedStaysClosed' /\ SavedWithItsOwn'
<1>1. PICK e \in Record : e = req[r].rec
  BY DEF Inv, RequestsCarry, Arrived
<1>2. UniqueEmails'
  <2> SUFFICES ASSUME NEW f \in Record, f # e, Kind(f) = Kind(e), Exists(e)', Exists(f)'
               PROVE  rows'[f].email # rows'[e].email
    BY <1>1, WriteFacts DEF Inv, UniqueEmails, Exists, Kind
  <2>1. rows'[f] = rows[f] /\ Exists(f)
    BY <1>1, WriteFacts DEF Exists
  <2>2. CASE Exists(e) /\ rows'[e].email = rows[e].email
    BY <1>1, <2>1, <2>2 DEF Inv, UniqueEmails
  <2>3. CASE ~Taken(e, rows'[e].email)
    <3>1. f \in Kind(e) \ {e}
      BY DEF Kind, Record
    <3> QED BY <2>1, <2>3, <3>1 DEF Taken
  <2>4. CASE rows' = rows
    BY <1>1, <2>1, <2>4 DEF Inv, UniqueEmails, Exists
  <2> QED BY <1>1, <2>2, <2>3, <2>4, WriteFacts
<1>3. DeletedExists'
  BY <1>1, WriteFacts DEF Inv, DeletedExists, Exists
<1>4. WritesFound'
  <2> SUFFICES ASSUME NEW q \in Req, req'[q].at = "write"
               PROVE  /\ req'[q].op # "create" => rows'[req'[q].rec].status # "none"
                      /\ ChangesStatus(q)' /\ rows'[req'[q].rec].deleted
                           => req'[q].rec \in loose'
    BY DEF WritesFound, Exists
  <2>1. q # r /\ req'[q] = req[q]
    BY HandleFacts DEF Inv, Found
  <2>2. PICK f \in Record : f = req[q].rec
    BY <2>1 DEF Inv, RequestsCarry, Arrived
  <2>3. /\ req[q].op # "create" => Exists(f)
        /\ ChangesStatus(q) /\ rows[f].deleted => f \in loose
    BY <2>1, <2>2 DEF Inv, WritesFound
  <2>4. req[q].op # "create" => Exists(f)'
    <3>1. CASE f = e
      BY <1>1, <2>3, <3>1, WriteFacts DEF Exists
    <3>2. CASE f # e
      BY <1>1, <2>3, <3>2, WriteFacts DEF Exists
    <3> QED BY <3>1, <3>2
  <2>5. ASSUME ChangesStatus(q), rows'[f].deleted
        PROVE  f \in loose'
    <3>1. /\ f # e => rows'[f] = rows[f] /\ (f \in loose' <=> f \in loose)
          /\ f = e /\ rows'[f].deleted /\ f \notin loose' =>
               \A u \in Req : u # r /\ req[u].at = "write" /\ req[u].rec = f => ~ChangesStatus(u)
      BY <1>1, WriteFacts
    <3>2. CASE f = e
      BY <2>1, <2>2, <2>5, <3>1, <3>2
    <3>3. CASE f # e
      BY <2>3, <2>5, <3>1, <3>3
    <3> QED BY <3>2, <3>3
  <2>6. ChangesStatus(q)' <=> ChangesStatus(q)
    BY <2>1 DEF ChangesStatus
  <2>7. rows'[f].status # "none" <=> Exists(f)'
    BY DEF Exists
  <2> QED BY <2>1, <2>2, <2>4, <2>5, <2>6, <2>7
<1>5. DeletedStaysClosed'
  <2> SUFFICES ASSUME NEW f \in Record, rows'[f].deleted, f \notin loose'
               PROVE  rows'[f].status = Closed(f)
    BY DEF DeletedStaysClosed, Closed
  <2>1. CASE f = e
    BY <1>1, <2>1, WriteFacts
  <2>2. CASE f # e
    BY <1>1, <2>2, WriteFacts DEF Inv, DeletedStaysClosed
  <2> QED BY <2>1, <2>2
<1>6. SavedWithItsOwn'
  BY <1>1, WriteFacts DEF Inv, SavedWithItsOwn, Exists
<1> QED BY <1>2, <1>3, <1>4, <1>5, <1>6

\* A step of the server keeps the invariant.
LEMMA HandlePreserves ==
  ASSUME Inv, NEW r \in Req, Handle(r), UNCHANGED pageVars
  PROVE  Inv'
<1>1. CASE UNCHANGED <<rows, loose>>
  <2>1. WritesFound'
    BY <1>1, HandleFacts DEF Inv, WritesFound, Found, Admits, Visible, Exists, ChangesStatus
  <2> QED
    BY <1>1, <2>1, HandleFacts, HandleRequests
       DEF Inv, Types, UniqueEmails, DeletedExists, FormIsEdited, DeletedStaysClosed,
           SavedWithItsOwn, Exists, pageVars
<1>2. CASE req[r].at = "write" /\ Write(r, req[r].rec)
  BY <1>2, HandleFacts, HandleRequests, WriteFacts, WriteRows
     DEF Inv, Types, FormIsEdited, pageVars
<1> QED BY <1>1, <1>2, HandleCases DEF Found

\* What a step that touches no row leaves of the invariant to show.
LEMMA RowsKept ==
  ASSUME Inv, UNCHANGED <<rows, loose>>
  PROVE  UniqueEmails' /\ DeletedExists' /\ DeletedStaysClosed' /\ SavedWithItsOwn'
  BY DEF Inv, UniqueEmails, DeletedExists, DeletedStaysClosed, SavedWithItsOwn, Exists

\* A body of the documented fields is a body.
LEMMA PlainBody ==
  ASSUME NEW email \in Email \cup {None}, NEW data \in Record \cup {None}
  PROVE  Plain(email, data) \in Body /\ Plain(email, data).data = data
         /\ Plain(email, data).email = email
  BY DEF Plain, Body, Status

\* A body of another client carries the record's own values, and an e-mail
\* address if it creates the record.
LEMMA BodiesFacts ==
  ASSUME NEW e \in Record, NEW op, NEW body \in Bodies(e, op)
  PROVE  body \in Body /\ body.data = e /\ (op = "create" => body.email # None)
<1>1. PICK s \in Shapes, m \in Email \cup {None} :
        /\ s.email => m \in Email
        /\ op = "create" => s.email
        /\ body = [Plain(m, e) EXCEPT !.status = s.status, !.deletedAt = s.deletedAt]
  <2>1. PICK s \in Shapes :
          /\ op = "create" => s.email
          /\ body \in {[Plain(m, e) EXCEPT !.status = s.status, !.deletedAt = s.deletedAt] :
                         m \in IF s.email THEN Email ELSE {None}}
    BY DEF Bodies
  <2>2. PICK m \in IF s.email THEN Email ELSE {None} :
          body = [Plain(m, e) EXCEPT !.status = s.status, !.deletedAt = s.deletedAt]
    BY <2>1
  <2> QED BY <2>1, <2>2
<1>2. s.status \in Status /\ s.deletedAt \in {"kept", "set", "cleared"}
  BY RegistryAssumption DEF Shape
<1>3. m \in Email \cup {None} /\ (op = "create" => m # None)
  BY <1>1, RegistryAssumption
<1>4. Plain(m, e) \in Body /\ Plain(m, e).data = e /\ Plain(m, e).email = m
  BY <1>3, PlainBody
<1> QED BY <1>1, <1>2, <1>3, <1>4 DEF Body

\* A request of another client takes a slot.
LEMMA OtherPreserves ==
  ASSUME Inv, NEW r \in Req, Other(r), UNCHANGED pageVars
  PROVE  Inv'
<1>1. PICK e \in Record, op \in {"create", "update", "delete", "activate", "suspend"},
           body \in Body :
        /\ Arrive(r, op, e, body, FALSE)
        /\ op \in {"create", "update"} => body.data = e
        /\ op = "create" => body.email # None
  <2>1. PICK e \in Record, op \in {"create", "update", "delete", "activate", "suspend"} :
          \E body \in IF op \in {"create", "update"} THEN Bodies(e, op) ELSE {NoBody} :
            Arrive(r, op, e, body, FALSE)
    BY DEF Other, Operations
  <2>3. CASE op \in {"create", "update"}
    <3>1. PICK body \in Bodies(e, op) : Arrive(r, op, e, body, FALSE)
      BY <2>1, <2>3
    <3>2. body \in Body /\ body.data = e /\ (op = "create" => body.email # None)
      BY BodiesFacts
    <3> QED BY <3>1, <3>2
  <2>4. CASE op \notin {"create", "update"}
    BY <2>1, <2>4, PlainBody DEF NoBody
  <2> QED BY <2>3, <2>4
<1>2. Takes(r, op, e, body, FALSE)
  BY <1>1, ArriveFacts
<1>3. UNCHANGED <<rows, loose>>
  BY DEF Other
<1>4. RequestsCarry' /\ WritesFound' /\ BlockedOnlyBySubmit'
  BY <1>1, <1>2, <1>3, TakesFacts DEF Inv, BlockedOnlyBySubmit, pageVars
<1> QED
  BY <1>2, <1>3, <1>4, RowsKept DEF Inv, Types, FormIsEdited, Takes, pageVars

\* The page sends a request.
LEMMA PageSends ==
  ASSUME Inv, NEW r \in Req, (\E e \in Merchant : ClickEdit(r, e)) \/ Submit(r)
  PROVE  Inv'
<1>1. PICK op \in {"get", "create", "update"}, e \in Merchant, email \in Email \cup {None},
           data \in Merchant \cup {None} :
        /\ Arrive(r, op, e, Plain(email, data), TRUE)
        /\ op # "get" => data = e /\ email # None
  <2>0. None \notin Email
    BY RegistryAssumption
  <2>1. CASE \E e \in Merchant : ClickEdit(r, e)
    BY <2>1 DEF ClickEdit, NoBody
  <2>2. CASE Submit(r) /\ editing # None
    BY <2>0, <2>2 DEF Submit, Inv, Types, FormIsEdited
  <2>3. CASE Submit(r) /\ editing = None
    <3>1. PICK email \in Email, e \in Merchant :
            Arrive(r, "create", e, Plain(email, IF form = None THEN e ELSE form), TRUE)
      BY <2>3 DEF Submit
    <3>2. form = None
      BY <2>3 DEF Inv, FormIsEdited
    <3>3. Arrive(r, "create", e, Plain(email, e), TRUE) /\ email # None
      BY <2>0, <3>1, <3>2
    <3> WITNESS "create" \in {"get", "create", "update"}, e \in Merchant,
                email \in Email \cup {None}, e \in Merchant \cup {None}
    <3> QED BY <3>3
  <2> QED BY <2>1, <2>2, <2>3
<1>2. /\ Takes(r, op, e, Plain(email, data), TRUE)
      /\ Plain(email, data).data = data /\ Plain(email, data).email = email
  <2>1. Plain(email, data) \in Body /\ data \in Record \cup {None} /\ e \in Record
    BY PlainBody DEF Record
  <2>2. Takes(r, op, e, Plain(email, data), TRUE)
    BY <1>1, <2>1, ArriveFacts
  <2> QED BY <2>1, <2>2, PlainBody
<1>3. UNCHANGED <<rows, loose>>
  BY DEF ClickEdit, Submit, registry
<1>4. /\ RequestsCarry' /\ WritesFound'
      /\ Pending({"create", "update"}) \subseteq Pending({"create", "update"})'
  <2>1. RequestsCarry' /\ WritesFound'
        /\ Pending({"create", "update"}) \subseteq Pending({"create", "update"})'
    BY <1>1, <1>2, <1>3, TakesFacts DEF Record
  <2> QED BY <2>1
<1>5. BlockedOnlyBySubmit'
  <2>1. CASE Submit(r)
    <3>1. req'[r].op # "get" /\ req'[r].page
      BY <2>1 DEF Submit, Arrive, Inv, Types
    <3>2. r \in Pending({"create", "update"})'
      BY <1>1, <1>2, <3>1 DEF Takes, Pending
    <3> QED BY <3>2 DEF BlockedOnlyBySubmit
  <2>2. CASE \E f \in Merchant : ClickEdit(r, f)
    BY <1>4, <2>2 DEF Inv, BlockedOnlyBySubmit, ClickEdit
  <2> QED BY <2>1, <2>2
<1> QED
  BY <1>2, <1>3, <1>4, <1>5, RowsKept
     DEF Inv, Types, FormIsEdited, ClickEdit, Submit, EditingAt, Takes
\* The page hears an answer.
LEMMA PageHears ==
  ASSUME Inv, NEW r \in Req, AnswerEdit(r) \/ SubmitDone(r)
  PROVE  Inv'
<1>1. /\ req[r].page /\ Answered(r)
      /\ req' = [req EXCEPT ![r] = Idle]
      /\ UNCHANGED <<rows, loose>>
  BY DEF AnswerEdit, SubmitDone, Pending, registry
<1>2. /\ req' \in [Req -> Request] /\ req'[r] = Idle
      /\ \A q \in Req : q # r => req'[q] = req[q]
  BY <1>1, IdleRequest DEF Inv, Types
<1>3. RequestsCarry' /\ WritesFound'
  BY <1>1, <1>2 DEF Inv, RequestsCarry, WritesFound, Arrived, Idle, Exists, ChangesStatus
<1>4. BlockedOnlyBySubmit'
  <2>1. CASE AnswerEdit(r)
    <3>1. Pending({"create", "update"}) \subseteq Pending({"create", "update"})'
      BY <1>2, <2>1 DEF AnswerEdit, Pending
    <3> QED BY <2>1, <3>1 DEF AnswerEdit, Inv, BlockedOnlyBySubmit
  <2>2. CASE SubmitDone(r)
    BY <2>2 DEF SubmitDone, BlockedOnlyBySubmit, AfterFailure
  <2> QED BY <2>1, <2>2
<1>5. /\ {editing, form}' \subseteq Merchant \cup {None} /\ FormIsEdited'
      /\ open' \in BOOLEAN /\ disabled' \in BOOLEAN /\ saved' \in BOOLEAN
  <2>0. /\ {editing, form} \subseteq Merchant \cup {None} /\ FormIsEdited
        /\ open \in BOOLEAN /\ disabled \in BOOLEAN /\ saved \in BOOLEAN
    BY DEF Inv, Types
  <2>1. CASE AnswerEdit(r)
    <3>1. req[r].rec \in Merchant
      BY <1>1, <2>1 DEF AnswerEdit, Inv, Pending, RequestsCarry
    <3> QED BY <2>0, <2>1, <3>1 DEF AnswerEdit, FormIsEdited, EditingAt
  <2>2. CASE SubmitDone(r)
    BY <2>0, <2>2 DEF SubmitDone, FormIsEdited, AfterFailure
  <2> QED BY <2>1, <2>2
<1> QED BY <1>1, <1>2, <1>3, <1>4, <1>5, RowsKept DEF Inv, Types

\* A slot whose page has gone, or lost its connection.
LEMMA AbandonedFacts ==
  ASSUME Inv, NEW r \in Req
  PROVE  /\ Abandoned(r) \in Request /\ ~Abandoned(r).page
         /\ Abandoned(r).at \in {"find", "write"} =>
              /\ Abandoned(r).at = req[r].at /\ Abandoned(r).op = req[r].op
              /\ Abandoned(r).rec = req[r].rec /\ Abandoned(r).body = req[r].body
<1>1. req[r] \in Request
  BY DEF Inv, Types
<1>2. [req[r] EXCEPT !.page = FALSE] \in Request
  BY <1>1 DEF Request
<1> QED BY <1>1, <1>2, IdleRequest DEF Abandoned, Answered, Idle, Request

\* A lost answer keeps the invariant.
LEMMA LostPreserves ==
  ASSUME Inv, NEW r \in Req, Lost(r)
  PROVE  Inv'
<1>1. /\ req' \in [Req -> Request] /\ req'[r] = Abandoned(r)
      /\ \A q \in Req : q # r => req'[q] = req[q]
  BY AbandonedFacts DEF Lost, Inv, Types
<1>2. RequestsCarry' /\ WritesFound'
  BY <1>1, AbandonedFacts DEF Inv, RequestsCarry, WritesFound, Arrived, Lost, Exists, ChangesStatus, registry
<1>3. BlockedOnlyBySubmit'
  <2>1. CASE req[r].op = "get"
    <3>1. Pending({"create", "update"}) \subseteq Pending({"create", "update"})'
      BY <1>1, <2>1 DEF Pending
    <3> QED BY <2>1, <3>1 DEF Lost, Inv, BlockedOnlyBySubmit
  <2>2. CASE req[r].op # "get"
    BY <2>2 DEF Lost, BlockedOnlyBySubmit, AfterFailure
  <2> QED BY <2>1, <2>2
<1> QED BY <1>1, <1>2, <1>3, RowsKept DEF Inv, Types, FormIsEdited, Lost, AfterFailure, registry

\* What happens to the page alone.
LEMMA PagePreserves ==
  ASSUME Inv, OpenCreate \/ Close \/ Reload
  PROVE  Inv'
<1>1. CASE OpenCreate \/ Close
  <2>1. UNCHANGED <<rows, loose, req>> /\ UNCHANGED <<disabled, saved>>
    BY <1>1 DEF OpenCreate, Close, registry
  <2>2. RequestsCarry' /\ WritesFound' /\ BlockedOnlyBySubmit'
    BY <2>1 DEF Inv, RequestsCarry, WritesFound, BlockedOnlyBySubmit, Arrived, Exists, Pending,
                ChangesStatus
  <2> QED BY <1>1, <2>1, <2>2, RowsKept DEF Inv, Types, FormIsEdited, OpenCreate, Close
<1>2. CASE Reload
  <2>1. req' \in [Req -> Request] /\ \A r \in Req : req'[r] = Abandoned(r)
    BY <1>2, AbandonedFacts DEF Reload
  <2>2. RequestsCarry' /\ WritesFound'
    BY <1>2, <2>1, AbandonedFacts
       DEF Inv, RequestsCarry, WritesFound, Arrived, Reload, Exists, ChangesStatus, registry
  <2> QED
    BY <1>2, <2>1, <2>2, RowsKept DEF Inv, Types, FormIsEdited, BlockedOnlyBySubmit, Reload, registry
<1> QED BY <1>1, <1>2

\* The invariant holds at first.
LEMMA InitInv == Init => Inv
<1> SUFFICES ASSUME Init PROVE Inv
  OBVIOUS
<1>1. Types
  BY IdleRequest DEF Init, RegistryInit, Types, Row, NoRow, Status
<1> QED
  BY <1>1 DEF Init, RegistryInit, Inv, NoRow, Idle, UniqueEmails, RequestsCarry, WritesFound,
        DeletedExists, FormIsEdited, DeletedStaysClosed, SavedWithItsOwn, BlockedOnlyBySubmit,
        Exists, Arrived

\* Every step of the page and of the server keeps it.
LEMMA InvPreserved == Inv /\ [Next]_vars => Inv'
<1> SUFFICES ASSUME Inv, [Next]_vars PROVE Inv'
  OBVIOUS
<1>1. CASE UNCHANGED vars
  <2>1. UNCHANGED <<rows, loose, req>> /\ UNCHANGED pageVars
    BY <1>1 DEF vars, registry
  <2>2. RequestsCarry' /\ WritesFound' /\ BlockedOnlyBySubmit'
    BY <2>1 DEF Inv, RequestsCarry, WritesFound, BlockedOnlyBySubmit, Arrived, Exists,
                Pending, pageVars, ChangesStatus
  <2> QED BY <2>1, <2>2, RowsKept DEF Inv, Types, FormIsEdited, pageVars
<1> QED
  BY <1>1, HandlePreserves, OtherPreserves, PageSends, PageHears, LostPreserves, PagePreserves
     DEF Next

\* The inductive invariant holds in every state.
LEMMA Invariance == Spec => []Inv
  BY InitInv, InvPreserved, PTL DEF Spec

(***************************************************************************)
(* The properties the runs check.                                          *)
(***************************************************************************)

\* Every variable has a value of its kind, and no two merchants, and no two
\* customers of a merchant, share an e-mail address.
THEOREM TypeCorrect == Spec => []TypeOK
<1>1. Inv => TypeOK
  BY DEF Inv, Types, UniqueEmails, Row, Request, TypeOK
<1> QED BY <1>1, Invariance, PTL

\* A deleted merchant or customer stays closed, but for a change of status
\* that had found it before.
THEOREM DeletedStaysClosedCorrect == Spec => []DeletedStaysClosed
<1>1. Inv => DeletedStaysClosed
  BY DEF Inv
<1> QED BY <1>1, Invariance, PTL

\* No merchant is saved with the values of another.
THEOREM SavedWithItsOwnCorrect == Spec => []SavedWithItsOwn
<1>1. Inv => SavedWithItsOwn
  BY DEF Inv
<1> QED BY <1>1, Invariance, PTL

\* The modal is blocked only while a submit is on its way, or after one has
\* succeeded.
THEOREM BlockedOnlyBySubmitCorrect == Spec => []BlockedOnlyBySubmit
<1>1. Inv => BlockedOnlyBySubmit
  BY DEF Inv
<1> QED BY <1>1, Invariance, PTL
=============================================================================
