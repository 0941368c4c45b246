------------------------------- MODULE Listings -------------------------------
(***************************************************************************)
(* The items sellers offer: listing, editing, archiving, photos            *)
(* (src/app/services/listing.py, listing_content.py) and the orders that   *)
(* buyers place on them (create_transaction).  A listing has no status     *)
(* column: it follows from its orders, and no request locks its row.       *)
(* SQLAlchemy writes the columns a request changed; the listing was read   *)
(* before its orders were.                                                 *)
(***************************************************************************)
EXTENDS Integers, Sequences, FiniteSets

CONSTANTS
    Items,      \* rows of the table listings
    Orders,     \* rows of the table transactions
    Requests,   \* requests that may be under way
    Prices,     \* prices a seller asks
    Changes,    \* the bodies of PATCH /listings/{id}: some terms, new values
    PhotoLimit, \* MAX_PHOTOS
    Overlaps    \* may requests overlap? both may be asked for

\* What the order's course depends on: dispute_policy is TRUE if it names a
\* resolution, unique_id if it is set.
Terms == [price: Prices, is_serialized: BOOLEAN, unique_id: BOOLEAN, dispute_policy: BOOLEAN]

TermFields == {"price", "is_serialized", "unique_id", "dispute_policy"}

ASSUME ListingsAssumption ==
    /\ Items # {} /\ Prices # {} /\ Changes # {}
    /\ IsFiniteSet(Requests)
    /\ PhotoLimit \in Nat \ {0}
    /\ Overlaps \subseteq BOOLEAN
    /\ \A change \in Changes :
         /\ DOMAIN change \subseteq TermFields
         /\ "price" \in DOMAIN change => change["price"] \in Prices
         /\ \A f \in DOMAIN change \ {"price"} : change[f] \in BOOLEAN

VARIABLES
    listed,    \* items that have a row
    terms,     \* their terms
    archived,  \* archived_at is set
    photos,    \* the positions of an item's photos, oldest first
    orders,    \* what each order is for, and what its buyer agreed to
    work,      \* what each request is doing
    overlap    \* may requests overlap in this behaviour?

vars == <<listed, terms, archived, photos, orders, work, overlap>>

-----------------------------------------------------------------------------
\* Payment states: "paid" covers every status from locked to released and
\* split, "refunded" the three that gave the money back.
States == {"none", "unpaid", "paid", "refunded"}

Ops   == {"edit", "archive", "order", "photo"}
Steps == {"idle", "loaded", "checked"}

Work  == [step: Steps, op: Ops, item: Items, change: Changes, terms: Terms,
          archived: BOOLEAN, place: Nat]

Order == [state: States, item: Items, agreed: Terms]

TypeOK ==
    /\ listed \subseteq Items
    /\ terms \in [Items -> Terms]
    /\ archived \in [Items -> BOOLEAN]
    /\ photos \in [Items -> Seq(Nat)]
    /\ orders \in [Orders -> Order]
    /\ work \in [Requests -> Work]
    /\ overlap \in Overlaps

\* What stands where there is nothing yet.
AnyTerms == CHOOSE t \in Terms : TRUE
NoChange == CHOOSE change \in Changes : TRUE
NoWork   == [step |-> "idle", op |-> "edit", item |-> CHOOSE i \in Items : TRUE,
             change |-> NoChange, terms |-> AnyTerms, archived |-> FALSE, place |-> 0]
NoOrder  == [state |-> "none", item |-> CHOOSE i \in Items : TRUE, agreed |-> AnyTerms]

Idle(r) == work[r].step = "idle"

Init ==
    /\ listed = {}
    /\ terms = [i \in Items |-> AnyTerms]
    /\ archived = [i \in Items |-> FALSE]
    /\ photos = [i \in Items |-> <<>>]
    /\ orders = [o \in Orders |-> NoOrder]
    /\ work = [r \in Requests |-> NoWork]
    /\ overlap \in Overlaps

-----------------------------------------------------------------------------
UNPAID_STATUSES   == {"unpaid"}
REFUNDED_STATUSES == {"refunded"}

\* The status of a listing, from the states of its orders.
Status(states, isArchived) ==
    IF states \ (UNPAID_STATUSES \cup REFUNDED_STATUSES) # {} THEN "sold"
    ELSE IF states \cap UNPAID_STATUSES # {} THEN "awaiting_payment"
    ELSE IF isArchived THEN "archived" ELSE "active"

StatesOf(i) == {orders[o].state : o \in {p \in Orders : orders[p].item = i}} \ {"none"}

\* A serialized item has a unique_id and a policy that names a resolution.
Valid(t) == t.is_serialized => t.unique_id /\ t.dispute_policy

\* ck_listings_unique_id_for_serialized
Storable(t) == t.is_serialized => t.unique_id

Merged(t, change) == [f \in DOMAIN t |-> IF f \in DOMAIN change THEN change[f] ELSE t[f]]

\* The row after the columns that differ from what was read are written.
Written(now, was, new) == [f \in DOMAIN now |-> IF new[f] # was[f] THEN new[f] ELSE now[f]]

-----------------------------------------------------------------------------
CreateListing(i, t) ==
    /\ i \notin listed
    /\ Valid(t)
    /\ listed' = listed \cup {i}
    /\ terms' = [terms EXCEPT ![i] = t]
    /\ UNCHANGED <<archived, photos, orders, work, overlap>>

\* A request loads the listing.
Load(r, op, i, change) ==
    /\ Idle(r) /\ i \in listed
    /\ overlap \/ \A q \in Requests : Idle(q)
    /\ op # "edit" => change = NoChange
    /\ work' = [work EXCEPT ![r] = [@ EXCEPT !.step = "loaded", !.op = op, !.item = i,
                                             !.change = change, !.terms = terms[i],
                                             !.archived = archived[i]]]
    /\ UNCHANGED <<listed, terms, archived, photos, orders, overlap>>

\* It looks at the orders, or at the photos, and is refused or goes on.
LockedWhenSold(status) == status = "sold"

RequireUnpaid(status) == status \in {"sold", "awaiting_payment"}

MayEdit(w, status) == ~RequireUnpaid(status) /\ status # "archived" /\ Valid(Merged(w.terms, w.change))

MayArchive(status) == ~RequireUnpaid(status)

RoomForOneMore(i) == Len(photos[i]) <= PhotoLimit

RoomForPhoto(i) == Len(photos[i]) < PhotoLimit

MayOrder(w, status) == status # "sold" /\ ~w.archived

Allowed(w) ==
    LET status == Status(StatesOf(w.item), w.archived)
    IN  CASE w.op = "edit"    -> MayEdit(w, status)
          [] w.op = "archive" -> MayArchive(status)
          [] w.op = "order"   -> MayOrder(w, status)
          [] w.op = "photo"   -> RoomForPhoto(w.item)

Check(r) ==
    /\ work[r].step = "loaded"
    /\ work' = [work EXCEPT ![r] =
                  IF Allowed(@) THEN [@ EXCEPT !.step = "checked", !.place = Len(photos[work[r].item])]
                  ELSE NoWork]
    /\ UNCHANGED <<listed, terms, archived, photos, orders, overlap>>

Done(r) == work' = [work EXCEPT ![r] = NoWork]

\* update_listing: refused by the database if the row would break its check.
Edit(r) ==
    LET w   == work[r]
        new == Written(terms[w.item], w.terms, Merged(w.terms, w.change))
    IN  /\ w.step = "checked" /\ w.op = "edit"
        /\ terms' = IF Storable(new) THEN [terms EXCEPT ![w.item] = new] ELSE terms
        /\ Done(r)
        /\ UNCHANGED <<listed, archived, photos, orders, overlap>>

\* archive_listing: nothing to write if it was read as archived.
Archive(r) ==
    LET w == work[r]
    IN  /\ w.step = "checked" /\ w.op = "archive"
        /\ archived' = IF w.archived THEN archived ELSE [archived EXCEPT ![w.item] = TRUE]
        /\ Done(r)
        /\ UNCHANGED <<listed, terms, photos, orders, overlap>>

\* restore_listing looks at no order: a row that is set is cleared.
Restore(i) ==
    /\ archived[i]
    /\ overlap \/ \A q \in Requests : Idle(q)
    /\ archived' = [archived EXCEPT ![i] = FALSE]
    /\ UNCHANGED <<listed, terms, photos, orders, work, overlap>>

\* create_transaction: the amount is the price that was read.
PlaceOrder(r, o) ==
    LET w == work[r]
    IN  /\ w.step = "checked" /\ w.op = "order"
        /\ orders[o].state = "none"
        /\ orders' = [orders EXCEPT ![o] = [state |-> "unpaid", item |-> w.item, agreed |-> w.terms]]
        /\ Done(r)
        /\ UNCHANGED <<listed, terms, archived, photos, overlap>>

AddPhoto(r) ==
    LET w == work[r]
    IN  /\ w.step = "checked" /\ w.op = "photo"
        /\ photos' = [photos EXCEPT ![w.item] = Append(@, w.place)]
        /\ Done(r)
        /\ UNCHANGED <<listed, terms, archived, orders, overlap>>

\* The payment and the refund of an order (OrderLifecycle) look at no other
\* order of its item.
Pay(o) ==
    /\ orders[o].state = "unpaid"
    /\ orders' = [orders EXCEPT ![o].state = "paid"]
    /\ UNCHANGED <<listed, terms, archived, photos, work, overlap>>

Refund(o) ==
    /\ orders[o].state = "paid"
    /\ orders' = [orders EXCEPT ![o].state = "refunded"]
    /\ UNCHANGED <<listed, terms, archived, photos, work, overlap>>

-----------------------------------------------------------------------------
Next ==
    \/ \E i \in Items :
         \/ \E t \in Terms : CreateListing(i, t)
         \/ \E r \in Requests, op \in Ops, change \in Changes : Load(r, op, i, change)
         \/ Restore(i)
    \/ \E r \in Requests :
         \/ Check(r) \/ Edit(r) \/ Archive(r) \/ AddPhoto(r)
         \/ \E o \in Orders : PlaceOrder(r, o)
    \/ \E o \in Orders : Pay(o) \/ Refund(o)

Spec == Init /\ [][Next]_vars
-----------------------------------------------------------------------------
Open(o) == orders[o].state \in {"unpaid", "paid"}

\* Whoever has an open order finds the item as it was when it was placed: the
\* price, what a case about it may end in, and not archived (_require_unpaid;
\* the order's amount is a copy, its rules are read from the listing).
TermsStand ==
    ~overlap => \A o \in Orders :
        Open(o) => terms[orders[o].item] = orders[o].agreed /\ ~archived[orders[o].item]

\* However edits are combined, a serialized item has what a dispute about it
\* needs to be decided (_validate_serialized_listing of the merged fields).
SerializedDecidable == ~overlap => \A i \in listed : Valid(terms[i])

\* The first photo is the cover.  There are at most MAX_PHOTOS of them, one
\* more for each upload that overlapped the last (add_listing_photo).
PhotosWithinLimit ==
    \A i \in Items :
        /\ photos[i] # <<>> => photos[i][1] = 0
        /\ Len(photos[i]) <= PhotoLimit + (IF overlap THEN Cardinality(Requests) - 1 ELSE 0)
=============================================================================
