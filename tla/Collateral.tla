----------------------------- MODULE Collateral -----------------------------
(***************************************************************************)
(* Registrations of collateral, copied by hand from the public register    *)
(* (internal/intermediary/collateral.go).  A registration is never         *)
(* deleted: it is cancelled, and whether it has expired is worked out each *)
(* time it is shown.                                                       *)
(*                                                                         *)
(* An update reads the row, and writes it WHERE id = ? in a second         *)
(* statement; the pages of a query are read one request after the other.   *)
(***************************************************************************)
EXTENDS Integers, Sequences, FiniteSets

CONSTANTS
    RegForms,       \* what clerks send: [no, lessee, start, end, noted]; NoDate for a blank
    NoDate,
    Clerks,         \* updates under way
    RawPageSize,    \* the page_size a reader asks for
    DefaultPageSize, MaxPageSize,
    MaxRegs,        \* bound: registrations
    MaxChanges,     \* bound: updates and cancellations
    MaxNow          \* bound: time, in half days

ASSUME CollateralAssumption ==
    /\ DefaultPageSize \in Nat \ {0}
    /\ MaxPageSize \in Nat \ {0}
    /\ RawPageSize \in Int
    /\ \A f \in RegForms : {f.start, f.end} \subseteq Int \cup {NoDate}

VARIABLES
    regs,           \* collateral_registrations, in the order of their ids
    updating,       \* Update between its statements
    reader,         \* somebody turning the pages of a query
    now,            \* the time of the service, in half days
    changes

collateralVars == <<regs, updating, reader, now, changes>>

NoUpdate == [at |-> "idle"]
NoReader == [at |-> "idle"]

-----------------------------------------------------------------------------
(* Validation and what is shown *)

\* ValidateUpsertCollateral: a period, and where it was looked up.
ValidReg(f) == f.start # NoDate /\ f.end # NoDate /\ f.end > f.start /\ f.noted

DayOf(instant) == instant \div 2
MidnightOf(day) == 2 * day

\* IsExpiredOn: by the day, whatever the hour.
IsExpiredOn(end, instant) == end < DayOf(instant)

EffectiveStatus(r) ==
    IF regs[r].status = "cancelled" THEN "cancelled"
    ELSE IF IsExpiredOn(regs[r].form.end, now) THEN "expired"
    ELSE regs[r].status

-----------------------------------------------------------------------------
(* Clerks *)

\* The unique index on reg_no.
FreeRegNo(no, except) == \A r \in DOMAIN regs \ except : regs[r].form.no # no

CreateReg(f) ==
    /\ ValidReg(f)
    /\ Len(regs) < MaxRegs
    /\ FreeRegNo(f.no, {})
    /\ regs' = Append(regs, [status |-> "valid", form |-> f])
    /\ UNCHANGED <<updating, reader, now, changes>>

Updatable_Existing(r) == TRUE
Updatable(r) == regs[r].status # "cancelled"

\* CollateralService.Update: the read.
ReadForUpdate(k, r, f) ==
    /\ updating[k].at = "idle"
    /\ ValidReg(f)
    /\ Updatable(r)
    /\ updating' = [updating EXCEPT ![k] = [at |-> "read", reg |-> r, form |-> f,
                                            cancelled |-> FALSE]]
    /\ UNCHANGED <<regs, reader, now, changes>>

\* A reader is told of an update by its rows changing places.
Shuffled == IF reader.at = "idle" THEN reader ELSE [reader EXCEPT !.shuffled = TRUE]

\* CollateralRepository.Update: everything but the status; nothing if the number is taken.
UpdateReg(k) ==
    LET u == updating[k] IN
    /\ u.at = "read"
    /\ changes < MaxChanges
    /\ IF FreeRegNo(u.form.no, {u.reg})
       THEN regs' = [regs EXCEPT ![u.reg].form = u.form] /\ reader' = Shuffled
       ELSE UNCHANGED <<regs, reader>>
    /\ updating' = [updating EXCEPT ![k] = NoUpdate]
    /\ changes' = changes + 1
    /\ UNCHANGED now

\* Cancel; a second time changes nothing.
CancelReg(r) ==
    /\ changes < MaxChanges
    /\ regs[r].status # "cancelled"
    /\ regs' = [regs EXCEPT ![r].status = "cancelled"]
    /\ updating' = [k \in Clerks |-> IF updating[k].at = "read" /\ updating[k].reg = r
                                     THEN [updating[k] EXCEPT !.cancelled = TRUE] ELSE updating[k]]
    /\ changes' = changes + 1
    /\ UNCHANGED <<reader, now>>

TimePasses ==
    /\ now < MaxNow
    /\ now' = now + 1
    /\ UNCHANGED <<regs, updating, reader, changes>>

-----------------------------------------------------------------------------
(* Readers *)

\* CollateralQuery.Normalize.
PageSize ==
    LET size == IF RawPageSize <= 0 THEN DefaultPageSize ELSE RawPageSize
    IN  IF size > MaxPageSize THEN MaxPageSize ELSE size

Offset(page) == (page - 1) * PageSize

RowsOf(lessee) == {r \in DOMAIN regs : regs[r].form.lessee = lessee}

\* ORDER BY reg_start_date DESC, id DESC.
RowBefore(a, b) ==
    \/ regs[a].form.start > regs[b].form.start
    \/ regs[a].form.start = regs[b].form.start /\ a > b

RowPlace(lessee, r) == 1 + Cardinality({a \in RowsOf(lessee) : RowBefore(a, r)})

PageOf(lessee, page) ==
    {r \in RowsOf(lessee) : RowPlace(lessee, r) \in (Offset(page) + 1)..(Offset(page) + PageSize)}

BeginReading(lessee) ==
    /\ reader.at = "idle"
    /\ reader' = [at |-> "page", lessee |-> lessee, next |-> 1, seen |-> {}, shuffled |-> FALSE,
                  from |-> RowsOf(lessee)]
    /\ UNCHANGED <<regs, updating, now, changes>>

\* Query; an empty page is the last.
ReadPage ==
    /\ reader.at = "page"
    /\ LET rows == PageOf(reader.lessee, reader.next) IN
         reader' = IF rows = {} THEN [reader EXCEPT !.at = "done"]
                   ELSE [reader EXCEPT !.next = @ + 1, !.seen = @ \cup rows]
    /\ UNCHANGED <<regs, updating, now, changes>>

StopReading ==
    /\ reader.at = "done"
    /\ reader' = NoReader
    /\ UNCHANGED <<regs, updating, now, changes>>

-----------------------------------------------------------------------------

CollateralInit ==
    /\ regs = <<>>
    /\ updating = [k \in Clerks |-> NoUpdate]
    /\ reader = NoReader
    /\ now = 0
    /\ changes = 0

ClerkStep ==
    \/ \E f \in RegForms : CreateReg(f)
    \/ \E k \in Clerks, r \in DOMAIN regs, f \in RegForms : ReadForUpdate(k, r, f)
    \/ \E k \in Clerks : UpdateReg(k)
    \/ \E r \in DOMAIN regs : CancelReg(r)

ReaderStep ==
    \/ \E f \in RegForms : BeginReading(f.lessee)
    \/ ReadPage
    \/ StopReading

CollateralNext == ClerkStep \/ ReaderStep \/ TimePasses

CollateralSpec == CollateralInit /\ [][CollateralNext]_collateralVars

-----------------------------------------------------------------------------
(* What must hold *)

\* A cancelled registration stays cancelled, and what it says changes only by an update
\* that had read the row before it was cancelled (CollateralService.Update).
CancelledIsKept ==
    [][\A r \in DOMAIN regs : regs[r].status = "cancelled" =>
         /\ regs'[r].status = "cancelled"
         /\ regs'[r].form # regs[r].form =>
              \E k \in Clerks : updating[k].at = "read" /\ updating[k].reg = r
                                /\ updating[k].cancelled]_collateralVars

\* Whoever turns the pages to the end has seen every registration that was there when
\* they began: new ones push rows to a later page, never to an earlier one.  Only an
\* update may move a row the reader has not come to behind their back.
ReadersMissNothing ==
    (reader.at = "done" /\ ~reader.shuffled) => reader.from \subseteq reader.seen

\* A registration is in force through the last half of its last day, and shown as valid
\* on no later day (EffectiveStatus).
InForceThroughLastDay ==
    \A r \in DOMAIN regs : regs[r].status = "valid" =>
        (EffectiveStatus(r) = "valid" <=> now < MidnightOf(regs[r].form.end + 1))

\* Together, what a lender relies on: who pages through the registrations misses none, one is
\* in force through its last day, and one that was cancelled stays as it was.
RegistrationsAreReliable == [](ReadersMissNothing /\ InForceThroughLastDay) /\ CancelledIsKept

=============================================================================
