------------------------------ MODULE Tickets -------------------------------
(***************************************************************************)
(* Support tickets (internal/ticket).  A buyer opens a ticket about an     *)
(* order, buyer and operator write messages, the operator accepts and      *)
(* resolves it, either may close it.                                       *)
(*                                                                         *)
(* Every handler but Create reads the ticket, decides by the status it     *)
(* read, and writes in a second statement: a compare-and-swap for a change *)
(* of status, a plain insert for a message.  Requests of buyer and         *)
(* operator interleave between the two.                                    *)
(***************************************************************************)
EXTENDS Numbering, Sequences, FiniteSets

CONSTANTS
    Callers,        \* requests under way
    MaxTickets,     \* bound: tickets
    MaxMessages,    \* bound: messages of all tickets
    MaxDays         \* bound: days

VARIABLES
    tickets,        \* tickets, in the order of their ids
    messages,       \* ticket_messages, in the order of their ids
    call,           \* the request of every caller: what it wants, of which ticket, and what it read
    told,           \* notices to buyers: <<ticket, status>>
    refused,        \* days on which the unique key on ticket_no has refused a ticket
    day             \* the day of the number

ticketVars == <<tickets, messages, call, told, refused, day>>

TicketStatus == {"pending", "processing", "resolved", "closed"}

Ticket == [status : TicketStatus, day : Nat, no : Nat]
Message == [ticket : Nat, sender : {"buyer", "operator"}]

\* What a request wants: to append a message, or to move the ticket.
Wishes == {[by |-> "buyer", to |-> "message"], [by |-> "operator", to |-> "message"],
           [by |-> "buyer", to |-> "closed"]}
          \cup {[by |-> "operator", to |-> s] : s \in TicketStatus \ {"pending"}}

NoCall == [at |-> "idle"]

-----------------------------------------------------------------------------
(* Decisions *)

CanAppendMessage(status) == status \in {"pending", "processing"}

CanTransition(from, to) ==
    \/ from = "pending" /\ to \in {"processing", "closed"}
    \/ from = "processing" /\ to \in {"resolved", "closed"}
    \/ from = "resolved" /\ to = "closed"

\* The check each handler makes on the status it has read.

Permitted(wish, status) ==
    \/ wish = [by |-> "buyer", to |-> "message"] /\ CanAppendMessage(status)
    \/ wish = [by |-> "operator", to |-> "message"] /\ status = "processing"
    \/ wish = [by |-> "buyer", to |-> "closed"] /\ status # "closed"
    \/ wish.by = "operator" /\ wish.to # "message" /\ CanTransition(status, wish.to)

\* TransitionTicket: whether the UPDATE finds its row, WHERE id = ? AND status = ?.
Swapped_ById(t, from) == TRUE
Swapped(t, from) == tickets[t].status = from

\* The operator's moves are told to the buyer when they were made.
Announced(wish, ok) == wish.by = "operator" /\ ok

NumbersOf(d) == {tickets[t].no : t \in {u \in DOMAIN tickets : tickets[u].day = d}}

-----------------------------------------------------------------------------
(* Operations *)

\* Create: number, ticket and first message in one transaction.  The read of the
\* largest number locks the day's numbers until the commit.
CreateTicket ==
    LET no == NextNumber(NumbersOf(day)) IN
    /\ IF no \in NumbersOf(day)
       THEN /\ refused' = refused \cup {day}
            /\ UNCHANGED <<tickets, messages>>
       ELSE /\ Len(tickets) < MaxTickets /\ Len(messages) < MaxMessages
            /\ tickets' = Append(tickets, [status |-> "pending", day |-> day, no |-> no])
            /\ messages' = Append(messages, [ticket |-> Len(tickets) + 1, sender |-> "buyer"])
            /\ UNCHANGED refused
    /\ UNCHANGED <<call, told, day>>

\* GetTicketByNo or GetTicketByID, and the check on the status.
ReadTicket(r, t, wish) ==
    /\ call[r].at = "idle"
    /\ t \in DOMAIN tickets
    /\ Permitted(wish, tickets[t].status)
    /\ call' = [call EXCEPT ![r] = [at |-> "read", ticket |-> t, wish |-> wish,
                                    seen |-> tickets[t].status]]
    /\ UNCHANGED <<tickets, messages, told, refused, day>>

\* AppendBuyerMessage, AdminAppendMessage: the insert.
AppendMessage(r) ==
    LET c == call[r] IN
    /\ c.at = "read"
    /\ c.wish.to = "message"
    /\ Len(messages) < MaxMessages
    /\ messages' = Append(messages, [ticket |-> c.ticket, sender |-> c.wish.by])
    /\ call' = [call EXCEPT ![r] = NoCall]
    /\ UNCHANGED <<tickets, told, refused, day>>

\* Close, AdminTransition: the compare-and-swap, and what comes after it.
MoveTicket(r) ==
    LET c == call[r]
        ok == Swapped(c.ticket, c.seen) IN
    /\ c.at = "read"
    /\ c.wish.to # "message"
    /\ tickets' = IF ok THEN [tickets EXCEPT ![c.ticket].status = c.wish.to] ELSE tickets
    /\ call' = [call EXCEPT ![r] = IF Announced(c.wish, ok)
                                   THEN [at |-> "notice", ticket |-> c.ticket, wish |-> c.wish]
                                   ELSE NoCall]
    /\ UNCHANGED <<messages, told, refused, day>>

\* notify: the notice is a statement of its own, and its failure is only logged.
NotifyBuyer(r, written) ==
    LET c == call[r] IN
    /\ c.at = "notice"
    /\ told' = IF written THEN told \cup {<<c.ticket, c.wish.to>>} ELSE told
    /\ call' = [call EXCEPT ![r] = NoCall]
    /\ UNCHANGED <<tickets, messages, refused, day>>

NewDay ==
    /\ day < MaxDays
    /\ day' = day + 1
    /\ UNCHANGED <<tickets, messages, call, told, refused>>

-----------------------------------------------------------------------------

TicketsInit ==
    /\ tickets = <<>>
    /\ messages = <<>>
    /\ call = [r \in Callers |-> NoCall]
    /\ told = {}
    /\ refused = {}
    /\ day = 1

TicketsNext ==
    \/ CreateTicket
    \/ \E r \in Callers, t \in 1..MaxTickets, wish \in Wishes : ReadTicket(r, t, wish)
    \/ \E r \in Callers : AppendMessage(r) \/ MoveTicket(r)
    \/ \E r \in Callers, written \in BOOLEAN : NotifyBuyer(r, written)
    \/ NewDay

TicketsSpec == TicketsInit /\ [][TicketsNext]_ticketVars

-----------------------------------------------------------------------------
(* What must hold *)

TicketsTypeOK ==
    /\ tickets \in Seq(Ticket)
    /\ messages \in Seq(Message)
    /\ told \subseteq (DOMAIN tickets) \X TicketStatus

\* However requests of buyer and operator interleave, a ticket only takes the steps
\* of CanTransition: one that was closed meanwhile is not accepted or resolved again.
TicketsMoveForward ==
    [][\A t \in DOMAIN tickets :
         tickets'[t].status # tickets[t].status =>
             CanTransition(tickets[t].status, tickets'[t].status)]_ticketVars

\* The operator answers only tickets that have been accepted, at whatever moment the
\* answer arrives (AdminAppendMessage).
AnsweredWasAccepted ==
    [][\A i \in DOMAIN messages' \ DOMAIN messages :
         messages'[i].sender = "operator" =>
             tickets[messages'[i].ticket].status # "pending"]_ticketVars

\* The buyer is told of a status only if the ticket has come that far, though the
\* notice is written after another request may have moved the ticket on.
NoticesAreTrue ==
    \A n \in told :
        \/ tickets[n[1]].status = n[2]
        \/ n[2] = "processing" /\ tickets[n[1]].status \in {"resolved", "closed"}
        \/ n[2] = "resolved" /\ tickets[n[1]].status = "closed"

\* A ticket is refused for its number only when the day has used up its digits.
TicketsGetNumbers ==
    \A d \in refused : Limit \in NumbersOf(d)

\* Together, what makes the tickets true: each is numbered whoever else opens one, they only
\* move forward, what was answered was accepted, and a notice tells of what happened.
TicketsAreTrue ==
    [](NoticesAreTrue /\ TicketsGetNumbers) /\ TicketsMoveForward /\ AnsweredWasAccepted

=============================================================================
