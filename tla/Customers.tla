------------------------------ MODULE Customers -----------------------------
(***************************************************************************)
(* What a customer has agreed to be sent.  A booking form proves nothing   *)
(* of who filled it in: it is kept with its attempt, and changes the       *)
(* customer only when that attempt is paid for.  A ticked box is then a    *)
(* request, and offers wait until the owner of the address has pressed the *)
(* link in the booking's email.  Withdrawing outranks both.                *)
(***************************************************************************)
EXTENDS CareTables

VARIABLES
    forms,      \* boxes of the booking forms in the customer's name not paid for
    another,    \* another booking paid for in the customer's name, and for what
    links       \* the links the address has been sent

formVars == <<forms, another>>

\* decideSend, of marketing.
DecideSend(c) == ~c.unsubscribed /\ c.consents /\ c.confirmed

\* confirmEmailsUrlFor
ConfirmOffered(c) == c.consents /\ ~c.confirmed /\ ~c.unsubscribed

\* The links an email carries, as its context was read.
LinksIn(t, c) ==
    CASE t = "booking_confirmation" /\ ConfirmOffered(c) -> {"confirm"}
      [] t \in Marketing                                 -> {"unsubscribe"}
      [] OTHER                                           -> {}

\* captureLead: whoever fills it in, an existing customer is left as it was.
CaptureLead(box) ==
    /\ Here("forms")
    /\ forms' = forms \cup {box}
    /\ UNCHANGED <<customer, another, links>>

\* promoteIntakeToCustomer: the form is paid for, with the box as it was ticked then.
\* Consent goes from no to yes, never back.
PromoteIntake(box) ==
    /\ box \in forms
    /\ forms' = forms \ {box}
    /\ customer' = [customer EXCEPT !.consents = @ \/ box]
    /\ another' \in {"same", "further"}
    /\ UNCHANGED links

\* The other booking's confirmation is emailed.
AnotherIsConfirmed ==
    /\ another # "none"
    /\ links' = links \cup LinksIn("booking_confirmation", customer)
    /\ UNCHANGED <<customer, formVars>>

\* confirmMarketingConsent: only a request still standing, once.
ConfirmMarketing ==
    /\ "confirm" \in links /\ ConfirmOffered(customer)
    /\ customer' = [customer EXCEPT !.confirmed = TRUE]
    /\ UNCHANGED <<formVars, links>>

\* unsubscribeCustomer
Unsubscribe ==
    /\ "unsubscribe" \in links
    /\ customer' = [customer EXCEPT !.unsubscribed = TRUE]
    /\ UNCHANGED <<formVars, links>>

CustomersInit == forms = {} /\ another = "none" /\ links = {}

CustomerChanges ==
    \/ \E box \in BOOLEAN : CaptureLead(box) \/ PromoteIntake(box)
    \/ AnotherIsConfirmed \/ ConfirmMarketing \/ Unsubscribe
=============================================================================
