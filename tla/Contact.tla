------------------------------ MODULE Contact ------------------------------
(***************************************************************************)
(* The website's two forms (features/contact): the waitlist and the        *)
(* message to the team, each a server action that calls the mail service.  *)
(* Several visitors submit at once, also with one address; any call of the *)
(* service may be refused, and its answer may be lost after it took        *)
(* effect.                                                                 *)
(***************************************************************************)
EXTENDS Naturals, FiniteSets, Absent

CONSTANTS
  Waitlist,    \* the waitlist forms visitors have open
  Message,     \* the contact forms
  Address,
  Elsewhere,   \* the addresses that are contacts of the mail account, but not of the waitlist
  MaxSubmits   \* bound: submissions

Form == Waitlist \cup Message

\* What is submitted: None is an address the schema refuses; bot, a filled honeypot.
Input == [email: Address \cup {None}, bot: BOOLEAN]

\* What an action is at, and on which input.
Submitted == [at: {"get", "create", "confirm", "send"}, input: Input]

ASSUME ContactAssumption ==
  /\ Elsewhere \subseteq Address
  /\ Waitlist \cap Message = {} /\ None \notin Address \cup Submitted /\ MaxSubmits \in Nat

VARIABLES
  mailEnv,     \* readMailEnv: is the key set, and the segment
  form,        \* useSubmission's state
  action,      \* the server action a form awaits
  listed,      \* the contacts of the waitlist's segment
  confirmed,   \* how many confirmations were accepted for each address
  delivered,   \* the forms whose message to the team was accepted
  faulty,      \* history: the addresses a call was refused or lost for
  raced,       \* history: the addresses two actions were adding at once
  submits

contactVars == <<mailEnv, form, action, listed, confirmed, delivered, faulty, raced, submits>>

Idle == [status |-> "idle", email |-> None, bot |-> FALSE]

ContactInit ==
  /\ mailEnv \in [key: BOOLEAN, segment: BOOLEAN]
  /\ form = [f \in Form |-> Idle] /\ action = [f \in Form |-> None]
  /\ listed = {} /\ confirmed = [a \in Address |-> 0] /\ delivered = {}
  /\ faulty = {} /\ raced = {} /\ submits = 0
-----------------------------------------------------------------------------
State(status, input) == [status |-> status, email |-> input.email, bot |-> input.bot]

\* The action ends and useActionState shows what it returned.
Returned(f, status, input) ==
  /\ form' = [form EXCEPT ![f] = State(status, input)] /\ action' = [action EXCEPT ![f] = None]

Service == <<listed, confirmed, delivered, faulty, raced>>

validate_any(input) == TRUE
validate(input) == input.email # None

Configured(f) == mailEnv.key /\ (f \in Waitlist => mailEnv.segment)

FirstCall(f) == IF f \in Waitlist THEN "get" ELSE "send"

\* A pending form's button is disabled; a sent form is replaced by a panel.
Pending(f) == action[f] # None
FormShown(f) == form[f].status # "sent"

isBot(input) == input.bot

\* submit and submitWaitlist up to their first call.
submit(f, input) ==
  /\ ~Pending(f) /\ FormShown(f) /\ submits < MaxSubmits
  /\ submits' = submits + 1
  /\ \/ ~validate(input) /\ Returned(f, "invalid", input)
     \/ validate(input) /\ isBot(input) /\ Returned(f, "sent", input)
     \/ validate(input) /\ ~isBot(input) /\ ~Configured(f) /\ Returned(f, "failed", input)
     \/ /\ validate(input) /\ ~isBot(input) /\ Configured(f)
        /\ action' = [action EXCEPT ![f] = [at |-> FirstCall(f), input |-> input]]
        /\ UNCHANGED form
  /\ UNCHANGED <<mailEnv, Service>>

Calling(f, at) == action[f] # None /\ action[f].at = at
Email(f) == action[f].input.email
Fault(f) == faulty' = faulty \cup {Email(f)}

\* contacts.get: the contact, not_found, or an error.  It asks the account, whatever
\* segment the contact is of, and any contact is answered as one already on the waitlist.
getListed(f) ==
  /\ Calling(f, "get") /\ Email(f) \in listed \cup Elsewhere
  /\ Returned(f, "invalid", action[f].input)
  /\ UNCHANGED <<mailEnv, Service, submits>>

Adding(a) == {f \in Form : action[f] # None /\ action[f].at = "create" /\ Email(f) = a}

CreateNext(f) ==
  /\ action' = [action EXCEPT ![f].at = "create"]
  /\ raced' = IF Adding(Email(f)) # {} THEN raced \cup {Email(f)} ELSE raced
  /\ UNCHANGED form

getNotFound(f) ==
  /\ Calling(f, "get") /\ Email(f) \notin listed \cup Elsewhere
  /\ CreateNext(f)
  /\ UNCHANGED <<mailEnv, listed, confirmed, delivered, faulty, submits>>

\* Any other error ends the action.
AfterLookupError_create(f) == CreateNext(f)
AfterLookupError(f) == Returned(f, "failed", action[f].input) /\ UNCHANGED raced

getFails(f) ==
  /\ Calling(f, "get") /\ Fault(f) /\ AfterLookupError(f)
  /\ UNCHANGED <<mailEnv, listed, confirmed, delivered, submits>>

\* contacts.create.  A contact that is there already is either refused or left as it is.
AfterCreate_done(f) == Returned(f, "sent", action[f].input)
AfterCreate(f) == action' = [action EXCEPT ![f].at = "confirm"] /\ UNCHANGED form

createAdded(f) ==
  /\ Calling(f, "create") /\ listed' = listed \cup {Email(f)} /\ AfterCreate(f)
  /\ UNCHANGED <<mailEnv, confirmed, delivered, faulty, raced, submits>>

AfterCreateError_sent(f) == Returned(f, "sent", action[f].input)
AfterCreateError(f) == Returned(f, "failed", action[f].input)

createFails(f) ==
  /\ Calling(f, "create") /\ Fault(f) /\ AfterCreateError(f)
  /\ listed' \in {listed, listed \cup {Email(f)}}
  /\ UNCHANGED <<mailEnv, confirmed, delivered, raced, submits>>

\* The confirmation.  Whatever comes of it, the address is listed and the form says sent.
confirm(f) ==
  /\ Calling(f, "confirm") /\ Returned(f, "sent", action[f].input)
  /\ \/ confirmed' = [confirmed EXCEPT ![Email(f)] = @ + 1] /\ UNCHANGED faulty
     \/ Fault(f) /\ confirmed' \in {confirmed, [confirmed EXCEPT ![Email(f)] = @ + 1]}
  /\ UNCHANGED <<mailEnv, listed, delivered, raced, submits>>

\* deliver: the message to the team.
deliver(f) ==
  /\ Calling(f, "send")
  /\ \/ Returned(f, "sent", action[f].input) /\ delivered' = delivered \cup {f} /\ UNCHANGED faulty
     \/ /\ Returned(f, "failed", action[f].input) /\ Fault(f)
        /\ delivered' \in {delivered, delivered \cup {f}}
  /\ UNCHANGED <<mailEnv, listed, confirmed, raced, submits>>
-----------------------------------------------------------------------------
ContactNext ==
  \E f \in Form :
    \/ \E input \in Input : submit(f, input)
    \/ getListed(f) \/ getNotFound(f) \/ getFails(f)
    \/ createAdded(f) \/ createFails(f) \/ confirm(f) \/ deliver(f)

ContactSpec == ContactInit /\ [][ContactNext]_contactVars
-----------------------------------------------------------------------------
ContactTypeOK ==
  /\ \A f \in Form : form[f].status \in {"idle", "invalid", "failed", "sent"}
  /\ \A f \in Form : action[f] # None => action[f].input.email \in Address /\ Configured(f)
  /\ listed \subseteq Address /\ delivered \subseteq Message
  /\ confirmed \in [Address -> 0..MaxSubmits]

\* A form that says sent to a person is right: the address is on the list, or the message
\* was accepted, also after earlier attempts that failed.
SentIsStored ==
  \A f \in Form :
    form[f].status = "sent" /\ ~form[f].bot =>
      IF f \in Waitlist THEN form[f].email \in listed ELSE f \in delivered

\* The lookup and the creation are two calls, yet nobody is written to twice unless two
\* submissions of the address overlapped.
ConfirmedTwiceOnlyIfRaced == \A a \in Address : confirmed[a] > 1 => a \in raced

\* Nobody is on the list without a confirmation, unless a call for the address failed or
\* an action is about to send it: a retry after a lost answer is told that it is listed.
UnconfirmedOnlyIfFault ==
  \A a \in listed :
    confirmed[a] = 0 => a \in faulty \/ \E f \in Waitlist : Calling(f, "confirm") /\ Email(f) = a
=============================================================================
