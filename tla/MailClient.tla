----------------------------- MODULE MailClient -----------------------------
(***************************************************************************)
(* sendMail() of mail-client.ts: the destination is resolved, for an       *)
(* OnPremise one a SOCKS connection is opened, a transport is created and  *)
(* the mails are handed to it one after the other or all at once.  The     *)
(* mail server answers each mail whenever it likes, or refuses it.         *)
(***************************************************************************)
EXTENDS Naturals

CONSTANTS N,          \* number of mails (MailConfig[])
          OptionSets  \* combinations of options, a subset of Options

VARIABLES options,    \* what the call was made with
          pc,         \* where the call stands
          socket,     \* the SOCKS connection
          transport,  \* the transport of nodemailer
          mail,       \* progress of each mail
          response    \* the array of MailResponse: by position, the mail answered

vars == <<options, pc, socket, transport, mail, response>>

Mails == 1..N
NoResponse == 0

\* `parallel' is undefined unless the application sets it in sdkOptions.
Options == [onPremise : BOOLEAN, parallel : {"true", "false", "undefined"}]

ASSUME MailAssumption == N \in Nat /\ OptionSets \subseteq Options

-----------------------------------------------------------------------------

IsMailSentInSequential == options.parallel = "false"

\* createTransport(), and the mails that are handed to it at once.
OpenTransport ==
  /\ transport' = "open"
  /\ pc' = "sending"
  /\ mail' = [i \in Mails |-> IF IsMailSentInSequential /\ i # 1 THEN "new" ELSE "sending"]

Teardown ==
  /\ transport' = "closed"
  /\ socket' = IF socket = "open" THEN "closed" ELSE socket

\* Mutant: answers are collected in the order of their arrival.
RecordOnArrival(i) ==
  response' = [response EXCEPT ![CHOOSE j \in Mails :
                 /\ response[j] = NoResponse
                 /\ \A k \in Mails : k < j => response[k] # NoResponse] = i]

\* Mutant: the positions are shifted by one.
RecordShifted(i) == response' = [response EXCEPT ![i] = i + 1]

\* Both strategies put the answer at the position of its mail.
Record(i) == response' = [response EXCEPT ![i] = i]

\* Mutant: the next mail is sent whatever became of this one.
HandOverAlways(i, status) ==
  mail' = [mail EXCEPT ![i] = status,
                       ![IF i < N /\ mail[i + 1] = "new" THEN i + 1 ELSE i] =
                         IF i < N /\ mail[i + 1] = "new" THEN "sending" ELSE status]

\* Mutant: the answer to a mail does not send the next one.
HandOverNothing(i, status) == mail' = [mail EXCEPT ![i] = status]

\* In the sequential loop the answer to one mail is what sends the next one.
HandOver(i, status) ==
  mail' = [j \in Mails |-> IF j = i THEN status
                           ELSE IF j = i + 1 /\ status = "sent" /\ mail[j] = "new" THEN "sending"
                           ELSE mail[j]]

\* Mutant: only the answer to the last mail is awaited.
LastSent == response[N] = N

AllSent == \A i \in Mails : mail[i] = "sent"

-----------------------------------------------------------------------------
(* Actions                                                                 *)

Init ==
  /\ options \in OptionSets
  /\ pc = "start"
  /\ socket = "none"
  /\ transport = "none"
  /\ mail = [i \in Mails |-> "new"]
  /\ response = [i \in Mails |-> NoResponse]

\* The destination is resolved and complete; a socket is needed OnPremise.
Resolve ==
  /\ pc = "start"
  /\ IF options.onPremise
       THEN pc' = "connecting" /\ UNCHANGED <<transport, mail>>
       ELSE OpenTransport
  /\ UNCHANGED <<options, socket, response>>

\* There is no such destination, its type is not MAIL, or a property is missing.
ResolveFails ==
  /\ pc = "start"
  /\ pc' = "rejected"
  /\ UNCHANGED <<options, socket, transport, mail, response>>

Connect ==
  /\ pc = "connecting"
  /\ socket' = "open"
  /\ OpenTransport
  /\ UNCHANGED <<options, response>>

ConnectFails ==
  /\ pc = "connecting"
  /\ pc' = "rejected"
  /\ UNCHANGED <<options, socket, transport, mail, response>>

\* The server has accepted a mail.
Accept(i) ==
  /\ mail[i] = "sending"
  /\ HandOver(i, "sent")
  /\ Record(i)
  /\ UNCHANGED <<options, pc, socket, transport>>

\* The server refuses a mail or the connection breaks: the first refusal
\* rejects the call, past the line that closes the connections.
Refuse(i) ==
  /\ mail[i] = "sending"
  /\ HandOver(i, "failed")
  /\ pc' = "rejected"
  /\ UNCHANGED <<options, socket, transport, response>>

\* All mails are answered: teardown() and return.
Finish ==
  /\ pc = "sending"
  /\ AllSent
  /\ Teardown
  /\ pc' = "resolved"
  /\ UNCHANGED <<options, mail, response>>

Next ==
  \/ Resolve
  \/ ResolveFails
  \/ Connect
  \/ ConnectFails
  \/ \E i \in Mails : Accept(i) \/ Refuse(i)
  \/ Finish

Spec == Init /\ [][Next]_vars

\* Each await ends: destination lookup, SOCKS client and nodemailer time out.
Fairness ==
  /\ WF_vars(Resolve \/ ResolveFails)
  /\ WF_vars(Connect \/ ConnectFails)
  /\ \A i \in Mails : WF_vars(Accept(i) \/ Refuse(i))
  /\ WF_vars(Finish)

FairSpec == Spec /\ Fairness

-----------------------------------------------------------------------------
(* Properties                                                              *)

TypeOK ==
  /\ options \in OptionSets
  /\ pc \in {"start", "connecting", "sending", "resolved", "rejected"}
  /\ socket \in {"none", "open", "closed"}
  /\ transport \in {"none", "open", "closed"}
  /\ mail \in [Mails -> {"new", "sending", "sent", "failed"}]
  /\ response \in [Mails -> Mails \cup {NoResponse}]

\* A resolved call has sent every mail, answers with the response to each at
\* the mail's own position, however late or early that arrived, and leaves
\* neither the transport nor a socket open.
ResolvedMeansSent ==
  pc = "resolved" =>
    /\ \A i \in Mails : mail[i] = "sent" /\ response[i] = i
    /\ transport = "closed" /\ socket # "open"

\* With `parallel: false' a mail is handed over only after all mails before it
\* were accepted; after a refusal none of the following is ever sent.
SequentialStopsAtFailure ==
  options.parallel = "false" =>
    \A i, j \in Mails : i < j /\ mail[j] # "new" => mail[i] = "sent"

\* The transport is open for as long as a mail is under way.
OpenWhileSending ==
  (\E i \in Mails : mail[i] = "sending") =>
    transport = "open" /\ (options.onPremise => socket = "open")

\* Every call settles, and so does every mail that was handed over.
Settles ==
  /\ <>(pc \in {"resolved", "rejected"})
  /\ \A i \in Mails : mail[i] = "sending" ~> mail[i] \in {"sent", "failed"}
=============================================================================
