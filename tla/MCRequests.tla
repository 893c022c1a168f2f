----------------------------- MODULE MCRequests -----------------------------
(***************************************************************************)
(* Six components that share no state: sendMail(), a batch request, the    *)
(* retries around a request for a destination, the cached certificate, the *)
(* lists of all destinations, and CSRF tokens for a shared configuration.  *)
(* Their product would only interleave steps that do not see each other,   *)
(* so a behaviour runs one of them and the others rest where they started. *)
(*                                                                         *)
(* Four mails with all combinations of options; batches with reads before, *)
(* between and after change sets of one or two writes, with empty change   *)
(* sets in each place, and nothing at all; two agents, one registration;   *)
(* two calls for all destinations; three executions with one configuration.*)
(***************************************************************************)
EXTENDS MailClient

CONSTANTS Undefined, NaN,
          a, b, Keys, Batches, Multiline, Metadata,
          Retries,
          Agents, Registrations, Lifetime, MaxTime,
          Calls, Tenants, Provider, ListMaxTime,
          Executions

VARIABLES running  \* the component that runs

VARIABLES requests, batchPc, payload, store, log, batchResponse, result

VARIABLES retryPc, retryCount, answers, outcome

VARIABLES now, cert, key, useMtlsCache, cache, mtlsPc, read, mtlsOptions

VARIABLES listNow, listCache, listPc, opts, account, pending, lists

VARIABLES config, middleware, csrfPc, left, token, csrfAnswers

batchVars == <<requests, batchPc, payload, store, log, batchResponse, result>>
retryVars == <<retryPc, retryCount, answers, outcome>>
mtlsVars == <<now, cert, key, useMtlsCache, cache, mtlsPc, read, mtlsOptions>>
listVars == <<listNow, listCache, listPc, opts, account, pending, lists>>
csrfVars == <<config, middleware, csrfPc, left, token, csrfAnswers>>

MCOptions == Options

Get(k) == [kind |-> "get", key |-> k]
ChangeSet(keys) == [kind |-> "changeSet", writes |-> keys]
Put == { <<>>, <<a>>, <<a, b>> }

MCBatches ==
  { <<>>, <<ChangeSet(<<>>)>>,
    <<Get(a), ChangeSet(<<>>), Get(b)>>,
    <<ChangeSet(<<>>), ChangeSet(<<a, b>>), Get(b)>> }
  \cup { <<ChangeSet(v), Get(a), ChangeSet(w), Get(a)>> : v \in Put, w \in Put }

Batch == INSTANCE Batch WITH
  pc <- batchPc, response <- batchResponse

Retry == INSTANCE RetryDestination WITH pc <- retryPc

Mtls == INSTANCE MtlsCache WITH pc <- mtlsPc, options <- mtlsOptions

Lists == INSTANCE AllDestinations WITH
  now <- listNow, cache <- listCache, pc <- listPc,
  OptionSets <- [subscriber : Tenants \cup {Undefined}, useCache : BOOLEAN], MaxTime <- ListMaxTime

Csrf == INSTANCE CsrfToken WITH
  pc <- csrfPc, answers <- csrfAnswers, Configs <- [get : BOOLEAN, token : BOOLEAN]

ASSUME CacheConstants == Undefined \notin Nat /\ NaN \notin Nat /\ Undefined # NaN
ASSUME BatchConstants == Batch!BatchAssumption
ASSUME RetryConstants == Retry!RetryAssumption
ASSUME MtlsConstants == Mtls!MtlsAssumption
ASSUME ListsConstants == Lists!AllDestinationsAssumption
ASSUME CsrfConstants == Csrf!CsrfAssumption

MCInit ==
  /\ running \in {"mail", "batch", "retry", "mtls", "lists", "csrf"}
  /\ Init /\ Batch!Init /\ Retry!Init /\ Mtls!Init /\ Lists!Init /\ Csrf!Init
  /\ running # "mail" => options = [onPremise |-> FALSE, parallel |-> "undefined"]
  /\ running # "batch" => requests = <<>>
  /\ running # "csrf" => config = [get |-> TRUE, token |-> FALSE]

MCNext ==
  /\ UNCHANGED running
  /\ \/ /\ running = "mail" /\ Next
        /\ UNCHANGED <<batchVars, retryVars, mtlsVars, listVars, csrfVars>>
     \/ /\ running = "batch" /\ Batch!Next
        /\ UNCHANGED <<vars, retryVars, mtlsVars, listVars, csrfVars>>
     \/ /\ running = "retry" /\ Retry!Next
        /\ UNCHANGED <<vars, batchVars, mtlsVars, listVars, csrfVars>>
     \/ /\ running = "mtls" /\ Mtls!Next
        /\ UNCHANGED <<vars, batchVars, retryVars, listVars, csrfVars>>
     \/ /\ running = "lists" /\ Lists!Next
        /\ UNCHANGED <<vars, batchVars, retryVars, mtlsVars, csrfVars>>
     \/ /\ running = "csrf" /\ Csrf!Next
        /\ UNCHANGED <<vars, batchVars, retryVars, mtlsVars, listVars>>

MCVars == <<running, vars, batchVars, retryVars, mtlsVars, listVars, csrfVars>>

\* Only the mail client needs fairness; the other components promise safety.
MCSpec == MCInit /\ [][MCNext]_MCVars /\ (running = "mail" => Fairness)

\* The data of all six components have their types.
AllTypes == TypeOK /\ Batch!TypeOK /\ Retry!TypeOK /\ Mtls!TypeOK /\ Lists!TypeOK /\ Csrf!TypeOK

\* Batch: the answer at each position is the whole answer to that subrequest.
ResultMatchesRequest == Batch!ResultMatchesRequest

\* Batch: a read sees the writes of the change sets before it.
ReadsSeeEarlierWrites == Batch!ReadsSeeEarlierWrites

\* Retries: a broken destination is accepted at the third of them only.
BrokenOnlyAtThird == Retry!BrokenOnlyAtThird

\* Destination lists: both lists of a result are of one account and recent.
ListsOfOneAccount == Lists!ListsOfOneAccount

\* CSRF tokens: no execution asks for a token when it has one.
OneTokenPerRequest == Csrf!OneTokenPerRequest

\* Mail: every call and every mail under way comes to an end.
MailSettles == running = "mail" => Settles
=============================================================================
