----------------------------- MODULE EntityUpdate -----------------------------
(***************************************************************************)
(* Updates of an OData entity: entity objects keep the last known remote   *)
(* state and a version identifier (ETag); UpdateRequestBuilder sends what  *)
(* differs from the remote state, with the identifier in `if-match', and   *)
(* refreshes both when the service has accepted the update.                *)
(*                                                                         *)
(* All entity objects stand for one entity of the service, which others    *)
(* write to as well.  Requests travel as ResilientRequest describes: a     *)
(* timed out attempt may still arrive, next to those of the retries.       *)
(***************************************************************************)
EXTENDS Naturals

CONSTANTS Undefined,
          AnyVersion,   \* "*" as the value of if-match
          Fields,       \* properties that are not keys
          Values,
          Entities,     \* entity objects of the application
          Builders,     \* instances of UpdateRequestBuilder, each executed once
          ETags,        \* whether the service has ETags
          BuildOptions, \* what builders are told before they are executed
          ChangesDuringUpdate, \* whether the application changes an entity
                               \* while an update of it is under way
          MaxAttempts,  \* bound on the attempts of a request
          MaxVersion    \* bound on the version others write to

VARIABLES server,    \* the entity in the service, and its version
          entity,    \* the entity objects
          request,   \* requestConfig of each builder
          pc,        \* idle, built, waiting, resolved, rejected
          attempts,  \* attempts made so far
          awaited,   \* whether the last attempt is on its way to the service
          late,      \* timed out attempts on their way to the service
          answer,    \* answer to the last attempt
          applied    \* how often the service has accepted the request

network == <<attempts, awaited, late, answer>>
vars == <<server, entity, request, pc, network, applied>>

-----------------------------------------------------------------------------
(* Data                                                                    *)

State == [Fields -> Values]

Version == Nat \ {0}

Entity == [local : State, remoteState : State, versionIdentifier : Version \cup {Undefined}]

Options == [put : BOOLEAN, required : SUBSET Fields, ignored : SUBSET Fields,
            versionIdentifierIgnored : BOOLEAN]

Payload == UNION { [names -> Values] : names \in SUBSET Fields }

Request == [entity : Entities, payload : Payload, changed : SUBSET Fields,
            eTag : Version \cup {Undefined}, versionIdentifierIgnored : BOOLEAN]

Answer == [ok : BOOLEAN, eTag : Version \cup {Undefined}]

ASSUME EntityUpdateAssumption ==
  /\ Undefined \notin Version \cup {AnyVersion} \cup Entity \cup Request \cup Answer
  /\ AnyVersion \notin Version
  /\ BuildOptions \subseteq Options
  /\ {ETags, ChangesDuringUpdate} \subseteq BOOLEAN
  /\ Values # {} /\ {MaxAttempts, MaxVersion} \subseteq Nat

Or(a, b) == IF a # Undefined THEN a ELSE b

ETagOf(version) == IF ETags THEN version ELSE Undefined

-----------------------------------------------------------------------------
(* Entities and requests                                                   *)

\* Mutant: an ETag refreshes an identifier but never gives the first one.
RefreshVersionIdentifier(old, eTag) ==
  IF old # Undefined /\ eTag # Undefined THEN eTag ELSE old

\* setVersionIdentifier(): only a given ETag replaces the old one.
SetVersionIdentifier(old, eTag) == Or(eTag, old)

\* deserializeEntity(): a new object that is in sync with the service.
DeserializeEntity ==
  [local |-> server.state, remoteState |-> server.state,
   versionIdentifier |-> SetVersionIdentifier(Undefined, ETagOf(server.version))]

GetUpdatedPropertyNames(e) ==
  { f \in Fields : entity[e].remoteState[f] # entity[e].local[f] }

\* getPayload(): PATCH sends what has changed, PUT everything.
GetPayload(e, o) ==
  LET names == IF o.put THEN Fields
               ELSE (GetUpdatedPropertyNames(e) \cup o.required) \ o.ignored
  IN [f \in names |-> entity[e].local[f]]

\* Mutant: the header if-match is never sent.
NoETagHeaders(r) == Undefined

\* eTagHeaders()
ETagHeaders(r) == IF r.versionIdentifierIgnored THEN AnyVersion ELSE r.eTag

\* An update of the entity is under way.
Busy(e) == \E b \in Builders : pc[b] \in {"built", "waiting"} /\ request[b].entity = e

Init ==
  /\ server \in [state : State, version : {1}]
  /\ entity = [e \in Entities |-> Undefined]
  /\ request = [b \in Builders |-> Undefined]
  /\ pc = [b \in Builders |-> "idle"]
  /\ attempts = [b \in Builders |-> 0]
  /\ awaited = [b \in Builders |-> FALSE]
  /\ late = [b \in Builders |-> 0]
  /\ answer = [b \in Builders |-> Undefined]
  /\ applied = [b \in Builders |-> 0]

\* A read request; its result is a new object, so the one of an update that is
\* under way is not replaced.
Read(e) ==
  /\ ~Busy(e)
  /\ entity' = [entity EXCEPT ![e] = DeserializeEntity]
  /\ UNCHANGED <<server, request, pc, network, applied>>

\* The application assigns to a property.
Change(e, f, value) ==
  /\ entity[e] # Undefined
  /\ ChangesDuringUpdate \/ ~Busy(e)
  /\ entity' = [entity EXCEPT ![e].local[f] = value]
  /\ UNCHANGED <<server, request, pc, network, applied>>

\* The builder's constructor and its setters, the last of which decides about
\* the payload.
Build(b, e, o) ==
  /\ pc[b] = "idle" /\ entity[e] # Undefined
  /\ request' = [request EXCEPT ![b] =
       [entity |-> e, payload |-> GetPayload(e, o),
        changed |-> GetUpdatedPropertyNames(e),
        eTag |-> entity[e].versionIdentifier,
        versionIdentifierIgnored |-> o.versionIdentifierIgnored]]
  /\ pc' = [pc EXCEPT ![b] = "built"]
  /\ UNCHANGED <<server, entity, network, applied>>

\* execute(): without a payload nothing is sent.
Execute(b) ==
  /\ pc[b] = "built"
  /\ IF DOMAIN request[b].payload = {}
       THEN /\ pc' = [pc EXCEPT ![b] = "resolved"]
            /\ UNCHANGED <<attempts, awaited>>
       ELSE /\ pc' = [pc EXCEPT ![b] = "waiting"]
            /\ attempts' = [attempts EXCEPT ![b] = 1]
            /\ awaited' = [awaited EXCEPT ![b] = TRUE]
  /\ UNCHANGED <<server, entity, request, late, answer, applied>>

-----------------------------------------------------------------------------
(* The network and the service                                             *)

\* What the service does with a request: the status, and the entity after it.
Accepts(b) == ETagHeaders(request[b]) \in {Undefined, AnyVersion, server.version}

Handle(b) ==
  IF Accepts(b)
    THEN /\ server' = [state |-> [f \in Fields |->
                          IF f \in DOMAIN request[b].payload
                            THEN request[b].payload[f] ELSE server.state[f]],
                       version |-> server.version + 1]
         /\ applied' = [applied EXCEPT ![b] = @ + 1]
    ELSE UNCHANGED <<server, applied>>

\* The answer to the last attempt; an ETag may be in its header, in its body or
\* in neither.
HandleAwaited(b, withETag) ==
  /\ awaited[b]
  /\ Handle(b)
  /\ awaited' = [awaited EXCEPT ![b] = FALSE]
  /\ answer' = [answer EXCEPT ![b] =
       [ok   |-> Accepts(b),
        eTag |-> IF Accepts(b) /\ withETag THEN ETagOf(server.version + 1) ELSE Undefined]]
  /\ UNCHANGED <<entity, request, pc, attempts, late>>

HandleLate(b) ==
  /\ late[b] > 0
  /\ Handle(b)
  /\ late' = [late EXCEPT ![b] = @ - 1]
  /\ UNCHANGED <<entity, request, pc, attempts, awaited, answer>>

\* The last attempt is given up; it may still be on its way.
GiveUp(b) ==
  /\ late' = IF awaited[b] THEN [late EXCEPT ![b] = @ + 1] ELSE late
  /\ answer' = [answer EXCEPT ![b] = Undefined]

Retry(b) ==
  /\ pc[b] = "waiting" /\ attempts[b] < MaxAttempts
  /\ GiveUp(b)
  /\ attempts' = [attempts EXCEPT ![b] = @ + 1]
  /\ awaited' = [awaited EXCEPT ![b] = TRUE]
  /\ UNCHANGED <<server, entity, request, pc, applied>>

Fail(b) ==
  /\ pc[b] = "waiting"
  /\ GiveUp(b)
  /\ pc' = [pc EXCEPT ![b] = "rejected"]
  /\ awaited' = [awaited EXCEPT ![b] = FALSE]
  /\ UNCHANGED <<server, entity, request, attempts, applied>>

\* Others write to the entity.
ForeignWrite(f, value) ==
  /\ server.version < MaxVersion
  /\ server' = [state |-> [server.state EXCEPT ![f] = value], version |-> server.version + 1]
  /\ UNCHANGED <<entity, request, pc, network, applied>>

-----------------------------------------------------------------------------
(* The end of an update                                                    *)

\* Mutant: the remote state is not refreshed.
KeepRemoteState(e) == entity[e].remoteState

\* setOrInitializeRemoteState(), called without a state: the entity as it is now.
SetOrInitializeRemoteState(e) == entity[e].local

\* executeRequest(): the response has arrived.
Receive(b) ==
  LET e == request[b].entity
  IN /\ pc[b] = "waiting" /\ answer[b] # Undefined
     /\ answer' = [answer EXCEPT ![b] = Undefined]
     /\ IF answer[b].ok
          THEN /\ pc' = [pc EXCEPT ![b] = "resolved"]
               /\ entity' = [entity EXCEPT
                    ![e].remoteState = SetOrInitializeRemoteState(e),
                    ![e].versionIdentifier =
                      SetVersionIdentifier(@, Or(answer[b].eTag, request[b].eTag))]
          ELSE /\ pc' = [pc EXCEPT ![b] = "rejected"]
               /\ UNCHANGED entity
     /\ UNCHANGED <<server, request, attempts, awaited, late, applied>>

Next ==
  \/ \E e \in Entities :
       \/ Read(e)
       \/ \E f \in Fields, value \in Values : Change(e, f, value)
       \/ \E b \in Builders, o \in BuildOptions : Build(b, e, o)
  \/ \E b \in Builders :
       \/ \E withETag \in BOOLEAN : HandleAwaited(b, withETag)
       \/ Execute(b) \/ HandleLate(b) \/ Retry(b) \/ Fail(b) \/ Receive(b)
  \/ \E f \in Fields, value \in Values : ForeignWrite(f, value)

Spec == Init /\ [][Next]_vars

-----------------------------------------------------------------------------
(* Properties                                                              *)

\* An entity that was read from a service with ETags always has an identifier.
TypeOK ==
  /\ server \in [state : State, version : Version]
  /\ entity \in [Entities -> Entity \cup {Undefined}]
  /\ ETags => \A e \in Entities :
       entity[e] # Undefined => entity[e].versionIdentifier # Undefined
  /\ request \in [Builders -> Request \cup {Undefined}]
  /\ pc \in [Builders -> {"idle", "built", "waiting", "resolved", "rejected"}]
  /\ {attempts, late, applied} \subseteq [Builders -> Nat]
  /\ awaited \in [Builders -> BOOLEAN]
  /\ answer \in [Builders -> Answer \cup {Undefined}]

\* The remote state of an entity is the last known state in the service: if its
\* version identifier is the current one, so is its remote state.
RemoteStateIsKnown ==
  \A e \in Entities :
    entity[e] # Undefined /\ entity[e].versionIdentifier = server.version =>
      entity[e].remoteState = server.state

Guarded(b) == ETags /\ ~request[b].versionIdentifierIgnored

\* An update guarded by an ETag changes no property that the application has not
\* changed: what others wrote is not overwritten, be it by PATCH or by PUT.
NoLostUpdate ==
  [][ \A b \in Builders : applied'[b] # applied[b] /\ Guarded(b) =>
        \A f \in Fields \ request[b].changed : server'.state[f] = server.state[f] ]_vars

\* However often a guarded update is sent, the service accepts it once at most.
AppliedAtMostOnce ==
  \A b \in Builders : request[b] # Undefined /\ Guarded(b) => applied[b] <= 1

-----------------------------------------------------------------------------
(* The inductive invariant behind the safety properties                    *)

\* The use for which the properties hold.
GuardedUse ==
  /\ ETags /\ ~ChangesDuringUpdate
  /\ \A o \in BuildOptions : o.ignored = {} /\ ~o.versionIdentifierIgnored

\* Progress of a builder: what exists when.
StageInv(b) ==
  /\ request[b] = Undefined <=> pc[b] = "idle"
  /\ awaited[b] \/ answer[b] # Undefined => pc[b] = "waiting"
  /\ answer[b] # Undefined => ~awaited[b]
  /\ late[b] > 0 \/ applied[b] > 0 => pc[b] # "idle"
  /\ pc[b] # "idle" => entity[request[b].entity] # Undefined

\* No identifier is ahead of the service; the one of an applied update is behind.
VersionInv(b) ==
  LET r == request[b] IN pc[b] # "idle" =>
    /\ r.eTag # Undefined /\ r.eTag <= server.version /\ ~r.versionIdentifierIgnored
    /\ applied[b] > 0 => r.eTag < server.version
    /\ applied[b] <= 1

\* As long as its identifier is current, a request changes what the application
\* has changed, and turns the state of the service into that of the entity.
RequestInv(b) ==
  LET r == request[b] IN pc[b] # "idle" /\ r.eTag = server.version =>
    /\ \A f \in DOMAIN r.payload \ r.changed : r.payload[f] = server.state[f]
    /\ pc[b] \in {"built", "waiting"} => \A f \in Fields :
         entity[r.entity].local[f] = IF f \in DOMAIN r.payload THEN r.payload[f]
                                                              ELSE server.state[f]

\* An answer that brings the current identifier is about the state of the entity.
AnswerInv(b) ==
  answer[b] # Undefined /\ answer[b].ok =>
    /\ applied[b] > 0
    /\ answer[b].eTag # Undefined => answer[b].eTag <= server.version
    /\ answer[b].eTag = server.version => entity[request[b].entity].local = server.state

EntityInv(e) ==
  entity[e] # Undefined => entity[e].versionIdentifier <= server.version

IInv ==
  /\ TypeOK
  /\ \A b \in Builders : StageInv(b) /\ VersionInv(b) /\ RequestInv(b) /\ AnswerInv(b)
  /\ \A e \in Entities : EntityInv(e)
  /\ RemoteStateIsKnown
=============================================================================
