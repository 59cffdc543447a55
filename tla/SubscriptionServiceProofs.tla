---------------------- MODULE SubscriptionServiceProofs ----------------------
(* Streams implements SubscriptionService, for every number of threads,      *)
(* contracts, groupings and spellings.                                       *)
EXTENDS StreamsProofs

(* What an entry of the registry is about.                                   *)
LEMMA EntryNames ==
    ASSUME StreamsInv, NEW e \in entries
    PROVE  /\ e.id \in DOMAIN asked /\ asked[e.id] \in Asked \cap Subscriptions
           /\ Settled(asked[e.id]) => e.identifier = StreamNamed(asked[e.id])
<1>1. e.id \in DOMAIN asked /\ asked \in Seq(Asked) /\ asked[e.id] \in Subscriptions
      /\ (Settled(asked[e.id]) => e.identifier = StreamNamed(asked[e.id]))
  BY DEF StreamsInv, RegistryInv, EntryOK
<1> QED BY <1>1

(* The topics are the streams that settled subscriptions name.               *)
LEMMA TopicNamed ==
    ASSUME NEW s \in Asked \cap Subscriptions
    PROVE  StreamNamed(s) \in Topics <=> Settled(s)
<1>1. Settled(s) => StreamNamed(s) \in Topics
  BY DEF Topics
<1>2. ASSUME StreamNamed(s) \in Topics PROVE Settled(s)
  <2>1. PICK a \in Asked \cap Subscriptions : Settled(a) /\ StreamNamed(a) = StreamNamed(s)
    BY <1>2 DEF Topics
  <2> QED BY <2>1, NamedFields
<1> QED BY <1>1, <1>2

(* What flows is what is wanted and offered.                                 *)
InService == streams \cap Topics = {w.topic : w \in Wanted} \cap OfferedTopics

(* So it is in every state that the invariant allows.                        *)
LEMMA ServesWanted == StreamsInv => InService
<1> SUFFICES ASSUME StreamsInv PROVE InService
  OBVIOUS
<1>1. \A st : st \in {w.topic : w \in Wanted} <=>
                 \E e \in LastingEntries : StreamNamed(asked[e.id]) = st
  <2>1. ASSUME NEW w \in Wanted
        PROVE  \E e \in LastingEntries : StreamNamed(asked[e.id]) = w.topic
    BY DEF Wanted
  <2>2. ASSUME NEW e \in LastingEntries
        PROVE  \E w \in Wanted : w.topic = StreamNamed(asked[e.id])
    <3>1. [id |-> e.id, topic |-> StreamNamed(asked[e.id])] \in Wanted
      BY DEF Wanted
    <3> QED BY <3>1
  <2> QED BY <2>1, <2>2
<1>2. ASSUME NEW st \in streams \cap Topics
      PROVE  st \in OfferedTopics /\ \E e \in LastingEntries : StreamNamed(asked[e.id]) = st
  <2>1. Available(st)
    BY DEF StreamsInv, RemoteInv
  <2>2. PICK e \in entries : StreamNamed(asked[e.id]) = st
    BY DEF StreamsInv, NothingLeftRunning
  <2>3. Settled(asked[e.id])
    BY <2>2, EntryNames, TopicNamed
  <2> QED BY <2>1, <2>2, <2>3 DEF OfferedTopics, LastingEntries
<1>3. ASSUME NEW e \in LastingEntries, StreamNamed(asked[e.id]) \in OfferedTopics
      PROVE  StreamNamed(asked[e.id]) \in streams \cap Topics
  BY <1>3 DEF LastingEntries, OfferedTopics, StreamsInv, Served
<1> QED BY <1>1, <1>2, <1>3 DEF InService

(* The same of the state a step leads to.                                    *)
LEMMA ServesAfter ==
    StreamsInv' => (streams \cap Topics)' = {w.topic : w \in Wanted'} \cap OfferedTopics'
<1>1. StreamsInv' => InService'
  BY ServesWanted, PTL
<1> QED BY <1>1 DEF InService

(* A step that changes nothing of what is wanted or offered is not seen.     *)
LEMMA Unseen ==
    ASSUME StreamsInv, StreamsInv', Wanted' = Wanted, IssuedIds' = IssuedIds,
           OfferedTopics' = OfferedTopics
    PROVE  UNCHANGED <<Wanted, IssuedIds, OfferedTopics, streams \cap Topics>>
BY ServesWanted, ServesAfter DEF InService

(* Without the registry and the server's list, nothing is seen.              *)
LEMMA SameRegistry ==
    ASSUME UNCHANGED <<asked, entries, listed, offered>>
    PROVE  Wanted' = Wanted /\ IssuedIds' = IssuedIds /\ OfferedTopics' = OfferedTopics
BY DEF Wanted, LastingEntries, IssuedIds, OfferedTopics, Available

(* The step of subscribe is the service's Subscribe.                         *)
LEMMA SubscribeServes ==
    ASSUME StreamsInv, StreamsInv', NEW t \in Threads, NEW c, c.sub \in Asked \/ c = call[t],
           RegisterSubscribe(t, c)
    PROVE  [Service!Next]_<<Wanted, IssuedIds, OfferedTopics, streams \cap Topics>>
<1> DEFINE n == Len(asked) + 1
           new == [id |-> n, identifier |-> SubscriptionToIdentifier(Normalize(Mapped(c))),
                   wire |-> Normalize(Mapped(c))]
<1>1. /\ Reaching(t, c) /\ Acceptable(Mapped(c)) /\ Len(asked) < MaxIds
      /\ asked' = Append(asked, c.sub) /\ entries' = entries \cup {new}
      /\ UNCHANGED <<listed, offered>>
  BY DEF RegisterSubscribe
<1>2. c.sub \in Asked \cap Subscriptions
  BY <1>1, ReachingGood, MappedMeansTheSame
<1>3. /\ n \in Ids /\ n \notin DOMAIN asked /\ DOMAIN asked' = DOMAIN asked \cup {n}
      /\ \A i \in DOMAIN asked : asked'[i] = asked[i]
      /\ asked'[n] = c.sub
  BY <1>1, <1>2, AskedAssumption DEF StreamsInv, RegistryInv, Ids
<1>4. new.id = n
  OBVIOUS
<1> HIDE DEF n, new
<1>5. OfferedTopics' = OfferedTopics
  BY <1>1 DEF OfferedTopics, Available
<1>6. \A e \in entries : asked'[e.id] = asked[e.id]
  BY <1>3, EntryNames
<1>7. CASE Settled(c.sub)
  <2>1. LastingEntries' = LastingEntries \cup {new}
    BY <1>1, <1>3, <1>4, <1>6, <1>7 DEF LastingEntries
  <2>2. Wanted' = Wanted \cup {[id |-> n, topic |-> StreamNamed(c.sub)]}
    <3>1. \A e \in LastingEntries : asked'[e.id] = asked[e.id]
      BY <1>6 DEF LastingEntries
    <3> QED BY <1>3, <1>4, <2>1, <3>1 DEF Wanted
  <2>3. IssuedIds' = IssuedIds \cup {n} /\ n \notin IssuedIds
    BY <1>3, <1>7 DEF IssuedIds
  <2>4. StreamNamed(c.sub) \in Topics
    BY <1>2, <1>7, TopicNamed
  <2>5. Service!Subscribe(n)
    BY <1>5, <2>2, <2>3, <2>4, ServesAfter DEF Service!Subscribe, Service!Serve
  <2> QED BY <1>3, <2>5 DEF Service!Next
<1>8. CASE ~Settled(c.sub)
  <2>1. LastingEntries' = LastingEntries
    BY <1>1, <1>3, <1>4, <1>6, <1>8 DEF LastingEntries
  <2>2. \A e \in LastingEntries : asked'[e.id] = asked[e.id]
    BY <1>6 DEF LastingEntries
  <2>3. Wanted' = Wanted /\ IssuedIds' = IssuedIds
    BY <1>3, <1>8, <2>1, <2>2 DEF Wanted, IssuedIds
  <2> QED BY <1>5, <2>3, Unseen
<1> QED BY <1>7, <1>8

(* The step of unsubscribe is the service's Unsubscribe.                     *)
LEMMA UnsubscribeServes ==
    ASSUME StreamsInv, StreamsInv', NEW t \in Threads, NEW c, c.sub \in Asked \/ c = call[t],
           RegisterUnsubscribe(t, c)
    PROVE  [Service!Next]_<<Wanted, IssuedIds, OfferedTopics, streams \cap Topics>>
<1> DEFINE I == Ident(Mapped(c))
           mine == {e \in Under(I) : e.id = c.id}
<1>1. /\ Reaching(t, c) /\ Acceptable(Mapped(c)) /\ c.id # 0
      /\ entries' = entries \ mine
      /\ UNCHANGED <<asked, listed, offered>>
  BY DEF RegisterUnsubscribe, Ident, Mine
<1>2. c.sub \in Asked /\ RawRight(c) /\ NamesOne(c, asked)
  BY <1>1, ReachingGood
<1>3. /\ c.sub \in Subscriptions /\ (Settled(c.sub) => I = StreamNamed(c.sub))
  BY <1>1, <1>2, MappedMeansTheSame
<1>4. /\ c.id \in DOMAIN asked /\ StreamNamed(c.sub) = StreamNamed(asked[c.id])
      /\ asked[c.id] \in Subscriptions /\ c.id \in Ids
  BY <1>1, <1>2, AskedAssumption DEF NamesOne, StreamsInv, RegistryInv, Ids
<1>5. Settled(asked[c.id]) <=> Settled(c.sub)
  BY <1>3, <1>4, NamedFields
<1> HIDE DEF I
<1>6. OfferedTopics' = OfferedTopics /\ IssuedIds' = IssuedIds
  BY <1>1 DEF OfferedTopics, Available, IssuedIds
<1>7. \A e \in LastingEntries : e \in mine <=> e.id = c.id
  <2> SUFFICES ASSUME NEW e \in LastingEntries, e.id = c.id PROVE e \in Under(I)
    BY DEF Under
  <2>1. e \in entries /\ e.identifier = StreamNamed(asked[c.id])
    BY EntryNames DEF LastingEntries
  <2> QED BY <1>3, <1>4, <1>5, <2>1 DEF Under, LastingEntries
<1>8. LastingEntries' = {e \in LastingEntries : e.id # c.id}
  BY <1>1, <1>7 DEF LastingEntries
<1>9. Wanted' = {w \in Wanted : w.id # c.id}
  BY <1>1, <1>8 DEF Wanted
<1>10. CASE Settled(c.sub)
  <2>1. c.id \in IssuedIds
    BY <1>4, <1>5, <1>10 DEF IssuedIds
  <2>2. Service!Unsubscribe(c.id)
    BY <1>6, <1>9, <2>1, ServesAfter DEF Service!Unsubscribe, Service!Serve
  <2> QED BY <1>4, <2>2 DEF Service!Next
<1>11. CASE ~Settled(c.sub)
  <2>1. \A w \in Wanted : w.id # c.id
    BY <1>5, <1>11 DEF Wanted, LastingEntries
  <2> QED BY <1>6, <1>9, <2>1, Unseen
<1> QED BY <1>10, <1>11

(* The removal of a grouping is the service's Withdraw.                      *)
LEMMA RemoveGroupServes ==
    ASSUME StreamsInv, StreamsInv', NEW c \in Contracts, NEW g \in Groups, RemoveGroup(c, g)
    PROVE  [Service!Next]_<<Wanted, IssuedIds, OfferedTopics, streams \cap Topics>>
<1> DEFINE st == Identifier("l2Book", c, g)
           f == GroupRemoved(c, g)
<1>1. /\ g \in offered[c] /\ offered' = [offered EXCEPT ![c] = offered[c] \ {g}]
      /\ UNCHANGED <<asked, listed>>
      /\ \/ entries' = entries \ Under(WsMessageToIdentifier(f))
         \/ st \notin streams /\ UNCHANGED entries
  BY DEF RemoveGroup
<1>2. WsMessageToIdentifier(f) = st
  <2>1. f.channel = "l2Book" /\ f.data = [asset |-> c, group |-> g]
    BY DEF GroupRemoved, Frame
  <2>2. f.data.asset = c /\ "group" \in DOMAIN f.data /\ f.data.group = g
    BY <2>1
  <2> HIDE DEF f
  <2> QED BY <2>1, <2>2 DEF WsMessageToIdentifier, L2BookIdentifier, GroupOfData, PlainTypes
<1> HIDE DEF f
<1>3. st.type = "l2Book" /\ st.key = c /\ st.part = g
  BY DEF Identifier
<1>4. /\ offered \in [Contracts -> SUBSET (Groups \ {0})] /\ g # NoPart
      /\ \A x \in Contracts : offered'[x] = IF x = c THEN offered[c] \ {g} ELSE offered[x]
  BY <1>1 DEF StreamsInv, RemoteInv, NoPart
<1>5. \A x \in Topics : x.type = "l2Book" => x.key \in Contracts /\ x = Identifier("l2Book", x.key, x.part)
  BY NamedFields DEF Topics
<1>6. st \in Topics => Available(st)
  <2> SUFFICES ASSUME st \in Topics PROVE c \in listed
    BY <1>1, <1>3 DEF Available
  <2>1. PICK a \in Asked \cap Subscriptions : Settled(a) /\ st = StreamNamed(a)
    BY DEF Topics
  <2>2. c \in Lasting
    <3> HIDE DEF st
    <3> QED BY <1>3, <2>1, NamedFields DEF SettledAt, ContractTypes
  <2> QED BY <2>2 DEF StreamsInv, CacheInv
<1>7. OfferedTopics' = OfferedTopics \ {st}
  <2>1. ASSUME NEW x \in Topics PROVE Available(x)' <=> Available(x) /\ x # st
    <3>1. CASE x.type = "l2Book" /\ x.part # NoPart
      <4>1. x.key \in Contracts /\ (x = st <=> x.key = c /\ x.part = g)
        BY <1>3, <1>5, <3>1
      <4>2. x.part \in offered'[x.key] <=> x.part \in offered[x.key] /\ x # st
        BY <1>4, <4>1
      <4> HIDE DEF st
      <4> QED BY <1>1, <3>1, <4>2 DEF Available
    <3>2. CASE ~(x.type = "l2Book" /\ x.part # NoPart)
      BY <1>1, <1>3, <1>4, <3>2 DEF Available
    <3> QED BY <3>1, <3>2
  <2> HIDE DEF st
  <2> QED BY <2>1 DEF OfferedTopics
<1> HIDE DEF st
<1>8. LastingEntries' = {e \in LastingEntries : StreamNamed(asked[e.id]) # st}
  <2>1. ASSUME NEW e \in entries, Settled(asked[e.id])
        PROVE  e \in entries' <=> StreamNamed(asked[e.id]) # st
    <3>1. e.identifier = StreamNamed(asked[e.id]) /\ asked[e.id] \in Asked \cap Subscriptions
      BY <2>1, EntryNames
    <3>2. StreamNamed(asked[e.id]) = st => st \in streams
      BY <1>6, <2>1, <3>1, TopicNamed DEF StreamsInv, Served
    <3> QED BY <1>1, <1>2, <3>1, <3>2 DEF Under
  <2>2. entries' \subseteq entries
    BY <1>1
  <2> QED BY <1>1, <2>1, <2>2 DEF LastingEntries
<1>9. Wanted' = {w \in Wanted : w.topic # st}
  BY <1>1, <1>8 DEF Wanted
<1>10. IssuedIds' = IssuedIds
  BY <1>1 DEF IssuedIds
<1>11. CASE st \in Topics
  <2>1. st \in OfferedTopics
    BY <1>6, <1>11 DEF OfferedTopics
  <2>2. Service!Withdraw(st)
    BY <1>7, <1>9, <1>10, <2>1, ServesAfter DEF Service!Withdraw, Service!Serve
  <2> QED BY <1>7, <2>1, <2>2 DEF Service!Next
<1>12. CASE st \notin Topics
  <2>1. OfferedTopics' = OfferedTopics
    BY <1>7, <1>12 DEF OfferedTopics
  <2>2. \A e \in LastingEntries : StreamNamed(asked[e.id]) \in Topics
    BY EntryNames, TopicNamed DEF LastingEntries
  <2>3. Wanted' = Wanted
    BY <1>9, <1>12, <2>2 DEF Wanted
  <2> QED BY <1>10, <2>1, <2>3, Unseen
<1> QED BY <1>11, <1>12

(* A contract that comes or goes is none that the service is about.          *)
LEMMA ListUnseen ==
    ASSUME StreamsInv, StreamsInv', NEW c \in Contracts, List(c) \/ Delist(c)
    PROVE  UNCHANGED <<Wanted, IssuedIds, OfferedTopics, streams \cap Topics>>
<1>1. /\ c \in Later /\ UNCHANGED <<asked, entries, offered>>
      /\ listed' = listed \cup {c} \/ listed' = listed \ {c}
  BY DEF List, Delist, registry
<1>2. \A x \in Topics : Available(x)' <=> Available(x)
  <2> TAKE x \in Topics
  <2>1. PICK a \in Asked \cap Subscriptions : Settled(a) /\ x = StreamNamed(a)
    BY DEF Topics
  <2>2. SettledAt(x)
    BY <2>1, NamedFields
  <2> QED BY <1>1, <2>2 DEF Available, SettledAt, Lasting, ContractTypes
<1>3. OfferedTopics' = OfferedTopics /\ Wanted' = Wanted /\ IssuedIds' = IssuedIds
  BY <1>1, <1>2 DEF OfferedTopics, Wanted, LastingEntries, IssuedIds
<1> QED BY <1>3, Unseen

-----------------------------------------------------------------------------
(* At first nothing is wanted and nothing flows.                             *)
LEMMA ServiceInit == Init => Service!Init
<1> SUFFICES ASSUME Init PROVE Service!Init
  OBVIOUS
<1>1. asked = <<>> /\ DOMAIN asked = {} /\ entries = {} /\ streams = {}
  BY DEF Init
<1> QED BY <1>1 DEF Service!Init, Wanted, LastingEntries, IssuedIds, OfferedTopics

(* Every step is a step of the service or is not seen.                       *)
LEMMA ServiceStep ==
    StreamsInv /\ StreamsInv' /\ [Next]_vars =>
        [Service!Next]_<<Wanted, IssuedIds, OfferedTopics, streams \cap Topics>>
<1> SUFFICES ASSUME StreamsInv, StreamsInv', [Next]_vars
             PROVE  [Service!Next]_<<Wanted, IssuedIds, OfferedTopics, streams \cap Topics>>
  OBVIOUS
<1>1. ASSUME UNCHANGED <<asked, entries, listed, offered>>
      PROVE  UNCHANGED <<Wanted, IssuedIds, OfferedTopics, streams \cap Topics>>
  BY <1>1, SameRegistry, Unseen
<1>2. ASSUME NEW t \in Threads, NEW c, RegistryStep(t, c), c.sub \in Asked \/ c = call[t]
      PROVE  [Service!Next]_<<Wanted, IssuedIds, OfferedTopics, streams \cap Topics>>
  <2>1. CASE Refuse(t, c)
    BY <1>1, <2>1 DEF Refuse, registry, remote
  <2> QED BY <1>2, <2>1, SubscribeServes, UnsubscribeServes DEF RegistryStep
<1>3. ASSUME NEW t \in Threads, CallStep(t)
      PROVE  [Service!Next]_<<Wanted, IssuedIds, OfferedTopics, streams \cap Topics>>
  <2>1. CASE LookupStep(t)
    BY <1>1, <2>1 DEF LookupStep, Look, Fetch, FetchFails, Store, Has, Read, registry, remote
  <2>2. CASE RegistryStep(t, call[t])
    BY <1>2, <2>2
  <2>3. ASSUME NEW s \in Asked, NEW id \in Ids \cup {0}, Begin(t, s, id)
        PROVE  UNCHANGED <<Wanted, IssuedIds, OfferedTopics, streams \cap Topics>>
    BY <1>1, <2>3 DEF Begin, registry, remote
  <2>4. ASSUME NEW s \in Asked, NEW id \in Ids \cup {0}, RegistryStep(t, CallOf("register", s, id))
        PROVE  [Service!Next]_<<Wanted, IssuedIds, OfferedTopics, streams \cap Topics>>
    <3>1. CallOf("register", s, id).sub = s
      BY DEF CallOf, NoCall
    <3> QED BY <1>2, <2>4, <3>1
  <2> QED BY <1>3, <2>1, <2>2, <2>3, <2>4 DEF CallStep
<1>4. CASE Reconnect
  BY <1>1, <1>4 DEF Reconnect, registry
<1>5. CASE UNCHANGED vars
  BY <1>1, <1>5 DEF vars, registry, remote
<1>6. CASE Next
  BY <1>3, <1>4, <1>6, ListUnseen, RemoveGroupServes DEF Next
<1> QED BY <1>5, <1>6

(* Facade, registry and server together keep the promise of the service: a   *)
(* call changes what its own callback wants, and what flows is what is       *)
(* wanted and offered.                                                       *)
THEOREM ServiceRefinement == Spec => ActsAsService
<1>1. Init => Service!Init
  BY ServiceInit
<1>2. StreamsInv /\ StreamsInv' /\ [Next]_vars =>
        [Service!Next]_<<Wanted, IssuedIds, OfferedTopics, streams \cap Topics>>
  BY ServiceStep
<1>3. Spec => []StreamsInv
  BY StreamsInvariance
<1> QED BY <1>1, <1>2, <1>3, PTL DEF Spec, ActsAsService, Service!Spec
=============================================================================
