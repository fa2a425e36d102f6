--------------------------- MODULE RegistryProofs ---------------------------
(***************************************************************************)
(* The registry's notifications, for any number of writers, nodes and      *)
(* subscribers and any number of changes: no subscriber misses a change    *)
(* that is made while it is subscribed, and its copy of the registry is    *)
(* exact for every node whose last change was notified of alone.           *)
(***************************************************************************)
EXTENDS ServiceRegistry, TLAPS

\* The registry as constructed.
LEMMA RegistryInit ==
    ASSUME Init PROVE RegistryInv
<1>1. TypeOK
  BY RegistryAssumption DEF Init, TypeOK
<1>2. NewUntouched /\ AtMostOneAbout /\ SaysWhatIsHeld /\ MirrorOrPending /\ HeardOrPending
  BY DEF Init, NewUntouched, AtMostOneAbout, SaysWhatIsHeld, MirrorOrPending,
         HeardOrPending, On, About
<1> QED
  BY <1>1, <1>2 DEF RegistryInv

\* A change of n, whatever it makes of the entry: the writer that made it has
\* everybody on its list, and n is raced if another one was not done with n.
LEMMA ChangedStep ==
    ASSUME RegistryInv, NEW w \in Writers, NEW n \in Nodes, NEW v \in Versions,
           NEW e \in Events, NEW new \in Versions \cup {None},
           wpc[w] = "idle", nodes' = [nodes EXCEPT ![n] = new],
           new = IF e = "Remove" THEN None ELSE v,
           Changed(w, e, n, v)
    PROVE  RegistryInv'
<1> DEFINE notice == [ev |-> e, node |-> n, ver |-> v, op |-> ops + 1]
<1>1. notice \in Notices
  BY RegistryAssumption DEF RegistryInv, TypeOK, Changed, Notices
<1>2. /\ wpc' = [wpc EXCEPT ![w] = "notify"] /\ wev' = [wev EXCEPT ![w] = notice]
      /\ UNCHANGED <<wtodo, subs, mirror, heard, since, clears>>
      /\ ops' = ops + 1 /\ unsaid' = unsaid \ {n}
  BY DEF Changed, told
<1>3. wpc'[w] = "notify" /\ wev'[w] = notice
  BY <1>2 DEF RegistryInv, TypeOK
<1>4. \A u \in Writers \ {w} : wpc'[u] = wpc[u] /\ wev'[u] = wev[u]
  BY <1>2 DEF RegistryInv, TypeOK
<1>5. raced' \subseteq Nodes /\ \A m \in Nodes \ {n} : m \in raced' <=> m \in raced
  BY DEF Changed, RegistryInv, TypeOK
<1>6. n \notin raced' => \A u \in Writers \ {w} : ~About(u, n)
  BY DEF Changed, About
<1>7. \A m \in Nodes \ {n} : nodes'[m] = nodes[m]
  BY DEF RegistryInv, TypeOK
<1>8. nodes'[n] = new
  BY DEF RegistryInv, TypeOK
<1>9. TypeOK'
  <2>1. ops' \in 0 .. MaxOps
    BY RegistryAssumption DEF Changed, RegistryInv, TypeOK
  <2>2. wev' \in [Writers -> Notices \cup {None}]
    BY <1>1, <1>2 DEF RegistryInv, TypeOK
  <2>3. nodes' \in [Nodes -> Versions \cup {None}]
    BY DEF RegistryInv, TypeOK
  <2>4. wpc' \in [Writers -> {"idle", "notify", "calling"}]
    BY <1>2 DEF RegistryInv, TypeOK
  <2>5. \A u \in Writers : wpc'[u] # "idle" => wev'[u] \in Notices
    BY <1>1, <1>3, <1>4 DEF RegistryInv, TypeOK
  <2> QED
    BY <1>2, <1>5, <2>1, <2>2, <2>3, <2>4, <2>5 DEF RegistryInv, TypeOK
<1>10. NewUntouched'
  BY <1>2 DEF RegistryInv, NewUntouched
<1>11. \A m \in Nodes, u \in Writers \ {w} : About(u, m)' <=> About(u, m)
  BY <1>4 DEF About
<1>12. \A m \in Nodes : About(w, m)' <=> m = n
  BY <1>3 DEF About
<1>13. \A u \in Writers \ {w} : Applied(u)' = Applied(u)
  BY <1>4 DEF Applied
<1>14. Applied(w)' = new
  BY <1>3 DEF Applied
<1>15. AtMostOneAbout'
  <2> SUFFICES ASSUME NEW m \in Nodes, m \notin raced', NEW x \in Writers, NEW y \in Writers,
                      About(x, m)', About(y, m)'
               PROVE  x = y
    BY DEF AtMostOneAbout
  <2>1. CASE m = n
    BY <2>1, <1>6, <1>11
  <2>2. CASE m # n
    BY <2>2, <1>5, <1>11, <1>12 DEF RegistryInv, AtMostOneAbout
  <2> QED
    BY <2>1, <2>2
<1>16. SaysWhatIsHeld'
  <2> SUFFICES ASSUME NEW m \in Nodes, m \notin unsaid', m \notin raced', NEW u \in Writers,
                      About(u, m)'
               PROVE  Applied(u)' = nodes'[m]
    BY DEF SaysWhatIsHeld
  <2>1. CASE m = n
    BY <2>1, <1>6, <1>8, <1>11, <1>14
  <2>2. CASE m # n
    BY <2>2, <1>2, <1>5, <1>7, <1>11, <1>12, <1>13 DEF RegistryInv, SaysWhatIsHeld
  <2> QED
    BY <2>1, <2>2
<1>17. \A s \in Subs : Pending(w, s)'
  BY <1>3 DEF Pending
<1>18. \A s \in Subs, u \in Writers : Pending(u, s) => Pending(u, s)'
  BY <1>2, <1>4, <1>17 DEF Pending
<1>19. On' = On
  BY <1>2 DEF On
<1>20. MirrorOrPending'
  <2> SUFFICES ASSUME NEW s \in On, NEW m \in Nodes, m \notin unsaid', m \notin raced'
               PROVE  \/ mirror'[s][m] \in {Unknown, nodes'[m]}
                      \/ \E u \in Writers : About(u, m)' /\ Pending(u, s)'
    BY <1>19 DEF MirrorOrPending
  <2>0. s \in Subs
    BY DEF On
  <2>1. CASE m = n
    BY <2>0, <2>1, <1>12, <1>17
  <2>2. CASE m # n
    <3>1. m \notin unsaid /\ m \notin raced /\ nodes'[m] = nodes[m] /\ mirror' = mirror
      BY <2>2, <1>2, <1>5, <1>7
    <3>2. CASE mirror[s][m] \in {Unknown, nodes[m]}
      BY <3>1, <3>2
    <3>3. CASE \E u \in Writers : About(u, m) /\ Pending(u, s)
      <4>1. PICK u \in Writers : About(u, m) /\ Pending(u, s)
        BY <3>3
      <4>2. u # w
        BY <4>1 DEF About
      <4> QED
        BY <4>1, <4>2, <1>11, <1>18, <2>0
    <3> QED
      BY <3>1, <3>2, <3>3 DEF RegistryInv, MirrorOrPending
  <2> QED
    BY <2>1, <2>2
<1>21. HeardOrPending'
  <2> SUFFICES ASSUME NEW s \in On, NEW k \in (since[s] + 1) .. (ops + 1)
               PROVE  k \in heard[s] \/ \E u \in Writers : Pending(u, s)' /\ wev'[u].op = k
    BY <1>2, <1>19 DEF HeardOrPending
  <2>0. s \in Subs /\ since[s] \in Nat /\ ops \in Nat
    BY DEF On, RegistryInv, TypeOK
  <2>1. CASE k = ops + 1
    BY <2>0, <2>1, <1>3, <1>17
  <2>2. CASE k # ops + 1
    <3>1. k \in (since[s] + 1) .. ops
      BY <2>0, <2>2
    <3>2. CASE \E u \in Writers : Pending(u, s) /\ wev[u].op = k
      <4>1. PICK u \in Writers : Pending(u, s) /\ wev[u].op = k
        BY <3>2
      <4>2. u # w
        BY <4>1 DEF Pending
      <4> QED
        BY <4>1, <4>2, <1>4, <1>18, <2>0
    <3> QED
      BY <3>1, <3>2 DEF RegistryInv, HeardOrPending
  <2> QED
    BY <2>1, <2>2
<1> QED
  BY <1>9, <1>10, <1>15, <1>16, <1>20, <1>21 DEF RegistryInv

LEMMA RegisterStep ==
    ASSUME RegistryInv, NEW w \in Writers, NEW n \in Nodes, NEW v \in Versions,
           register_node(w, n, v)
    PROVE  RegistryInv'
<1>1. RegisterEvent(n) \in Events /\ RegisterEvent(n) # "Remove"
  BY DEF RegisterEvent, Events
<1> QED
  BY <1>1, ChangedStep DEF register_node

LEMMA UnregisterStep ==
    ASSUME RegistryInv, NEW w \in Writers, NEW n \in Nodes, unregister_node(w, n)
    PROVE  RegistryInv'
<1>1. nodes[n] \in Versions
  BY DEF unregister_node, RegistryInv, TypeOK
<1> QED
  BY <1>1, ChangedStep DEF unregister_node, Events

\* The list a writer copies has everybody on it that is subscribed then.
LEMMA CopyStep ==
    ASSUME RegistryInv, NEW w \in Writers, CopyCallbacks(w)
    PROVE  RegistryInv'
<1>1. /\ wtodo' = [wtodo EXCEPT ![w] = On]
      /\ wpc' = [wpc EXCEPT ![w] = IF On = {} THEN "idle" ELSE "calling"]
      /\ wev' = [wev EXCEPT ![w] = IF On = {} THEN None ELSE @]
      /\ UNCHANGED <<nodes, subs, mirror, heard, since, ops, unsaid, clears, raced>>
  BY DEF CopyCallbacks, Copied, told
<1>2. /\ wpc[w] = "notify" /\ wev[w] \in Notices
      /\ wtodo'[w] = On /\ wpc'[w] = IF On = {} THEN "idle" ELSE "calling"
      /\ wev'[w] = IF On = {} THEN None ELSE wev[w]
  BY <1>1 DEF CopyCallbacks, RegistryInv, TypeOK
<1>3. \A u \in Writers \ {w} : wpc'[u] = wpc[u] /\ wev'[u] = wev[u] /\ wtodo'[u] = wtodo[u]
  BY <1>1 DEF RegistryInv, TypeOK
<1>4. On' = On /\ On \subseteq Subs
  BY <1>1 DEF On
<1>5. TypeOK'
  BY <1>1, <1>2, <1>3, <1>4 DEF RegistryInv, TypeOK
<1>6. NewUntouched'
  BY <1>1, <1>2, <1>3 DEF RegistryInv, NewUntouched, On
<1>7. \A n \in Nodes, u \in Writers : About(u, n)' => About(u, n) /\ wev'[u] = wev[u]
  BY <1>2, <1>3 DEF About
<1>8. AtMostOneAbout'
  BY <1>1, <1>7 DEF RegistryInv, AtMostOneAbout
<1>9. SaysWhatIsHeld'
  BY <1>1, <1>7 DEF RegistryInv, SaysWhatIsHeld, Applied
<1>10. \A s \in On, u \in Writers : Pending(u, s) => Pending(u, s)' /\ wev'[u] = wev[u]
  BY <1>2, <1>3 DEF Pending
<1>11. \A n \in Nodes, s \in On, u \in Writers : About(u, n) /\ Pending(u, s) => About(u, n)'
  BY <1>2, <1>3 DEF Pending, About
<1>12. MirrorOrPending'
  BY <1>1, <1>4, <1>10, <1>11 DEF RegistryInv, MirrorOrPending
<1>13. HeardOrPending'
  BY <1>1, <1>4, <1>10 DEF RegistryInv, HeardOrPending
<1> QED
  BY <1>5, <1>6, <1>8, <1>9, <1>12, <1>13 DEF RegistryInv

\* One call: the subscriber's copy of this one node becomes what the writer
\* tells, which is what the registry holds unless the node is raced or unsaid.
LEMMA CallbackStep ==
    ASSUME RegistryInv, NEW w \in Writers, NEW s \in Subs, Callback(w, s)
    PROVE  RegistryInv'
<1> DEFINE n == wev[w].node
<1>1. /\ wev[w] \in Notices /\ n \in Nodes /\ Applied(w) \in Versions \cup {None}
      /\ wev[w].op \in 1 .. MaxOps /\ wpc[w] = "calling" /\ s \in wtodo[w]
  BY DEF Callback, RegistryInv, TypeOK, Notices, Applied
<1>2. /\ mirror' = [mirror EXCEPT ![s][n] = Applied(w)]
      /\ heard' = [heard EXCEPT ![s] = @ \cup {wev[w].op}]
      /\ wtodo' = [wtodo EXCEPT ![w] = @ \ {s}]
      /\ wpc' = [wpc EXCEPT ![w] = IF wtodo[w] = {s} THEN "idle" ELSE "calling"]
      /\ wev' = [wev EXCEPT ![w] = IF wtodo[w] = {s} THEN None ELSE @]
      /\ UNCHANGED <<nodes, subs, since, ops, unsaid, clears, raced>>
  BY DEF Callback, Applied
<1>3. /\ wtodo'[w] = wtodo[w] \ {s}
      /\ wpc'[w] = IF wtodo[w] = {s} THEN "idle" ELSE "calling"
      /\ wev'[w] = IF wtodo[w] = {s} THEN None ELSE wev[w]
  BY <1>2 DEF RegistryInv, TypeOK
<1>4. \A u \in Writers \ {w} : wpc'[u] = wpc[u] /\ wev'[u] = wev[u] /\ wtodo'[u] = wtodo[u]
  BY <1>2 DEF RegistryInv, TypeOK
<1>5. mirror'[s][n] = Applied(w) /\ \A m \in Nodes \ {n} : mirror'[s][m] = mirror[s][m]
  BY <1>1, <1>2 DEF RegistryInv, TypeOK
<1>6. \A r \in Subs \ {s} : mirror'[r] = mirror[r] /\ heard'[r] = heard[r]
  BY <1>2 DEF RegistryInv, TypeOK
<1>7. heard'[s] = heard[s] \cup {wev[w].op}
  BY <1>2 DEF RegistryInv, TypeOK
<1>8. TypeOK'
  <2>1. mirror' \in [Subs -> [Nodes -> Versions \cup {None, Unknown}]]
    BY <1>1, <1>2 DEF RegistryInv, TypeOK
  <2>2. heard' \in [Subs -> SUBSET (1 .. MaxOps)]
    BY <1>1, <1>2 DEF RegistryInv, TypeOK
  <2>3. wtodo' \in [Writers -> SUBSET Subs] /\ wpc' \in [Writers -> {"idle", "notify", "calling"}]
    BY <1>2 DEF RegistryInv, TypeOK
  <2>4. wev' \in [Writers -> Notices \cup {None}]
    BY <1>1, <1>2 DEF RegistryInv, TypeOK
  <2>5. \A u \in Writers : wpc'[u] # "idle" => wev'[u] \in Notices
    BY <1>1, <1>3, <1>4 DEF RegistryInv, TypeOK
  <2> QED
    BY <1>2, <2>1, <2>2, <2>3, <2>4, <2>5 DEF RegistryInv, TypeOK
<1>9. NewUntouched'
  BY <1>1, <1>2, <1>3, <1>4, <1>6 DEF RegistryInv, NewUntouched
<1>10. \A m \in Nodes, u \in Writers : About(u, m)' => About(u, m) /\ wev'[u] = wev[u]
  BY <1>1, <1>3, <1>4 DEF About
<1>11. AtMostOneAbout'
  BY <1>2, <1>10 DEF RegistryInv, AtMostOneAbout
<1>12. SaysWhatIsHeld'
  BY <1>2, <1>10 DEF RegistryInv, SaysWhatIsHeld, Applied
<1>13. On' = On /\ On \subseteq Subs
  BY <1>2 DEF On
<1>14. \A r \in Subs, u \in Writers : Pending(u, r) /\ (u # w \/ r # s)
                                      => Pending(u, r)' /\ wev'[u] = wev[u]
  BY <1>1, <1>3, <1>4 DEF Pending
<1>15. \A r \in Subs, u \in Writers, m \in Nodes :
           Pending(u, r) /\ About(u, m) /\ (u # w \/ r # s) => About(u, m)'
  BY <1>1, <1>3, <1>4 DEF Pending, About
<1>16. MirrorOrPending'
  <2> SUFFICES ASSUME NEW r \in On, NEW m \in Nodes, m \notin unsaid, m \notin raced
               PROVE  \/ mirror'[r][m] \in {Unknown, nodes[m]}
                      \/ \E u \in Writers : About(u, m)' /\ Pending(u, r)'
    BY <1>2, <1>13 DEF MirrorOrPending
  <2>0. \/ mirror[r][m] \in {Unknown, nodes[m]}
        \/ \E u \in Writers : About(u, m) /\ Pending(u, r)
    BY DEF RegistryInv, MirrorOrPending
  <2>1. CASE r # s
    BY <2>0, <2>1, <1>6, <1>13, <1>14, <1>15
  <2>2. CASE r = s /\ m = n
    <3>1. About(w, n)
      BY <1>1 DEF About
    <3> QED
      BY <2>2, <3>1, <1>5 DEF RegistryInv, SaysWhatIsHeld
  <2>3. CASE r = s /\ m # n
    <3>1. ~About(w, m)
      BY <2>3 DEF About
    <3> QED
      BY <2>0, <2>3, <3>1, <1>5, <1>14, <1>15
  <2> QED
    BY <2>1, <2>2, <2>3
<1>17. HeardOrPending'
  <2> SUFFICES ASSUME NEW r \in On, NEW k \in (since[r] + 1) .. ops
               PROVE  k \in heard'[r] \/ \E u \in Writers : Pending(u, r)' /\ wev'[u].op = k
    BY <1>2, <1>13 DEF HeardOrPending
  <2>0. k \in heard[r] \/ \E u \in Writers : Pending(u, r) /\ wev[u].op = k
    BY DEF RegistryInv, HeardOrPending
  <2> QED
    BY <2>0, <1>6, <1>7, <1>13, <1>14
<1> QED
  BY <1>8, <1>9, <1>11, <1>12, <1>16, <1>17 DEF RegistryInv

\* clear() drops entries: those that were there are unsaid from now on.
LEMMA ClearStep ==
    ASSUME RegistryInv, clear PROVE RegistryInv'
<1>1. /\ UNCHANGED <<subs, wpc, wev, wtodo, mirror, heard, since, ops, raced>>
      /\ nodes' = [m \in Nodes |-> None] /\ unsaid' = unsaid \cup {m \in Nodes : nodes[m] # None}
  BY DEF clear, writers, told
<1>2. \A m \in Nodes \ unsaid' : m \notin unsaid /\ nodes'[m] = nodes[m]
  BY <1>1
<1>3. TypeOK'
  BY <1>1, RegistryAssumption DEF RegistryInv, TypeOK, clear
<1>4. NewUntouched' /\ AtMostOneAbout' /\ HeardOrPending'
  BY <1>1 DEF RegistryInv, NewUntouched, AtMostOneAbout, HeardOrPending, About, Pending, On
<1>5. SaysWhatIsHeld'
  BY <1>1, <1>2 DEF RegistryInv, SaysWhatIsHeld, About, Applied
<1>6. MirrorOrPending'
  BY <1>1, <1>2 DEF RegistryInv, MirrorOrPending, About, Pending, On
<1> QED
  BY <1>3, <1>4, <1>5, <1>6 DEF RegistryInv

\* A new subscriber knows of no node and has no change to hear of yet.
LEMMA SubscribeStep ==
    ASSUME RegistryInv, NEW s \in Subs, subscribe(s) PROVE RegistryInv'
<1>1. /\ UNCHANGED <<nodes, wpc, wev, wtodo, mirror, heard, ops, unsaid, clears, raced>>
      /\ subs[s] = "new"
  BY DEF subscribe, writers, told
<1>2. TypeOK'
  BY <1>1 DEF RegistryInv, TypeOK, subscribe
<1>3. \A r \in Subs : subs'[r] = "new" => subs[r] = "new"
  BY <1>1 DEF RegistryInv, TypeOK, subscribe
<1>4. On' = On \cup {s}
  BY <1>1 DEF RegistryInv, TypeOK, subscribe, On
<1>5. since'[s] = ops /\ \A r \in Subs \ {s} : since'[r] = since[r]
  BY DEF RegistryInv, TypeOK, subscribe
<1>6. NewUntouched'
  BY <1>1, <1>3 DEF RegistryInv, NewUntouched
<1>7. AtMostOneAbout' /\ SaysWhatIsHeld'
  BY <1>1 DEF RegistryInv, AtMostOneAbout, SaysWhatIsHeld, About, Applied
<1>8. \A m \in Nodes : mirror[s][m] = Unknown
  BY <1>1 DEF RegistryInv, NewUntouched
<1>9. MirrorOrPending'
  BY <1>1, <1>4, <1>8 DEF RegistryInv, MirrorOrPending, About, Pending
<1>10. HeardOrPending'
  <2> SUFFICES ASSUME NEW r \in On', NEW k \in (since'[r] + 1) .. ops
               PROVE  k \in heard[r] \/ \E u \in Writers : Pending(u, r) /\ wev[u].op = k
    BY <1>1 DEF HeardOrPending, Pending
  <2>1. CASE r = s
    BY <2>1, <1>5 DEF RegistryInv, TypeOK
  <2>2. CASE r # s
    BY <2>2, <1>4, <1>5 DEF RegistryInv, HeardOrPending, On
  <2> QED
    BY <2>1, <2>2
<1> QED
  BY <1>2, <1>6, <1>7, <1>9, <1>10 DEF RegistryInv

LEMMA UnsubscribeStep ==
    ASSUME RegistryInv, NEW s \in Subs, unsubscribe(s) PROVE RegistryInv'
<1>1. UNCHANGED <<nodes, wpc, wev, wtodo, mirror, heard, since, ops, unsaid, clears, raced>>
  BY DEF unsubscribe, writers, told
<1>2. TypeOK'
  BY <1>1 DEF RegistryInv, TypeOK, unsubscribe
<1>3. \A r \in Subs : subs'[r] = "new" => subs[r] = "new"
  BY DEF RegistryInv, TypeOK, unsubscribe
<1>4. On' \subseteq On
  BY DEF RegistryInv, TypeOK, unsubscribe, On
<1> QED
  BY <1>1, <1>2, <1>3, <1>4
  DEF RegistryInv, NewUntouched, AtMostOneAbout, SaysWhatIsHeld, MirrorOrPending,
      HeardOrPending, About, Applied, Pending

\* The registry's invariant: what a subscriber does not hold yet is still on
\* its way to it, and at most one writer speaks of a node that is not raced.
THEOREM RegistryInvariant == Spec => []RegistryInv
<1>1. Init => RegistryInv
  BY RegistryInit
<1>2. RegistryInv /\ [Next]_vars => RegistryInv'
  <2> SUFFICES ASSUME RegistryInv, [Next]_vars PROVE RegistryInv'
    OBVIOUS
  <2>1. CASE \E w \in Writers, n \in Nodes, v \in Versions : register_node(w, n, v)
    BY <2>1, RegisterStep
  <2>2. CASE \E w \in Writers, n \in Nodes : unregister_node(w, n)
    BY <2>2, UnregisterStep
  <2>3. CASE \E w \in Writers : CopyCallbacks(w)
    BY <2>3, CopyStep
  <2>4. CASE \E w \in Writers, s \in Subs : Callback(w, s)
    BY <2>4, CallbackStep
  <2>5. CASE clear
    BY <2>5, ClearStep
  <2>6. CASE \E s \in Subs : subscribe(s)
    BY <2>6, SubscribeStep
  <2>7. CASE \E s \in Subs : unsubscribe(s)
    BY <2>7, UnsubscribeStep
  <2>8. CASE UNCHANGED vars
    BY <2>8
    DEF vars, writers, told, RegistryInv, TypeOK, NewUntouched, AtMostOneAbout,
        SaysWhatIsHeld, MirrorOrPending, HeardOrPending, About, Applied, Pending, On
  <2> QED
    BY <2>1, <2>2, <2>3, <2>4, <2>5, <2>6, <2>7, <2>8 DEF Next
<1> QED
  BY <1>1, <1>2, PTL DEF Spec

\* No change is lost to a subscriber (notify, copying before calling).
THEOREM SubscribersHearEveryChange == Spec => []HearsEveryChange
<1>1. RegistryInv => HearsEveryChange
  BY DEF RegistryInv, HeardOrPending, HearsEveryChange, Quiet, Pending
<1> QED
  BY <1>1, RegistryInvariant, PTL

\* The copies of the registry do not drift (what DiscoveryBridge relies on).
THEOREM MirrorsAreExact == Spec => []MirrorExact
<1>1. RegistryInv => MirrorExact
  BY DEF RegistryInv, MirrorOrPending, MirrorExact, Quiet, About
<1> QED
  BY <1>1, RegistryInvariant, PTL
=============================================================================
