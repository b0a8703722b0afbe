---------------------------- MODULE Backend_proofs ----------------------------
(***************************************************************************)
(* Proofs about Backend, for any services, configurations and states, and  *)
(* any number of intents.                                                  *)
(***************************************************************************)
EXTENDS Backend, TLAPS

TunnelInv == Mirror /\ UpToDate
\* Only the object that exists asks for the VPN.
Asking == \A s \in Service : call = <<"requestVPN", s>> => instance = s

ServiceInv == ServiceAlive /\ RefsBalanced /\ Asking

IInv == TypeOK /\ TunnelInv /\ ServiceInv

\* The configuration that LocalBackend waits with.
Sent == config \in RCfg \X DCfg

USE DEF loopVars, tunVars, lbVars, androidVars, NoState, Stopped, Starting

-----------------------------------------------------------------------------
\* What updateTUN leaves behind: the tunnel it was asked for, or none.
LEMMA UpdateTUNResult ==
  ASSUME TypeOK, Mirror, NEW s \in Service, NEW r \in RCfg, NEW d \in DCfg,
         NEW failed \in BOOLEAN, tun # None => tun.service = s,
         UpdateTUN(s, r, d, failed)
  PROVE  /\ tun' = None \/ tun' = [service |-> s, rcfg |-> r, dcfg |-> d]
         /\ Mirror'
         /\ lastCfg' \in RCfg \cup {None} /\ lastDNSCfg' \in DCfg \cup {None}
         /\ tun' \in Tunnel \cup {None}
<1> USE NoneAssumption DEF TypeOK, Mirror
<1>1. CASE Unchanged(r, d)
  <2>1. UNCHANGED tunVars
    BY <1>1 DEF UpdateTUN
  <2>2. tun # None => tun = [service |-> s, rcfg |-> r, dcfg |-> d]
    BY <1>1 DEF Unchanged, Tunnel
  <2> QED
    BY <2>1, <2>2
<1>2. CASE ~Unchanged(r, d) /\ (r \notin Routable \/ failed)
  BY <1>2 DEF UpdateTUN, CloseForEmpty, CloseTUNs
<1>3. CASE ~Unchanged(r, d) /\ ~(r \notin Routable \/ failed)
  <2>1. /\ tun' = [service |-> s, rcfg |-> r, dcfg |-> d]
        /\ lastCfg' = r /\ lastDNSCfg' = d
    BY <1>3 DEF UpdateTUN
  <2>2. tun' \in Tunnel
    BY <2>1 DEF Tunnel
  <2> QED
    BY <1>3, <2>1, <2>2
<1> QED
  BY <1>1, <1>2, <1>3

-----------------------------------------------------------------------------
\* The initial state satisfies the invariant.
LEMMA InitInv == Init => IInv
BY NoneAssumption, StateAssumption
   DEF Init, IInv, TypeOK, Returned, Failed, Call, TunnelInv, Mirror, UpToDate,
       ServiceInv, ServiceAlive, RefsBalanced, One, Asking

\* The main loop takes a configuration.
LEMMA ConfigsStep ==
  ASSUME IInv, Configs
  PROVE  IInv'
<1> USE NoneAssumption DEF IInv, TunnelInv, ServiceInv
<1>1. PICK failed \in BOOLEAN :
        /\ config' = IF failed THEN Failed ELSE Returned
        /\ IF service = None THEN ~failed /\ UNCHANGED tunVars
           ELSE UpdateTUN(service, config[1], config[2], failed)
  BY DEF Configs
<1>2. /\ Sent /\ cfg' = config
      /\ UNCHANGED <<state, service, protect, refs, vpnClosed, lbState,
                     notifications, androidVars>>
  BY DEF Configs, Sent, TypeOK
<1>3. PICK r \in RCfg, d \in DCfg : config = <<r, d>>
  BY <1>2 DEF Sent
<1>4. tun # None => tun.service = service /\ service # None
  BY DEF UpToDate, TypeOK, Tunnel
<1>5. /\ tun' = None \/ tun' = [service |-> service, rcfg |-> r, dcfg |-> d]
      /\ Mirror'
      /\ lastCfg' \in RCfg \cup {None} /\ lastDNSCfg' \in DCfg \cup {None}
      /\ tun' \in Tunnel \cup {None}
  <2>1. CASE service = None
    BY <1>1, <1>4, <2>1 DEF TypeOK, Mirror
  <2>2. CASE service # None
    <3>1. UpdateTUN(service, r, d, failed)
      BY <1>1, <1>3, <2>2
    <3> QED
      BY <1>4, <2>2, <3>1, UpdateTUNResult DEF TypeOK
  <2> QED
    BY <2>1, <2>2
<1>6. TypeOK'
  <2>1. config' \in {Returned, Failed}
    BY <1>1
  <2> QED
    BY <1>2, <1>3, <1>5, <2>1 DEF TypeOK
<1>7. UpToDate'
  BY <1>2, <1>3, <1>5 DEF UpToDate
<1>8. ServiceAlive' /\ RefsBalanced' /\ Asking'
  BY <1>2 DEF ServiceAlive, RefsBalanced, One, Asking
<1> QED
  BY <1>5, <1>6, <1>7, <1>8

\* The main loop takes a notification.
LEMMA NotificationStep ==
  ASSUME IInv, Notification
  PROVE  IInv'
<1> USE NoneAssumption DEF IInv, TunnelInv, ServiceInv
<1>1. PICK failed \in BOOLEAN :
        /\ IF service = None THEN ~failed /\ UNCHANGED tunVars
           ELSE IF Wanted(state') THEN UpdateTUN(service, cfg[1], cfg[2], failed)
           ELSE ~failed /\ CloseTUNs
        /\ NotifyVPNClosed(failed)
  BY DEF Notification
<1>2. /\ notifications # <<>> /\ notifications' = Tail(notifications)
      /\ state' = Head(notifications)
      /\ UNCHANGED <<cfg, service, protect, refs, lbState, config, instance, call, revoking>>
  BY DEF Notification
<1>3. tun # None => tun.service = service /\ service # None
  BY DEF UpToDate, TypeOK, Tunnel
<1>4. /\ tun' = None \/ tun' = [service |-> service, rcfg |-> cfg[1], dcfg |-> cfg[2]]
      /\ Mirror'
      /\ lastCfg' \in RCfg \cup {None} /\ lastDNSCfg' \in DCfg \cup {None}
      /\ tun' \in Tunnel \cup {None}
  <2>1. CASE service = None
    BY <1>1, <1>3, <2>1 DEF TypeOK, Mirror
  <2>2. CASE service # None /\ Wanted(state')
    <3>1. cfg[1] \in RCfg /\ cfg[2] \in DCfg
      BY <2>2 DEF Wanted, TypeOK
    <3> QED
      BY <1>1, <1>3, <2>2, <3>1, UpdateTUNResult DEF TypeOK
  <2>3. CASE service # None /\ ~Wanted(state')
    BY <1>1, <2>3 DEF CloseTUNs, Mirror, TypeOK
  <2> QED
    BY <2>1, <2>2, <2>3
<1>5. TypeOK'
  <2>1. intents' \in Seq({"request", "stop"})
    <3>1. intents' \in {Append(intents, "stop"), intents}
      BY DEF Notification
    <3>2. intents \in Seq({"request", "stop"})
      BY DEF TypeOK
    <3> QED
      BY <3>1, <3>2
  <2>2. vpnClosed' \in 0..1
    BY <1>1 DEF NotifyVPNClosed, TypeOK
  <2>3. state' \in State /\ notifications' \in Seq(State)
    BY <1>2 DEF TypeOK
  <2> QED
    BY <1>2, <1>4, <2>1, <2>2, <2>3 DEF TypeOK
<1>6. UpToDate' 
  BY <1>2, <1>4 DEF UpToDate
<1>7. ServiceAlive' /\ RefsBalanced' /\ Asking'
  BY <1>2 DEF ServiceAlive, RefsBalanced, One, Asking
<1> QED
  BY <1>4, <1>5, <1>6, <1>7

\* The main loop takes the request of a service.
LEMMA VPNRequestedStep ==
  ASSUME IInv, VPNRequested
  PROVE  IInv'
<1> USE NoneAssumption DEF IInv, TunnelInv, ServiceInv
<1>1. PICK failed \in BOOLEAN :
        /\ IF Wanted(state) THEN UpdateTUN(call[2], cfg[1], cfg[2], failed)
           ELSE ~failed /\ UNCHANGED tunVars
        /\ NotifyVPNClosed(failed)
  BY DEF VPNRequested
<1>2. PICK s \in Service : call = <<"requestVPN", s>>
  BY DEF VPNRequested, TypeOK, Call
<1>3. /\ call' = <<>> /\ service' = s
      /\ protect' = IF SameObject(s) THEN protect ELSE s
      /\ refs' = IF service = None THEN refs ELSE Release(service, 1)
      /\ UNCHANGED <<state, cfg, lbVars, instance, intents, revoking>>
  BY <1>2 DEF VPNRequested

<1>4. service = None \/ service = s
  BY <1>2 DEF ServiceAlive, Asking
<1>5. tun # None => tun.service = s
  BY <1>4 DEF UpToDate, TypeOK, Tunnel
<1>6. /\ tun' = None \/ tun' = [service |-> s, rcfg |-> cfg[1], dcfg |-> cfg[2]]
      /\ Mirror'
      /\ lastCfg' \in RCfg \cup {None} /\ lastDNSCfg' \in DCfg \cup {None}
      /\ tun' \in Tunnel \cup {None}
  <2>1. CASE Wanted(state)
    <3>1. cfg[1] \in RCfg /\ cfg[2] \in DCfg
      BY <2>1 DEF Wanted, TypeOK
    <3>2. UpdateTUN(s, cfg[1], cfg[2], failed)
      BY <1>1, <1>2, <2>1
    <3> QED
      BY <1>5, <3>1, <3>2, UpdateTUNResult
  <2>2. CASE ~Wanted(state)
    <3>1. tun' = tun /\ lastCfg' = lastCfg /\ lastDNSCfg' = lastDNSCfg
      BY <1>1, <2>2
    <3>2. tun # None => tun = [service |-> s, rcfg |-> cfg[1], dcfg |-> cfg[2]]
      BY <1>4, <1>5 DEF UpToDate, TypeOK, Tunnel
    <3>3. Mirror'
      BY <3>1 DEF Mirror
    <3>4. /\ lastCfg' \in RCfg \cup {None} /\ lastDNSCfg' \in DCfg \cup {None}
          /\ tun' \in Tunnel \cup {None}
      BY <3>1 DEF TypeOK
    <3> QED
      BY <3>1, <3>2, <3>3, <3>4
  <2> QED
    BY <2>1, <2>2
<1>7. refs' = [refs EXCEPT ![s] = 1 + One(s \in revoking)] /\ protect' = s
  <2>1. refs[s] = One(service = s) + 1 + One(s \in revoking)
    BY <1>2 DEF RefsBalanced, One
  <2>2. refs' = [refs EXCEPT ![s] = 1 + One(s \in revoking)]
    <3>1. CASE service = None
      <4>1. refs' = refs /\ refs[s] = 1 + One(s \in revoking)
        BY <1>3, <2>1, <3>1 DEF One
      <4> QED
        BY <4>1 DEF TypeOK
    <3>2. CASE service = s
      <4>1. refs[s] = 2 + One(s \in revoking)
        BY <2>1, <3>2 DEF One
      <4>2. refs' = [refs EXCEPT ![s] = @ - 1]
        BY <1>3, <3>2 DEF Release
      <4>3. refs[s] - 1 = 1 + One(s \in revoking)
        BY <4>1 DEF One
      <4> QED
        BY <4>2, <4>3
    <3> QED
      BY <1>4, <3>1, <3>2
  <2>3. protect' = s
    BY <1>3 DEF SameObject, ServiceAlive
  <2> QED
    BY <2>2, <2>3
<1>8. TypeOK'
  <2>1. vpnClosed' \in 0..1
    BY <1>1 DEF NotifyVPNClosed, TypeOK
  <2>2. refs' \in [Service -> Nat]
    BY <1>7 DEF TypeOK, One
  <2> QED
    BY <1>3, <1>6, <1>7, <2>1, <2>2 DEF TypeOK, Call
<1>9. UpToDate'
  BY <1>3, <1>6 DEF UpToDate
<1>10. ServiceAlive'
  BY <1>2, <1>3, <1>7 DEF ServiceAlive, Asking
<1>11. Asking'
  BY <1>3 DEF Asking
<1>12. RefsBalanced'
  <2> SUFFICES ASSUME NEW e \in Service
               PROVE  refs'[e] = One(service' = e) + One(FALSE) + One(e \in revoking)
    BY <1>3 DEF RefsBalanced
  <2>1. CASE e = s
    BY <1>3, <1>7, <2>1 DEF One, TypeOK
  <2>2. CASE e # s
    <3>1. refs'[e] = refs[e]
      BY <1>7, <2>2 DEF TypeOK
    <3>2. refs[e] = One(e \in revoking)
      BY <1>2, <1>4, <2>2 DEF RefsBalanced, One
    <3> QED
      BY <1>3, <2>2, <3>1, <3>2 DEF One
  <2> QED
    BY <2>1, <2>2
<1> QED
  BY <1>6, <1>8, <1>9, <1>10, <1>11, <1>12

\* What a disconnect leaves behind when held references to s are counted beside
\* the one of the main loop.
LEMMA TakeDisconnectResult ==
  ASSUME IInv, NEW s \in Service, NEW held \in Nat, held >= 1,
         refs[s] = One(service = s) + held, TakeDisconnect(s)
  PROVE  /\ Mirror' /\ UpToDate'
         /\ vpnClosed' \in 0..1 /\ tun' = None /\ lastCfg' = None /\ lastDNSCfg' = lastDNSCfg
         /\ refs' = [refs EXCEPT ![s] = held - 1]
         /\ service' = IF service = s THEN None ELSE service
         /\ protect' = IF service = s THEN None ELSE protect
         /\ UNCHANGED <<state, cfg, lbVars, instance, intents>>
<1> USE NoneAssumption DEF IInv, TunnelInv, ServiceInv
<1>1. /\ tun' = None /\ lastCfg' = None /\ lastDNSCfg' = lastDNSCfg
      /\ IF service = s
         THEN service' = None /\ protect' = None /\ refs' = Release(s, 2)
         ELSE refs' = Release(s, 1) /\ UNCHANGED <<service, protect>>
      /\ UNCHANGED <<state, cfg, lbVars, instance, intents>>
  BY DEF TakeDisconnect, CloseTUNs, SameObject
<1>2. vpnClosed' \in 0..1
  BY DEF TakeDisconnect, NotifyVPNClosed, TypeOK
<1>3. refs' = [refs EXCEPT ![s] = held - 1]
  <2>1. CASE service = s
    <3>1. refs' = [refs EXCEPT ![s] = @ - 2] /\ refs[s] - 2 = held - 1
      BY <1>1, <2>1 DEF Release, One
    <3> QED
      BY <3>1
  <2>2. CASE service # s
    <3>1. refs' = [refs EXCEPT ![s] = @ - 1] /\ refs[s] - 1 = held - 1
      BY <1>1, <2>2 DEF Release, One
    <3> QED
      BY <3>1
  <2> QED
    BY <2>1, <2>2
<1>4. Mirror' /\ UpToDate'
  BY <1>1 DEF Mirror, UpToDate
<1> QED
  BY <1>1, <1>2, <1>3, <1>4

\* The main loop takes the disconnect of a service.
LEMMA DisconnectStep ==
  ASSUME IInv, Disconnect
  PROVE  IInv'
<1> USE NoneAssumption DEF IInv, TunnelInv, ServiceInv
<1>1. PICK s \in Service : call = <<"disconnect", s>>
  BY DEF Disconnect, TypeOK, Call
<1>2. call' = <<>> /\ revoking' = revoking /\ TakeDisconnect(s)
  BY <1>1 DEF Disconnect
<1> DEFINE held == 1 + One(s \in revoking)
<1>3. held \in Nat /\ held >= 1 /\ refs[s] = One(service = s) + held
  BY <1>1 DEF RefsBalanced, One
<1> HIDE DEF held
<1>4. /\ Mirror' /\ UpToDate'
      /\ vpnClosed' \in 0..1 /\ tun' = None /\ lastCfg' = None /\ lastDNSCfg' = lastDNSCfg
      /\ refs' = [refs EXCEPT ![s] = held - 1]
      /\ service' = IF service = s THEN None ELSE service
      /\ protect' = IF service = s THEN None ELSE protect
      /\ UNCHANGED <<state, cfg, lbVars, instance, intents>>
  BY <1>2, <1>3, TakeDisconnectResult
<1>5. TypeOK'
  BY <1>2, <1>3, <1>4 DEF TypeOK, Call
<1>6. ServiceAlive' /\ Asking'
  BY <1>1, <1>2, <1>4 DEF ServiceAlive, Asking
<1>7. RefsBalanced'
  <2> SUFFICES ASSUME NEW e \in Service
               PROVE  refs'[e] = One(service' = e) + One(FALSE) + One(e \in revoking)
    BY <1>2 DEF RefsBalanced
  <2>1. CASE e = s
    BY <1>4, <2>1 DEF One, TypeOK, held
  <2>2. CASE e # s
    <3>1. refs'[e] = refs[e] /\ refs[e] = One(service = e) + One(e \in revoking)
      BY <1>1, <1>4, <2>2 DEF RefsBalanced, One, TypeOK
    <3> QED
      BY <1>4, <2>2, <3>1 DEF One
  <2> QED
    BY <2>1, <2>2
<1> QED
  BY <1>4, <1>5, <1>6, <1>7

\* The main loop takes the disconnect of a service that was revoked, which may not
\* be the one that is connected.
LEMMA RevokedStep ==
  ASSUME IInv, NEW s \in Service, Revoked(s)
  PROVE  IInv'
<1> USE NoneAssumption DEF IInv, TunnelInv, ServiceInv
<1>1. s \in revoking /\ revoking' = revoking \ {s} /\ call' = call /\ TakeDisconnect(s)
  BY DEF Revoked
<1> DEFINE held == 1 + One(call # <<>> /\ call[2] = s)
<1>2. held \in Nat /\ held >= 1 /\ refs[s] = One(service = s) + held
  BY <1>1 DEF RefsBalanced, One
<1> HIDE DEF held
<1>3. /\ Mirror' /\ UpToDate'
      /\ vpnClosed' \in 0..1 /\ tun' = None /\ lastCfg' = None /\ lastDNSCfg' = lastDNSCfg
      /\ refs' = [refs EXCEPT ![s] = held - 1]
      /\ service' = IF service = s THEN None ELSE service
      /\ protect' = IF service = s THEN None ELSE protect
      /\ UNCHANGED <<state, cfg, lbVars, instance, intents>>
  BY <1>1, <1>2, TakeDisconnectResult
<1>4. TypeOK'
  BY <1>1, <1>2, <1>3 DEF TypeOK, Call
<1>5. ServiceAlive' /\ Asking'
  BY <1>1, <1>3 DEF ServiceAlive, Asking
<1>6. RefsBalanced'
  <2> SUFFICES ASSUME NEW e \in Service
               PROVE  refs'[e] = One(service' = e) + One(call # <<>> /\ call[2] = e)
                                   + One(e \in revoking')
    BY <1>1 DEF RefsBalanced
  <2>1. CASE e = s
    <3>1. e \notin revoking' /\ service' # e
      BY <1>1, <1>3, <2>1
    <3>2. refs'[e] = One(call # <<>> /\ call[2] = e)
      BY <1>3, <2>1 DEF One, TypeOK, held
    <3> QED
      BY <3>1, <3>2 DEF One
  <2>2. CASE e # s
    <3>1. refs'[e] = refs[e] /\ (service' = e <=> service = e)
      BY <1>3, <2>2 DEF TypeOK
    <3>2. e \in revoking' <=> e \in revoking
      BY <1>1, <2>2
    <3> QED
      BY <3>1, <3>2 DEF RefsBalanced, One
  <2> QED
    BY <2>1, <2>2
<1> QED
  BY <1>3, <1>4, <1>5, <1>6

\* LocalBackend, Android and the UI take a step.
LEMMA EnvironmentStep ==
  ASSUME IInv, Environment
  PROVE  IInv'
<1> USE NoneAssumption DEF IInv, TunnelInv, ServiceInv
<1>1. ASSUME NEW s \in State, ChangeState(s) PROVE IInv'
  <2>1. /\ lbState' = s /\ notifications' = <<s>>
        /\ UNCHANGED <<loopVars, tunVars, vpnClosed, config, androidVars>>
    BY <1>1 DEF ChangeState
  <2>2. <<s>> \in Seq(State)
    OBVIOUS
  <2>3. TypeOK'
    BY <2>1, <2>2 DEF TypeOK
  <2>4. Mirror' /\ UpToDate'
    BY <2>1 DEF Mirror, UpToDate
  <2>5. ServiceAlive' /\ RefsBalanced' /\ Asking'
    BY <2>1 DEF ServiceAlive, RefsBalanced, One, Asking
  <2> QED
    BY <2>3, <2>4, <2>5
<1>2. ASSUME NEW r \in RCfg, NEW d \in DCfg, SendConfig(r, d) PROVE IInv'
  <2>1. /\ config' = <<r, d>>
        /\ UNCHANGED <<loopVars, tunVars, vpnClosed, lbState, notifications, androidVars>>
    BY <1>2 DEF SendConfig
  <2>2. TypeOK'
    BY <2>1 DEF TypeOK
  <2>3. Mirror' /\ UpToDate'
    BY <2>1 DEF Mirror, UpToDate
  <2>4. ServiceAlive' /\ RefsBalanced' /\ Asking'
    BY <2>1 DEF ServiceAlive, RefsBalanced, One, Asking
  <2> QED
    BY <2>2, <2>3, <2>4
<1>3. CASE StartVPN \/ UIClosed
  <2>1. /\ UNCHANGED <<loopVars, tunVars, lbVars, instance, call, revoking>>
        /\ intents' = intents \/ intents' = Append(intents, "request")
        /\ vpnClosed' = vpnClosed \/ vpnClosed' = 0
    BY <1>3 DEF StartVPN, UIClosed
  <2>2. intents' \in Seq({"request", "stop"})
    <3>1. intents \in Seq({"request", "stop"})
      BY DEF TypeOK
    <3>2. Append(intents, "request") \in Seq({"request", "stop"})
      BY <3>1
    <3> QED
      BY <2>1, <3>1, <3>2
  <2>3. TypeOK'
    BY <2>1, <2>2 DEF TypeOK
  <2>4. Mirror' /\ UpToDate'
    BY <2>1 DEF Mirror, UpToDate
  <2>5. ServiceAlive' /\ RefsBalanced' /\ Asking'
    BY <2>1 DEF ServiceAlive, RefsBalanced, One, Asking
  <2> QED
    BY <2>3, <2>4, <2>5
<1>4. ASSUME NEW s \in Service, OnStartCommand(s) \/ OnDestroy(s) PROVE IInv'
  <2>1. PICK op \in {"requestVPN", "disconnect"} :
          /\ call' = <<op, s>>
          /\ (instance' = s \/ (instance' = None /\ op = "disconnect"))
    <3>1. CASE OnStartCommand(s)
      BY <3>1 DEF OnStartCommand
    <3>2. CASE OnDestroy(s)
      BY <3>2 DEF OnDestroy
    <3> QED
      BY <1>4, <3>1, <3>2
  <2>2. /\ call = <<>>
        /\ instance \in {None, s}
        /\ refs' = [refs EXCEPT ![s] = @ + 1]
        /\ UNCHANGED <<state, cfg, service, protect, tunVars, vpnClosed, lbVars, revoking>>
    BY <1>4 DEF OnStartCommand, OnDestroy, NewRef
  <2>3. intents' = intents \/ (intents # <<>> /\ intents' = Tail(intents))
    BY <1>4 DEF OnStartCommand, OnDestroy
  <2>4. intents' \in Seq({"request", "stop"})
    <3>1. intents \in Seq({"request", "stop"})
      BY DEF TypeOK
    <3>2. intents # <<>> => Tail(intents) \in Seq({"request", "stop"})
      BY <3>1
    <3> QED
      BY <2>3, <3>1, <3>2
  <2>5. refs' \in [Service -> Nat]
    BY <2>2 DEF TypeOK
  <2>6. TypeOK'
    BY <2>1, <2>2, <2>4, <2>5 DEF TypeOK, Call
  <2>7. Mirror' /\ UpToDate'
    BY <2>2 DEF Mirror, UpToDate
  <2>8. Asking'
    BY <2>1 DEF Asking
  <2>9. ServiceAlive'
    BY <2>1, <2>2 DEF ServiceAlive
  <2>10. RefsBalanced'
    <3> SUFFICES ASSUME NEW e \in Service
                 PROVE  refs'[e] = One(service = e) + One(s = e) + One(e \in revoking)
      BY <2>1, <2>2 DEF RefsBalanced
    <3>1. refs[e] = One(service = e) + One(e \in revoking)
      BY <2>2 DEF RefsBalanced, One
    <3> QED
      BY <2>2, <3>1 DEF One, TypeOK
  <2> QED
    BY <2>6, <2>7, <2>8, <2>9, <2>10
<1>5. ASSUME NEW s \in Service, OnRevoke(s) PROVE IInv'
  <2>1. /\ s \notin revoking /\ revoking' = revoking \cup {s}
        /\ refs' = [refs EXCEPT ![s] = @ + 1]
        /\ UNCHANGED <<state, cfg, service, protect, tunVars, vpnClosed, lbVars,
                       instance, intents, call>>
    BY <1>5 DEF OnRevoke, NewRef
  <2>2. refs' \in [Service -> Nat]
    BY <2>1 DEF TypeOK
  <2>3. TypeOK'
    BY <2>1, <2>2 DEF TypeOK
  <2>4. Mirror' /\ UpToDate' /\ ServiceAlive' /\ Asking'
    BY <2>1 DEF Mirror, UpToDate, ServiceAlive, Asking
  <2>5. RefsBalanced'
    <3> SUFFICES ASSUME NEW e \in Service
                 PROVE  refs'[e] = One(service = e) + One(call # <<>> /\ call[2] = e)
                                     + One(e \in revoking \cup {s})
      BY <2>1 DEF RefsBalanced
    <3>1. CASE e = s
      BY <2>1, <3>1 DEF RefsBalanced, One, TypeOK
    <3>2. CASE e # s
      BY <2>1, <3>2 DEF RefsBalanced, One, TypeOK
    <3> QED
      BY <3>1, <3>2
  <2> QED
    BY <2>3, <2>4, <2>5
<1> QED
  BY <1>1, <1>2, <1>3, <1>4, <1>5 DEF Environment

-----------------------------------------------------------------------------
\* The invariant holds throughout.
THEOREM Invariance == Spec => []IInv
<1>1. Init => IInv
  BY InitInv
<1>2. IInv /\ [Next]_vars => IInv'
  <2> SUFFICES ASSUME IInv, [Next]_vars PROVE IInv'
    OBVIOUS
  <2>1. CASE MainLoop
    BY <2>1, ConfigsStep, NotificationStep, VPNRequestedStep, DisconnectStep,
       RevokedStep DEF MainLoop
  <2>2. CASE Environment
    BY <2>2, EnvironmentStep
  <2>3. CASE UNCHANGED vars
    BY <2>3 DEF vars, IInv, TypeOK, TunnelInv, Mirror, UpToDate,
       ServiceInv, ServiceAlive, RefsBalanced, One, Asking
  <2> QED
    BY <2>1, <2>2, <2>3 DEF Next
<1> QED
  BY <1>1, <1>2, PTL DEF Spec

-----------------------------------------------------------------------------
\* The types of the state hold in every behaviour of the main loop, and no count of
\* references goes below zero.
THEOREM TypeCorrect == Spec => []TypeOK
BY Invariance, PTL DEF IInv

\* lastCfg and lastDNSCfg always describe the tunnel that is up, so the early
\* return of updateTUN never leaves a dead or an outdated tunnel behind.
THEOREM MirrorsTunnel == Spec => []Mirror
BY Invariance, PTL DEF IInv, TunnelInv

\* The tunnel that is up has the latest configuration and belongs to the service
\* that is connected, however states, configurations and callbacks interleave.
THEOREM TunnelUpToDate == Spec => []UpToDate
BY Invariance, PTL DEF IInv, TunnelInv

\* The service that the main loop and the protect function use exists.
THEOREM ServiceStaysAlive == Spec => []ServiceAlive
BY Invariance, PTL DEF IInv, ServiceInv

\* Global references to IPNService neither leak nor are deleted twice.
THEOREM ReferencesBalanced == Spec => []RefsBalanced
BY Invariance, PTL DEF IInv, ServiceInv

\* Both together.
THEOREM ReferencesSound == Spec => []RefsSound
BY ServiceStaysAlive, ReferencesBalanced, PTL DEF RefsSound

-----------------------------------------------------------------------------
\* updateTUN that reports no error for routes with addresses brings a tunnel up.
LEMMA UpdateTUNUp ==
  ASSUME IInv, NEW s \in Service, NEW r \in Routable, NEW d \in DCfg,
         UpdateTUN(s, r, d, FALSE)
  PROVE  tun' # None
<1> USE CfgAssumption, NoneAssumption
<1>1. CASE Unchanged(r, d)
  <2>1. r # None
    OBVIOUS
  <2>2. tun # None
    BY <1>1, <2>1 DEF Unchanged, IInv, TunnelInv, Mirror
  <2> QED
    BY <1>1, <2>2 DEF UpdateTUN
<1>2. CASE ~Unchanged(r, d)
  <2>1. tun' = [service |-> s, rcfg |-> r, dcfg |-> d]
    BY <1>2, CfgAssumption DEF UpdateTUN
  <2>2. tun' \in Tunnel
    BY <2>1 DEF Tunnel
  <2> QED
    BY <2>2
<1> QED
  BY <1>1, <1>2

\* Whenever a step of the main loop leaves a wanted tunnel down, the UI or the
\* LocalBackend that sent the configuration is told.
THEOREM DownIsReported == Spec => NeverSilentlyDown
<1> DEFINE Reported == vpnClosed' = 1 \/ (config' # config /\ config' = Failed)
<1>1. IInv /\ IInv' /\ [Next]_vars => [MainLoop /\ Down' => Reported]_vars
  <2> SUFFICES ASSUME IInv, IInv', MainLoop, Down' PROVE Reported
    OBVIOUS
  <2>1. /\ service' # None /\ tun' = None
        /\ cfg'[1] \in Routable /\ cfg'[1] # None /\ state' >= Starting
    BY DEF Down, Wanted
  <2>2. cfg' \in RCfg \X DCfg /\ service' \in Service
    BY <2>1 DEF IInv, TypeOK
  <2>3. CASE Configs
    <3>1. config \in RCfg \X DCfg /\ cfg' = config /\ service' = service
      BY <2>3 DEF Configs, IInv, TypeOK
    <3>2. PICK failed \in BOOLEAN :
            /\ config' = IF failed THEN Failed ELSE Returned
            /\ UpdateTUN(service, config[1], config[2], failed)
      BY <2>1, <2>3, <3>1 DEF Configs
    <3>3. failed = TRUE
      BY <2>1, <2>2, <3>1, <3>2, UpdateTUNUp
    <3>4. config # Failed
      BY <2>3 DEF Configs
    <3> QED
      BY <3>2, <3>3, <3>4
  <2>4. CASE Notification
    <3>1. cfg' = cfg /\ service' = service /\ Wanted(state')
      BY <2>1, <2>4 DEF Notification, Wanted
    <3>2. PICK failed \in BOOLEAN :
            /\ UpdateTUN(service, cfg[1], cfg[2], failed)
            /\ NotifyVPNClosed(failed)
      BY <2>1, <2>4, <3>1 DEF Notification
    <3>3. failed = TRUE
      BY <2>1, <2>2, <3>1, <3>2, UpdateTUNUp
    <3> QED
      BY <3>2, <3>3 DEF NotifyVPNClosed
  <2>5. CASE VPNRequested
    <3>1. cfg' = cfg /\ state' = state /\ service' = call[2] /\ Wanted(state)
      BY <2>1, <2>5 DEF VPNRequested, Wanted
    <3>2. PICK failed \in BOOLEAN :
            /\ UpdateTUN(call[2], cfg[1], cfg[2], failed)
            /\ NotifyVPNClosed(failed)
      BY <2>5, <3>1 DEF VPNRequested
    <3>3. failed = TRUE
      BY <2>1, <2>2, <3>1, <3>2, UpdateTUNUp
    <3> QED
      BY <3>2, <3>3 DEF NotifyVPNClosed
  <2>6. CASE Disconnect \/ \E s \in Service : Revoked(s)
    <3>1. state' = state /\ NotifyVPNClosed(state >= Starting)
      BY <2>6 DEF Disconnect, Revoked, TakeDisconnect
    <3> QED
      BY <2>1, <3>1 DEF NotifyVPNClosed
  <2> QED
    BY <2>3, <2>4, <2>5, <2>6 DEF MainLoop
<1> QED
  BY <1>1, Invariance, PTL DEF Spec, NeverSilentlyDown
=============================================================================
