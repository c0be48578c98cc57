---------------------------- MODULE Access_proofs ----------------------------
(***************************************************************************)
(* Proofs that passwords last, whatever the number of clients, deaths and   *)
(* failing calls.                                                           *)
(***************************************************************************)
EXTENDS Access, TLAPS

\* The invariant says what Start has settled at each of its steps.
Settled ==
  /\ pc = "off" => sessions = {} /\ ~publishing
  /\ pc \in {"password", "expose"} => ~publishing
  /\ pc \in {"expose", "serving"} => password # None
  /\ pc \in {"expose", "serving"} /\ overridden => password = Override
  /\ pc \in {"expose", "serving"} /\ ~overridden /\ spoilt = {} => password = stored

\* What opened a session is what the store has, or an override.
Opened == spoilt = {} => opened \subseteq {stored, Override} \ {None}

Published ==
  pc = "serving" /\ ~publishing /\ spoilt = {} => qrcode = stored

AccessInv == TypeOK /\ Settled /\ Opened /\ Published

\* A fresh password is none in use.
LEMMA FreshPassword ==
  ASSUME HasFresh
  PROVE  Fresh \in Password /\ Fresh \notin InUse
BY DEF HasFresh, Fresh

\* Each step keeps the variables in their types.
LEMMA TypeNext ==
  ASSUME TypeOK, Settled, [Next]_vars
  PROVE  TypeOK'
<1> USE AccessAssumption DEF TypeOK, memory, coreui, store, clients, Asked, Answered, Answer, MayFail
<1>1. CASE Boot \/ UseOverride \/ LoadPassword \/ ExposeAndServe
  BY <1>1 DEF Boot, UseOverride, LoadPassword, ExposeAndServe, At, Goto
<1>2. ASSUME NEW failed \in BOOLEAN, NEW unsaved \in BOOLEAN,
             GeneratePassword(failed, unsaved)
      PROVE  TypeOK'
  <2>1. Fresh \in Password
    BY <1>2, FreshPassword DEF GeneratePassword
  <2> QED  BY <1>2, <2>1 DEF GeneratePassword, Goto
<1>3. CASE PublishQrCode \/ LaunchUI
  BY <1>3 DEF PublishQrCode, LaunchUI
<1>4. ASSUME NEW c \in Client, Handle(c) \/ Scan(c) \/ Ask(c)
      PROVE  TypeOK'
  <2>1. CASE OpenSession(c)
    BY <2>1 DEF OpenSession, Settled, At
  <2>2. CASE CheckSession(c) \/ Proxy(c)
    BY <2>2 DEF CheckSession, Proxy
  <2>3. CASE Scan(c) \/ Ask(c)
    BY <2>3 DEF Scan, Ask
  <2> QED  BY <1>4, <2>1, <2>2, <2>3 DEF Handle
<1>5. CASE Crash \/ Reconfigure \/ CalmsDown
  BY <1>5 DEF Crash, Reconfigure, CalmsDown, Goto
<1>6. CASE Quiet \/ UNCHANGED vars
  BY <1>6 DEF Quiet, vars
<1> QED  BY <1>1, <1>2, <1>3, <1>4, <1>5, <1>6 DEF Next, Start

\* Each step keeps what is claimed of the password, of what opened sessions and
\* of the QR code.
LEMMA SettledNext ==
  ASSUME AccessInv, [Next]_vars
  PROVE  (Settled /\ Opened /\ Published)'
<1> USE AccessAssumption
    DEF AccessInv, TypeOK, Settled, Opened, Published, memory, coreui, store, clients, At, Goto
<1>1. CASE Boot \/ UseOverride \/ LoadPassword \/ ExposeAndServe
  BY <1>1 DEF Boot, UseOverride, LoadPassword, ExposeAndServe
<1>2. ASSUME NEW failed \in BOOLEAN, NEW unsaved \in BOOLEAN,
             GeneratePassword(failed, unsaved)
      PROVE  (Settled /\ Opened /\ Published)'
  <2>1. Fresh \in Password /\ Fresh # None
    BY <1>2, FreshPassword DEF GeneratePassword
  <2>2. spoilt' = {} => stored = None /\ stored' = Fresh /\ spoilt = {}
    BY <1>2, <2>1 DEF GeneratePassword, LoadedNone
  <2>3. /\ pc' = "expose" /\ ~overridden /\ overridden' = overridden /\ pc = "password"
        /\ password' = Fresh /\ opened' = opened /\ publishing' = publishing
    BY <1>2 DEF GeneratePassword
  <2> QED  BY <2>1, <2>2, <2>3
<1>3. CASE PublishQrCode
  BY <1>3 DEF PublishQrCode
<1>4. ASSUME NEW c \in Client, OpenSession(c)
      PROVE  (Settled /\ Opened /\ Published)'
  BY <1>4 DEF OpenSession
<1>5. CASE LaunchUI \/ CalmsDown \/ \E c \in Client : CheckSession(c) \/ Proxy(c) \/ Scan(c) \/ Ask(c)
  <2>1. UNCHANGED <<pc, password, publishing, sessions, store, overridden, opened, spoilt>>
    BY <1>5 DEF LaunchUI, CalmsDown, CheckSession, Proxy, Scan, Ask
  <2> QED  BY <2>1
<1>6. CASE Crash \/ Reconfigure
  BY <1>6 DEF Crash, Reconfigure
<1>7. CASE Quiet \/ UNCHANGED vars
  BY <1>7 DEF Quiet, vars
<1> QED  BY <1>1, <1>2, <1>3, <1>4, <1>5, <1>6, <1>7 DEF Next, Start, Handle

\* The invariant holds in every state.
LEMMA AccessInvariant == Spec => []AccessInv
<1>1. Init => AccessInv
  BY AccessAssumption
     DEF Init, AccessInv, TypeOK, Settled, Opened, Published, Asked, Answered
<1>2. AccessInv /\ [Next]_vars => AccessInv'
  BY TypeNext, SettledNext DEF AccessInv
<1> QED  BY <1>1, <1>2, PTL DEF Spec

\* The variables of Access keep their types.
THEOREM AccessTypeCorrect == Spec => []TypeOK
<1>1. AccessInv => TypeOK
  BY DEF AccessInv
<1> QED  BY <1>1, AccessInvariant, PTL

\* Whatever opened the databox once opens it now, unless the store failed.
THEOREM PasswordsLast == Spec => []PasswordLasts
<1>1. AccessInv => PasswordLasts
  BY DEF AccessInv, Settled, Opened, PasswordLasts, At
<1> QED  BY <1>1, AccessInvariant, PTL

\* The QR code shows the password that is served.
THEOREM QrCodeRight == Spec => []QrCodeOpens
<1>1. AccessInv => QrCodeOpens
  BY DEF AccessInv, Settled, Published, QrCodeOpens, At
<1> QED  BY <1>1, AccessInvariant, PTL

\* No step but a LoadPassword that failed loses the password in the store.
THEOREM PasswordsKept == Spec => PasswordKept
<1>1. ASSUME AccessInv, [Next]_vars
      PROVE  [stored # None /\ stored' # stored => "load" \in spoilt']_vars
  <2>1. SUFFICES ASSUME stored # None, stored' # stored
                 PROVE  "load" \in spoilt'
    OBVIOUS
  <2>2. ASSUME NEW failed \in BOOLEAN, NEW unsaved \in BOOLEAN,
               GeneratePassword(failed, unsaved)
        PROVE  "load" \in spoilt'
    BY <2>1, <2>2 DEF GeneratePassword, LoadedNone
  <2>3. CASE UNCHANGED stored
    BY <2>1, <2>3
  <2> QED
    BY <1>1, <2>2, <2>3
       DEF Next, Start, Boot, UseOverride, LoadPassword, ExposeAndServe, PublishQrCode,
           LaunchUI, Handle, OpenSession, CheckSession, Proxy, Scan, Ask, Crash,
           Reconfigure, CalmsDown, Quiet, vars, store, memory
<1> QED  BY <1>1, AccessInvariant, PTL DEF Spec, PasswordKept
=============================================================================
