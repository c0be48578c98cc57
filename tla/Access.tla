-------------------------------- MODULE Access --------------------------------
(***************************************************************************)
(* Who gets into a databox: the password that ContainerManager.Start loads  *)
(* or makes, the QR code that shows it to the mobile app, and the sessions  *)
(* of secureServer.go.  The password and the QR code are kept in the store  *)
(* of the container manager, which outlives its process; the sessions and   *)
(* the password that auth compares with live in memory.                     *)
(***************************************************************************)
EXTENDS FiniteSets

CONSTANTS
  Client,     \* browsers and mobile apps
  Password,   \* what genoratePassword may return
  Override,   \* Options.OverridePasword, where it is set
  Options,    \* may databox be started with it?
  Faults,     \* calls that may fail: to the store, and the launch of core-ui
  None        \* the empty password

ASSUME AccessAssumption ==
  /\ Options \subseteq BOOLEAN /\ Options # {}
  /\ Faults \subseteq {"load", "save", "launch"}
  /\ None \notin Password /\ Override \notin Password \cup {None}

VARIABLES
  pc,          \* of Start
  password,    \* what auth compares with
  publishing,  \* is populateMobileAppQrCodeAndCerts still to write the code?
  sessions,    \* the clients whose cookie is in sessionTokens
  ui,          \* is core-ui in InstalledComponents?
  launching,   \* is launchUI still to launch it?
  stored,      \* slaStore, CMPassword
  qrcode,      \* the password in data, qrcode.png
  overridden,  \* was databox started with OverridePasword?
  known,       \* the password each client has
  request,     \* what each client asks, or was told
  calm,        \* have deaths and failing calls come to an end?
  opened,      \* history: the passwords that opened a session
  spoilt       \* history: the calls to the store that failed

coreui  == <<ui, launching>>
memory  == <<pc, password, publishing, sessions, coreui>>
store   == <<stored, qrcode>>
clients == <<known, request>>
vars    == <<memory, store, overridden, clients, calm, opened, spoilt>>

Asked    == {"page", "login", "authorised"}
Answered == {"none", "shown", "connected", "refused", "not found"}

TypeOK ==
  /\ pc \in {"off", "password", "expose", "serving"}
  /\ password \in Password \cup {Override, None}
  /\ publishing \in BOOLEAN /\ ui \in BOOLEAN /\ launching \in BOOLEAN
  /\ sessions \subseteq Client
  /\ stored \in Password \cup {None}
  /\ qrcode \in Password \cup {None}
  /\ overridden \in Options
  /\ known \in [Client -> Password \cup {None}]
  /\ request \in [Client -> Asked \cup Answered]
  /\ calm \in BOOLEAN
  /\ opened \subseteq Password \cup {Override}
  /\ spoilt \subseteq {"load", "save"}

-----------------------------------------------------------------------------
At(l) == pc = l
Goto(l) == pc' = l

\* Bound: each call to the store fails at most once.
MayFail(call) == ~calm /\ call \in Faults \ spoilt

-----------------------------------------------------------------------------
(* Start settles the password *)

\* Mutant: OverridePasword is saved, too.
SaveOverride ==
  /\ At("password") /\ overridden
  /\ password' = Override /\ stored' = Override
  /\ Goto("expose")
  /\ UNCHANGED <<publishing, sessions, coreui, qrcode, overridden, clients, calm,
                 opened, spoilt>>

UseOverride ==
  /\ At("password") /\ overridden
  /\ password' = Override
  /\ Goto("expose")
  /\ UNCHANGED <<publishing, sessions, coreui, store, overridden, clients, calm,
                 opened, spoilt>>

LoadPassword ==
  /\ At("password") /\ ~overridden /\ stored # None
  /\ password' = stored
  /\ Goto("expose")
  /\ UNCHANGED <<publishing, sessions, coreui, store, overridden, clients, calm,
                 opened, spoilt>>

InUse == {stored, qrcode} \cup opened \cup {known[c] : c \in Client}
Fresh == CHOOSE p \in Password : p \notin InUse

\* Bound: Password is finite; rand never makes a password again.
HasFresh == \E p \in Password : p \notin InUse

\* Mutant: the password is not loaded.
LoadedNothing(failed) == ~failed

\* LoadPassword returned the empty password: there is none, or it failed.
LoadedNone(failed) ==
  IF failed THEN MayFail("load") ELSE stored = None

\* Mutant: the new password is not saved.
GenerateAndForget(failed, unsaved) ==
  /\ At("password") /\ ~overridden /\ LoadedNone(failed) /\ HasFresh
  /\ password' = Fresh
  /\ UNCHANGED stored
  /\ spoilt' = spoilt \cup (IF failed THEN {"load"} ELSE {})
  /\ Goto("expose")
  /\ UNCHANGED <<publishing, sessions, coreui, qrcode, overridden, clients, calm, opened>>

\* A new one is made, and saved over the old one; that either failed is logged.
GeneratePassword(failed, unsaved) ==
  /\ At("password") /\ ~overridden /\ LoadedNone(failed) /\ HasFresh
  /\ unsaved => MayFail("save")
  /\ password' = Fresh
  /\ stored' = IF unsaved THEN stored ELSE Fresh
  /\ spoilt' = spoilt \cup (IF failed THEN {"load"} ELSE {})
                      \cup (IF unsaved THEN {"save"} ELSE {})
  /\ Goto("expose")
  /\ UNCHANGED <<publishing, sessions, coreui, qrcode, overridden, clients, calm, opened>>

\* CmZestAPI, launchUI and the HTTPS server run on the side.
ExposeAndServe ==
  /\ At("expose")
  /\ publishing' = TRUE /\ launching' = TRUE
  /\ Goto("serving")
  /\ UNCHANGED <<password, sessions, ui, store, overridden, clients, calm,
                 opened, spoilt>>

\* Mutant: the QR code is made of what is served.
PublishServed ==
  /\ publishing
  /\ publishing' = FALSE
  /\ qrcode' = password
  /\ UNCHANGED <<pc, password, sessions, coreui, stored, overridden, clients, calm,
                 opened, spoilt>>

\* The QR code is made of the password loaded from the store again; its writing
\* over the old one, or the loading, may fail.
PublishQrCode ==
  /\ publishing
  /\ publishing' = FALSE
  /\ \/ qrcode' = stored /\ UNCHANGED spoilt
     \/ MayFail("load") /\ qrcode' = None /\ spoilt' = spoilt \cup {"load"}
     \/ MayFail("save") /\ UNCHANGED qrcode /\ spoilt' = spoilt \cup {"save"}
  /\ UNCHANGED <<pc, password, sessions, coreui, stored, overridden, clients, calm,
                 opened>>

\* That core-ui could not be launched is logged; nobody tries again in this life.
LaunchUI ==
  /\ launching
  /\ launching' = FALSE
  /\ ui' = TRUE \/ (MayFail("launch") /\ UNCHANGED ui)
  /\ UNCHANGED <<pc, password, publishing, sessions, store, overridden, clients,
                 calm, opened, spoilt>>

-----------------------------------------------------------------------------
(* auth and proxy *)

Answer(c, a) == request' = [request EXCEPT ![c] = a]

\* Mutant: one session at a time.
OpenOnlySession(c) ==
  /\ At("serving") /\ request[c] = "login" /\ known[c] = password
  /\ sessions' = {}
  /\ opened' = opened \cup {password}
  /\ Answer(c, "connected")
  /\ UNCHANGED <<pc, password, publishing, coreui, store, overridden, known, calm,
                 spoilt>>

\* The right password opens a session, whose token the answer brings,
OpenSession(c) ==
  /\ At("serving") /\ request[c] = "login" /\ known[c] = password
  /\ sessions' = sessions \cup {c}
  /\ opened' = opened \cup {password}
  /\ Answer(c, "connected")
  /\ UNCHANGED <<pc, password, publishing, coreui, store, overridden, known, calm,
                 spoilt>>

\* and anything else needs the token of one, but for the static pages of core-ui,
\* which are left out here.
CheckSession(c) ==
  /\ At("serving")
  /\ request[c] = "page" \/ (request[c] = "login" /\ known[c] # password)
  /\ Answer(c, IF c \in sessions THEN "authorised" ELSE "refused")
  /\ UNCHANGED <<memory, store, overridden, known, calm, opened, spoilt>>

\* proxy, to core-ui.
Proxy(c) ==
  /\ At("serving") /\ request[c] = "authorised"
  /\ Answer(c, IF ui THEN "shown" ELSE "not found")
  /\ UNCHANGED <<memory, store, overridden, known, calm, opened, spoilt>>

-----------------------------------------------------------------------------
(* Clients, and the life of the process *)

Scan(c) ==
  /\ qrcode # None /\ known[c] # qrcode /\ request[c] \in Answered
  /\ known' = [known EXCEPT ![c] = qrcode]
  /\ UNCHANGED <<memory, store, overridden, request, calm, opened, spoilt>>

\* A client that is refused uses its password.
Ask(c) ==
  /\ known[c] # None /\ request[c] \in Answered
  /\ Answer(c, IF request[c] = "refused" THEN "login" ELSE "page")
  /\ UNCHANGED <<memory, store, overridden, known, calm, opened, spoilt>>

Boot ==
  /\ At("off")
  /\ Goto("password")
  /\ UNCHANGED <<password, publishing, sessions, coreui, store, overridden, clients,
                 calm, opened, spoilt>>

Crash ==
  /\ ~calm /\ ~At("off")
  /\ Goto("off")
  /\ password' = None /\ publishing' = FALSE /\ sessions' = {}
  /\ ui' = FALSE /\ launching' = FALSE
  /\ request' = [c \in Client |-> IF request[c] \in Asked THEN "none" ELSE request[c]]
  /\ UNCHANGED <<store, overridden, known, calm, opened, spoilt>>

\* databox is started with other options.
Reconfigure ==
  /\ ~calm /\ At("off")
  /\ overridden' \in Options \ {overridden}
  /\ UNCHANGED <<memory, store, clients, calm, opened, spoilt>>

CalmsDown ==
  /\ ~calm
  /\ calm' = TRUE
  /\ UNCHANGED <<memory, store, overridden, clients, opened, spoilt>>

Init ==
  /\ pc = "off" /\ password = None /\ publishing = FALSE /\ sessions = {}
  /\ ui = FALSE /\ launching = FALSE
  /\ stored = None /\ qrcode = None
  /\ overridden \in Options
  /\ known = [c \in Client |-> None] /\ request = [c \in Client |-> "none"]
  /\ calm = FALSE /\ opened = {} /\ spoilt = {}

Start ==
  \/ Boot \/ UseOverride \/ LoadPassword
  \/ \E failed, unsaved \in BOOLEAN : GeneratePassword(failed, unsaved)
  \/ ExposeAndServe

Handle(c) == OpenSession(c) \/ CheckSession(c) \/ Proxy(c)

\* Everybody waits.
Quiet ==
  /\ At("serving") /\ ~publishing /\ ~launching
  /\ \A c \in Client : request[c] \in Answered
  /\ UNCHANGED vars

Next ==
  \/ Start \/ PublishQrCode \/ LaunchUI
  \/ \E c \in Client : Handle(c) \/ Scan(c) \/ Ask(c)
  \/ Crash \/ Reconfigure \/ CalmsDown \/ Quiet

Spec == Init /\ [][Next]_vars

-----------------------------------------------------------------------------
(* Properties *)

\* A password that opened the databox opens it again after any number of deaths,
\* at any step of Start, and after lives with OverridePasword, unless the store
\* failed: it is loaded, and saved before it is served.
PasswordLasts ==
  At("serving") /\ ~overridden /\ spoilt = {} =>
    opened \subseteq {password, Override}

\* The code that the app scans opens the databox that serves, once it has been
\* written, although it is made of what the store has and not of what is served;
\* unless OverridePasword is used or the store failed.
QrCodeOpens ==
  At("serving") /\ ~publishing /\ ~overridden /\ spoilt = {} => qrcode = password

\* When LoadPassword fails a new password takes the place of the one in the store.
\* That is the only way to lose it, whatever is served meanwhile.
PasswordKept ==
  [][stored # None /\ stored' # stored => "load" \in spoilt']_vars

-----------------------------------------------------------------------------
(* Liveness *)

\* The process runs and the store answers; clients that know a password use it;
\* one day the process dies, and a call fails, for the last time.
Fairness ==
  /\ WF_vars(Start) /\ WF_vars(PublishQrCode) /\ WF_vars(LaunchUI)
  /\ WF_vars(CalmsDown)
  /\ \A c \in Client : WF_vars(Handle(c)) /\ WF_vars(Ask(c))

FairSpec == Spec /\ Fairness

\* Serving without core-ui, whose launch failed.
Bare == At("serving") /\ ~launching /\ ~ui

\* Who scanned the code once is shown its page in the end, however many sessions
\* others open and however often the restarts of the manager forget them all,
\* unless the last life could not launch core-ui: then it is "not found" for good.
ScannedGetsIn ==
  \A c \in Client :
    known[c] # None ~> request[c] = "shown" \/ overridden \/ spoilt # {} \/ []Bare
=============================================================================
