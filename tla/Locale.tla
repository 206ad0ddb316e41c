--------------------------------- MODULE Locale ---------------------------------
(***************************************************************************)
(* The language of the dashboard.  A tab shows the language its browser    *)
(* has saved, or one of those the browser asks for; then it asks the       *)
(* server, and takes what the server answers.  A language that is taken,   *)
(* chosen or answered, is saved in the browser and sent to the server,     *)
(* and nothing waits for it to get there.                                  *)
(***************************************************************************)
EXTENDS Integers, Sequences

CONSTANTS
  Supported,   \* SUPPORTED
  En,          \* English, among them
  Others,      \* languages that are not supported
  Browsers,
  Tabs,
  Browser,     \* the browser of a tab
  Languages,   \* navigator.languages of a browser
  NoLanguage,  \* no language
  Idle, Sent,  \* a tab without a request; one whose request is on its way
  MaxOpens,    \* bound: tabs opened
  MaxPicks     \* bound: languages chosen

ASSUME SupportedAssumption == En \in Supported /\ NoLanguage \notin Supported \cup Others
ASSUME BrowserAssumption == Browser \in [Tabs -> Browsers]
ASSUME LanguagesAssumption == Languages \in [Browsers -> Seq(Supported \cup Others)]
ASSUME RequestAssumption ==
  Idle # Sent /\ {Idle, Sent} \cap (Supported \cup Others \cup {NoLanguage}) = {}
ASSUME LocaleBoundsAssumption == MaxOpens \in Nat /\ MaxPicks \in Nat

\* What the setting is, or not set.
Settings == Supported \cup Others \cup {NoLanguage}

VARIABLES
  language,  \* the setting "language", if there is one
  patches,   \* requests under way that set it, by language
  saved,     \* hb_locale in the storage of each browser
  open,      \* the open tabs
  locale,    \* the language of each tab
  picker,    \* what its picker shows
  request,   \* its request for the settings, or the answer to it
  opens, picks,  \* bounds
  choice,    \* history: the last language chosen
  stored,    \* history: the server has it
  calm,      \* history: nothing was under way when it was chosen, no setting
             \* was read before the server had it, and it came there
  told       \* history: the tabs that know of it

server == <<language, patches>>
tabs == <<open, locale, picker, request>>
history == <<choice, stored, calm, told>>
localeVars == <<server, saved, tabs, opens, picks, history>>

LocaleTypeOK ==
  /\ language \in Settings
  /\ patches \in [Supported -> Nat]
  /\ saved \in [Browsers -> Supported \cup {NoLanguage}]
  /\ open \in SUBSET Tabs
  /\ locale \in [Tabs -> Supported]
  /\ picker \in [Tabs -> Supported]
  /\ request \in [Tabs -> Settings \cup {Idle, Sent}]
  /\ opens \in 0..MaxOpens /\ picks \in 0..MaxPicks
  /\ choice \in Supported \cup {NoLanguage}
  /\ stored \in BOOLEAN /\ calm \in BOOLEAN
  /\ told \in SUBSET Tabs

-------------------------------------------------------------------------------
\* What is saved; else the first language of the browser that is supported.
DetectLocale(b) ==
  LET langs == Languages[b]
      Wanted(i) == /\ langs[i] \in Supported
                   /\ \A j \in 1..(i - 1) : langs[j] \notin Supported
  IN  IF saved[b] \in Supported THEN saved[b]
      ELSE IF \E i \in DOMAIN langs : Wanted(i)
      THEN langs[CHOOSE i \in DOMAIN langs : Wanted(i)]
      ELSE En

\* Mutant: the server is sent the language the tab showed before.
SetLocaleSendsOld(t, code) ==
  /\ locale' = [locale EXCEPT ![t] = code]
  /\ saved' = [saved EXCEPT ![Browser[t]] = code]
  /\ patches' = [patches EXCEPT ![locale[t]] = @ + 1]

\* setLocale: the tab shows it, the browser saves it, the server is sent it.
SetLocale(t, code) ==
  /\ locale' = [locale EXCEPT ![t] = code]
  /\ saved' = [saved EXCEPT ![Browser[t]] = code]
  /\ patches' = [patches EXCEPT ![code] = @ + 1]

-------------------------------------------------------------------------------
(* A tab *)

\* The page loads: it shows the language detected, builds the picker, and asks
\* for the settings.
Open(t) ==
  /\ t \notin open
  /\ opens < MaxOpens /\ opens' = opens + 1
  /\ LET code == DetectLocale(Browser[t])
     IN  /\ locale' = [locale EXCEPT ![t] = code]
         /\ picker' = [picker EXCEPT ![t] = code]
  /\ open' = open \cup {t}
  /\ request' = [request EXCEPT ![t] = Sent]
  /\ told' = IF \E u \in told : Browser[u] = Browser[t] THEN told \cup {t}
             ELSE told \ {t}
  /\ UNCHANGED <<server, saved, picks, choice, stored, calm>>

\* A language is chosen; choosing the one shown is no change.
Pick(t, code) ==
  /\ t \in open
  /\ code \in Supported \ {picker[t]}
  /\ picks < MaxPicks /\ picks' = picks + 1
  /\ picker' = [picker EXCEPT ![t] = code]
  /\ SetLocale(t, code)
  /\ choice' = code
  /\ stored' = FALSE
  /\ calm' = /\ \A c \in Supported : patches[c] = 0
             /\ \A u \in Tabs : request[u] \in {Idle, Sent}
  /\ told' = {t}
  /\ UNCHANGED <<language, open, request, opens>>

\* The settings arrive.  A language that is set and supported is taken; the
\* picker was built before.
LoadSettings(t) ==
  /\ t \in open
  /\ request[t] \in Settings
  /\ request' = [request EXCEPT ![t] = Idle]
  /\ IF request[t] \in Supported
     THEN SetLocale(t, request[t])
     ELSE UNCHANGED <<locale, saved, patches>>
  /\ told' = IF stored /\ choice # NoLanguage THEN told \cup {t} ELSE told
  /\ UNCHANGED <<language, open, picker, opens, picks, choice, stored, calm>>

\* The request failed, which nobody hears of.
LoadSettingsFails(t) ==
  /\ t \in open
  /\ request[t] # Idle
  /\ request' = [request EXCEPT ![t] = Idle]
  /\ UNCHANGED <<server, saved, open, locale, picker, opens, picks, history>>

\* Its requests for the settings end with it; those that set the language may
\* have left.
Close(t) ==
  /\ t \in open
  /\ open' = open \ {t}
  /\ request' = [request EXCEPT ![t] = Idle]
  /\ UNCHANGED <<server, saved, locale, picker, opens, picks, history>>

-------------------------------------------------------------------------------
(* The server *)

GetSettings(t) ==
  /\ request[t] = Sent
  /\ request' = [request EXCEPT ![t] = language]
  /\ calm' = (calm /\ stored)
  /\ UNCHANGED <<server, saved, open, locale, picker, opens, picks, choice, stored, told>>

\* Requests that are under way at the same time are handled in any order.
UpdateSettings(code) ==
  /\ patches[code] > 0
  /\ patches' = [patches EXCEPT ![code] = @ - 1]
  /\ language' = code
  /\ stored' = TRUE
  /\ UNCHANGED <<saved, tabs, opens, picks, choice, calm, told>>

UpdateLost(code) ==
  /\ patches[code] > 0
  /\ patches' = [patches EXCEPT ![code] = @ - 1]
  /\ calm' = (calm /\ stored)
  /\ UNCHANGED <<language, saved, tabs, opens, picks, choice, stored, told>>

-------------------------------------------------------------------------------
\* Anybody may have set any language: the server takes what it is sent.
LocaleInit ==
  /\ language \in Settings
  /\ patches = [c \in Supported |-> 0]
  /\ saved = [b \in Browsers |-> NoLanguage]
  /\ open = {}
  /\ locale = [t \in Tabs |-> En]
  /\ picker = [t \in Tabs |-> En]
  /\ request = [t \in Tabs |-> Idle]
  /\ opens = 0 /\ picks = 0
  /\ choice = NoLanguage
  /\ stored = TRUE
  /\ calm = TRUE
  /\ told = {}

LocaleNext ==
  \/ \E t \in Tabs :
       \/ Open(t) \/ Close(t)
       \/ GetSettings(t) \/ LoadSettings(t) \/ LoadSettingsFails(t)
       \/ \E code \in Supported : Pick(t, code)
  \/ \E code \in Supported : UpdateSettings(code) \/ UpdateLost(code)

LocaleSpec == LocaleInit /\ [][LocaleNext]_localeVars

-------------------------------------------------------------------------------
(* Properties *)

\* A choice made while nothing else was under way stays the choice of the
\* account, although every tab sends back to the server what it is answered; and
\* it is what every tab shows that asked since, or was opened in a browser that
\* knows of it.  (src/CHANGELOG.md:108: "syncs across devices".)
ChoiceIsKept ==
  calm /\ stored /\ choice # NoLanguage =>
    /\ language = choice
    /\ \A t \in told : saved[Browser[t]] = choice /\ (t \in open => locale[t] = choice)
===============================================================================
