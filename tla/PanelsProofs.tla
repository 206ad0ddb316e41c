------------------------------ MODULE PanelsProofs ------------------------------
(***************************************************************************)
(* What the forms of the dashboard show and do, for any files, spellings   *)
(* and passwords, and any number of calls.                                 *)
(***************************************************************************)
EXTENDS Panels, FiniteSetTheorems, TLAPS

(***************************************************************************)
(* The two parsers                                                         *)
(***************************************************************************)

LEMMA PreviewTyped ==
  ASSUME NEW file \in Seq(Line)
  PROVE  /\ IsFiniteSet({i \in DOMAIN file : Counted(file[i])})
         /\ Preview(file) \in Nat
<1>1. IsFiniteSet(DOMAIN file)
  BY FS_Interval
<1>2. IsFiniteSet({i \in DOMAIN file : Counted(file[i])})
  BY <1>1, FS_Subset
<1> QED BY <1>2, FS_CardinalityType DEF Preview

\* In a documented file, a domain is imported for a line that is counted, and for
\* every such line but those that name the host itself.
LEMMA ImportedIsCounted ==
  ASSUME NEW file \in Seq(Line), Documented(file)
  PROVE  Parsed(file) = {Lower[file[i].name] :
                           i \in {i \in DOMAIN file :
                                    /\ Counted(file[i])
                                    /\ \/ file[i].kind = "plain"
                                       \/ Lower[file[i].name] \notin Loopback \cup {LocalName}}}
<1>1. ASSUME NEW i \in DOMAIN file
      PROVE  Domain(file[i]) =
               IF /\ Counted(file[i])
                  /\ \/ file[i].kind = "plain"
                     \/ Lower[file[i].name] \notin Loopback \cup {LocalName}
               THEN {Lower[file[i].name]} ELSE {}
  <2>0. file[i] \in Line
    BY <1>1
  <2>1. file[i].kind \in {"comment", "hosts", "plain"} /\ file[i].name \in Names
    BY <1>1, <2>0 DEF Documented, Line
  <2>2. CASE file[i].kind = "comment"
    BY <2>2 DEF Domain, Counted
  <2>3. CASE file[i].kind = "hosts"
    BY <2>1, <2>3, LoopbackAssumption DEF Domain, Counted
  <2>4. CASE file[i].kind = "plain"
    <3>1. Domain(file[i]) = {Lower[n] : n \in {file[i].name} \cap Qualified}
      BY <2>4 DEF Domain
    <3>2. Counted(file[i]) <=> file[i].name \in Qualified
      BY <2>4 DEF Counted
    <3> QED BY <2>4, <3>1, <3>2
  <2> QED BY <2>1, <2>2, <2>3, <2>4
<1> QED BY <1>1 DEF Parsed

\* What the preview announces of a file holds of its import.
LEMMA PreviewsAnnounce ==
  ASSUME NEW file \in Seq(Line)
  PROVE  Announced(file, Preview(file))
<1> SUFFICES ASSUME Documented(file)
             PROVE  /\ Cardinality(Parsed(file)) <= Preview(file)
                    /\ Neat(file) => Cardinality(Parsed(file)) = Preview(file)
  BY DEF Announced
<1> DEFINE S == {i \in DOMAIN file : Counted(file[i])}
           T == {i \in S : \/ file[i].kind = "plain"
                           \/ Lower[file[i].name] \notin Loopback \cup {LocalName}}
           f == [i \in T |-> Lower[file[i].name]]
<1>1. IsFiniteSet(S) /\ T \subseteq S /\ Preview(file) = Cardinality(S)
  BY PreviewTyped DEF Preview
<1>2. Parsed(file) = {Lower[file[i].name] : i \in T}
  BY ImportedIsCounted
<1>3. f \in Surjection(T, Parsed(file))
  BY <1>2 DEF Surjection
<1>4. IsFiniteSet(T) /\ Cardinality(T) <= Cardinality(S)
  BY <1>1, FS_Subset
<1>5. /\ IsFiniteSet(Parsed(file))
      /\ Cardinality(Parsed(file)) <= Cardinality(T)
      /\ f \in Injection(T, Parsed(file)) => Cardinality(Parsed(file)) = Cardinality(T)
  <2> HIDE DEF f, T
  <2> QED BY <1>3, <1>4, FS_Surjection
<1>6. /\ Cardinality(S) \in Nat /\ Cardinality(T) \in Nat
      /\ Cardinality(Parsed(file)) \in Nat
  BY <1>1, <1>4, <1>5, FS_CardinalityType
<1>7. ASSUME Neat(file)
      PROVE  T = S /\ f \in Injection(T, Parsed(file))
  <2>1. T = S
    BY <1>7 DEF Neat
  <2>2. \A i, j \in T : f[i] = f[j] => i = j
    BY <1>7 DEF Neat
  <2>3. f \in [T -> Parsed(file)]
    BY <1>3 DEF Surjection
  <2> HIDE DEF f, S, T
  <2> QED BY <2>1, <2>2, <2>3 DEF Injection, IsInjective
<1> HIDE DEF S, T, f
<1> QED BY <1>1, <1>4, <1>5, <1>6, <1>7

(***************************************************************************)
(* Types                                                                   *)
(***************************************************************************)

CallType ==
  [id : 0..MaxCalls,
   kind : {"list", "upload", "device", "password", "sync"},
   what : {None} \cup Uploads \cup Changes,
   got : {"asked", "verified", "done", "refused", "lost"},
   alone : BOOLEAN]

DrawerType ==
  [open : BOOLEAN, name : BOOLEAN, url : BOOLEAN,
   file : Files \cup {None}, shown : Files \cup {None}]

FormType ==
  [open : BOOLEAN, current : Passwords \cup {None}, new : Passwords \cup {None}]

\* Each kind of call carries what its handler reads.
Carries ==
  \A c \in calls :
    /\ c.kind = "upload" => c.what \in Uploads
    /\ c.kind = "password" => c.what \in Changes

Typed == TypeOK /\ Carries

LEMMA CallTyped ==
  ASSUME made < MaxCalls, made \in 0..MaxCalls,
         NEW kind \in {"list", "upload", "device", "password", "sync"},
         NEW what \in {None} \cup Uploads \cup Changes
  PROVE  /\ Call(kind, what) \in CallType
         /\ Call(kind, what).kind = kind /\ Call(kind, what).what = what
         /\ Call(kind, what).got = "asked"
         /\ made + 1 \in 0..MaxCalls
BY PanelBoundsAssumption DEF Call, CallType

\* A new call besides those there are.
LEMMA MakeTyped ==
  ASSUME Typed,
         NEW kind \in {"list", "upload", "device", "sync"},
         NEW what \in {None} \cup Uploads,
         kind = "upload" => what \in Uploads,
         Make(Call(kind, what))
  PROVE  /\ calls' \subseteq CallType /\ Carries' /\ made' \in 0..MaxCalls
         /\ Waiting("password")' = Waiting("password")
<1>1. made < MaxCalls /\ made \in 0..MaxCalls /\ calls \subseteq CallType
  BY DEF Make, Typed, TypeOK, CallType
<1>2. /\ Call(kind, what) \in CallType
      /\ Call(kind, what).kind = kind /\ Call(kind, what).what = what
      /\ made + 1 \in 0..MaxCalls
  BY <1>1, CallTyped
<1>3. calls' = calls \cup {Call(kind, what)} /\ made' = made + 1
  BY DEF Make
<1>4. Carries'
  BY <1>2, <1>3 DEF Carries, Typed
<1>5. Waiting("password")' = Waiting("password")
  BY <1>2, <1>3 DEF Waiting
<1> QED BY <1>1, <1>2, <1>3, <1>4, <1>5

\* The server gets further with a call.
LEMMA GetTyped ==
  ASSUME Typed, NEW c \in calls,
         NEW got \in {"asked", "verified", "done", "refused", "lost"},
         Get(c, got)
  PROVE  calls' \subseteq CallType /\ Carries'
<1> DEFINE d == [c EXCEPT !.got = got]
<1>1. c \in CallType
  BY DEF Typed, TypeOK, CallType
<1>2. d \in CallType /\ d.kind = c.kind /\ d.what = c.what
  BY <1>1 DEF CallType
<1>3. calls' = (calls \ {c}) \cup {d}
  BY DEF Get
<1> HIDE DEF d
<1>4. calls' \subseteq CallType
  BY <1>2, <1>3 DEF Typed, TypeOK, CallType
<1>5. Carries'
  BY <1>2, <1>3 DEF Carries, Typed
<1> QED BY <1>4, <1>5

\* A change of the password is asked for.
LEMMA ChangeTyped ==
  ASSUME Typed, NEW change \in Changes, Change(change)
  PROVE  calls' \subseteq CallType /\ Carries' /\ made' \in 0..MaxCalls
<1> DEFINE others == Waiting("password")
           none == others = {}
           new == [Call("password", change) EXCEPT !.alone = none]
           less == {[c EXCEPT !.alone = FALSE] : c \in others}
<1>1. made < MaxCalls /\ made \in 0..MaxCalls /\ calls \subseteq CallType
  BY DEF Change, Typed, TypeOK, CallType
<1>2. calls' = (calls \ others) \cup less \cup {new} /\ made' = made + 1
  BY DEF Change
<1>3. new \in CallType /\ new.what = change /\ new.kind = "password" /\ made + 1 \in 0..MaxCalls
  <2>1. none \in BOOLEAN
    OBVIOUS
  <2>2. Call("password", change) \in CallType /\ Call("password", change).kind = "password"
        /\ Call("password", change).what = change /\ made + 1 \in 0..MaxCalls
    BY <1>1, CallTyped
  <2> HIDE DEF none
  <2> QED BY <2>1, <2>2 DEF CallType
<1>4. \A c \in less : c \in CallType /\ c.kind = "password" /\ c.what \in Changes
  BY <1>1 DEF CallType, Waiting, Carries, Typed
<1> HIDE DEF new, less
<1>5. calls' \subseteq CallType
  BY <1>1, <1>2, <1>3, <1>4
<1>6. Carries'
  BY <1>2, <1>3, <1>4 DEF Carries, Typed, Waiting
<1> QED BY <1>2, <1>3, <1>5, <1>6

\* The parts of the type: what the tab holds, and what goes between it, the
\* server and the account.
TabTyped ==
  /\ page \in Pages /\ drawer \in DrawerType /\ readers \subseteq Files
  /\ config \in {None} \cup 0..MaxCalls /\ qr \in {None} \cup 0..MaxCalls
  /\ form \in FormType /\ syncing \in BOOLEAN
  /\ stray \in BOOLEAN /\ agreed \in Passwords \cup {None}

CallsTyped ==
  /\ calls \subseteq CallType /\ Carries
  /\ password \in Passwords /\ made \in 0..MaxCalls /\ failures \in 0..MaxFailures

LEMMA TypedParts ==
  /\ Typed <=> TabTyped /\ CallsTyped
  /\ Typed' <=> TabTyped' /\ CallsTyped'
BY DEF Typed, TypeOK, TabTyped, CallsTyped, CallType, DrawerType, FormType

LEMMA InitTyped ==
  ASSUME Init
  PROVE  Typed
<1>1. TabTyped
  BY DEF Init, TabTyped, NewDrawer, NewForm, Pages, DrawerType, FormType
<1>2. CallsTyped
  BY PanelBoundsAssumption DEF Init, CallsTyped, Carries
<1> QED BY <1>1, <1>2, TypedParts

\* An action that concerns the page only.
LEMMA PageStepTyped ==
  ASSUME Typed,
         \/ \E p \in Pages : GoPage(p)
         \/ TurnDrawer \/ \E name, url \in BOOLEAN : Fill(name, url)
         \/ \E f \in Files : Choose(f) \/ Drop(f) \/ Read(f)
         \/ TurnForm
         \/ \E current, new \in Passwords : TypePasswords(current, new)
  PROVE  Typed'
<1>0. TabTyped /\ CallsTyped
  BY TypedParts
<1>1. UNCHANGED <<calls, password, made, failures>>
  BY DEF GoPage, TurnDrawer, Fill, Choose, Drop, Read, TurnForm, TypePasswords
<1>2. CallsTyped'
  BY <1>0, <1>1 DEF CallsTyped, Carries
<1>3. NewDrawer \in DrawerType /\ NewForm \in FormType
  BY DEF NewDrawer, NewForm, DrawerType, FormType
<1>4. (readers # {}) \in BOOLEAN
  OBVIOUS
<1>5. ASSUME NEW p \in Pages, GoPage(p)
      PROVE  TabTyped'
  <2>1. stray' \in BOOLEAN
    BY <1>4, <1>5 DEF GoPage
  <2> QED BY <1>0, <1>3, <1>5, <2>1 DEF GoPage, NewConfig, TabTyped
<1>6. ASSUME TurnDrawer
      PROVE  TabTyped'
  <2>1. drawer' \in DrawerType
    BY <1>0, <1>6 DEF TurnDrawer, TabTyped, DrawerType
  <2> QED BY <1>0, <1>6, <2>1 DEF TurnDrawer, TabTyped, history
<1>7. ASSUME NEW name \in BOOLEAN, NEW url \in BOOLEAN, Fill(name, url)
      PROVE  TabTyped'
  <2>1. drawer' \in DrawerType
    BY <1>0, <1>7 DEF Fill, TabTyped, DrawerType
  <2> QED BY <1>0, <1>7, <2>1 DEF Fill, TabTyped, history
<1>8. ASSUME NEW f \in Files, Choose(f) \/ Drop(f) \/ Read(f)
      PROVE  TabTyped'
  <2>1. CASE Choose(f)
    <3>1. stray' \in BOOLEAN
      BY <1>4, <2>1 DEF Choose
    <3>2. drawer' \in DrawerType
      BY <1>0, <2>1 DEF Choose, TabTyped, DrawerType
    <3> QED BY <1>0, <2>1, <3>1, <3>2 DEF Choose, TabTyped
  <2>2. CASE Drop(f)
    BY <1>0, <2>2 DEF Drop, TabTyped, onPage
  <2>3. CASE Read(f)
    <3>1. drawer' \in DrawerType
      BY <1>0, <2>3 DEF Read, TabTyped, DrawerType
    <3> QED BY <1>0, <2>3, <3>1 DEF Read, TabTyped, history
  <2> QED BY <1>8, <2>1, <2>2, <2>3
<1>9. ASSUME TurnForm
      PROVE  TabTyped'
  <2>1. form' \in FormType
    BY <1>0, <1>3, <1>9 DEF TurnForm, TabTyped, FormType
  <2> QED BY <1>0, <1>9, <2>1 DEF TurnForm, TabTyped, history
<1>10. ASSUME NEW current \in Passwords, NEW new \in Passwords, TypePasswords(current, new)
       PROVE  TabTyped'
  <2>1. form' \in FormType
    BY <1>0, <1>10 DEF TypePasswords, TabTyped, FormType
  <2> QED BY <1>0, <1>10, <2>1 DEF TypePasswords, TabTyped, history
<1>11. TabTyped'
  BY <1>5, <1>6, <1>7, <1>8, <1>9, <1>10
<1> QED BY <1>2, <1>11, TypedParts

\* A call is made.
LEMMA AskStepTyped ==
  ASSUME Typed,
         \/ Add \/ Sync \/ AddDevice \/ SubmitPwChange
         \/ \E current, new \in Passwords : ChangeElsewhere(current, new)
  PROVE  Typed'
<1>0. TabTyped /\ CallsTyped
  BY TypedParts
<1>1. CASE Add
  <2>1. TabTyped'
    BY <1>0, <1>1 DEF Add, TabTyped, onPage, history
  <2> DEFINE count == IF drawer.shown = None \/ stray \/ readers # {}
                      THEN None ELSE Preview(drawer.shown)
             what == [file |-> drawer.file, count |-> count]
  <2>2. count \in {None} \cup Nat
    BY <1>0, PreviewTyped, FilesAssumption DEF TabTyped, DrawerType
  <2>3. CASE drawer.file # None /\ ~drawer.url
    <3>1. what \in Uploads
      <4> HIDE DEF count
      <4> QED BY <1>0, <2>2, <2>3 DEF TabTyped, DrawerType, Uploads
    <3>2. Make(Call("upload", what)) /\ UNCHANGED <<password, failures>>
      BY <1>1, <2>3 DEF Add
    <3> HIDE DEF what
    <3> QED BY <1>0, <2>1, <3>1, <3>2, MakeTyped, TypedParts DEF CallsTyped
  <2>4. CASE ~(drawer.file # None /\ ~drawer.url)
    <3>1. Make(Call("list", None)) /\ UNCHANGED <<password, failures>>
      BY <1>1, <2>4 DEF Add
    <3> QED BY <1>0, <2>1, <3>1, MakeTyped, TypedParts DEF CallsTyped
  <2> QED BY <2>3, <2>4
<1>2. CASE Sync
  <2>1. TabTyped'
    BY <1>0, <1>2 DEF Sync, TabTyped, onPage, history
  <2>2. Make(Call("sync", None)) /\ UNCHANGED <<password, failures>>
    BY <1>2 DEF Sync
  <2> QED BY <1>0, <2>1, <2>2, MakeTyped, TypedParts DEF CallsTyped
<1>3. CASE AddDevice
  <2>1. TabTyped'
    BY <1>0, <1>3 DEF AddDevice, TabTyped, onPage, history
  <2>2. Make(Call("device", None)) /\ UNCHANGED <<password, failures>>
    BY <1>3 DEF AddDevice
  <2> QED BY <1>0, <2>1, <2>2, MakeTyped, TypedParts DEF CallsTyped
<1>4. CASE SubmitPwChange
  <2>1. TabTyped'
    BY <1>0, <1>4 DEF SubmitPwChange, TabTyped, onPage, history
  <2> DEFINE change == [current |-> form.current, new |-> form.new, here |-> TRUE]
  <2>2. change \in Changes
    BY <1>0, <1>4 DEF SubmitPwChange, TabTyped, FormType, Changes
  <2>3. Change(change) /\ UNCHANGED <<password, failures>>
    BY <1>4 DEF SubmitPwChange
  <2> HIDE DEF change
  <2> QED BY <1>0, <2>1, <2>2, <2>3, ChangeTyped, TypedParts DEF CallsTyped
<1>5. ASSUME NEW current \in Passwords, NEW new \in Passwords, ChangeElsewhere(current, new)
      PROVE  Typed'
  <2>1. TabTyped'
    BY <1>0, <1>5 DEF ChangeElsewhere, TabTyped, onPage, history
  <2> DEFINE change == [current |-> current, new |-> new, here |-> FALSE]
  <2>2. change \in Changes
    BY DEF Changes
  <2>3. Change(change) /\ UNCHANGED <<password, failures>>
    BY <1>5 DEF ChangeElsewhere
  <2> HIDE DEF change
  <2> QED BY <1>0, <2>1, <2>2, <2>3, ChangeTyped, TypedParts DEF CallsTyped
<1> QED BY <1>1, <1>2, <1>3, <1>4, <1>5

\* An answer arrives.
LEMMA AnswerStepTyped ==
  ASSUME Typed, NEW c \in calls,
         Added(c) \/ Synced(c) \/ DeviceAdded(c) \/ PwChanged(c)
  PROVE  Typed'
<1>0. TabTyped /\ CallsTyped
  BY TypedParts
<1>1. UNCHANGED <<password, made, failures>> /\ calls' = calls \ {c}
  BY DEF Added, Synced, DeviceAdded, PwChanged, Over
<1>2. CallsTyped'
  BY <1>0, <1>1 DEF CallsTyped, Carries
<1>3. c \in CallType
  BY <1>0 DEF CallsTyped
<1>4. CASE Added(c)
  <2>1. drawer' \in DrawerType
    BY <1>0, <1>4 DEF Added, TabTyped, DrawerType
  <2> QED BY <1>0, <1>2, <1>4, <2>1, TypedParts DEF Added, TabTyped, history
<1>5. CASE Synced(c)
  <2>1. syncing' \in BOOLEAN
    BY <1>5 DEF Synced
  <2> QED BY <1>0, <1>2, <1>5, <2>1, TypedParts DEF Synced, TabTyped, onPage, history
<1>6. CASE DeviceAdded(c)
  <2>1. c.id \in 0..MaxCalls
    BY <1>3 DEF CallType
  <2>2. config' \in {None} \cup 0..MaxCalls /\ qr' \in {None} \cup 0..MaxCalls
    BY <1>0, <1>6, <2>1 DEF DeviceAdded, TabTyped
  <2> QED BY <1>0, <1>2, <1>6, <2>2, TypedParts DEF DeviceAdded, TabTyped, history
<1>7. CASE PwChanged(c)
  <2>1. NewForm \in FormType
    BY DEF NewForm, FormType
  <2>2. form' \in FormType
    BY <1>0, <1>7, <2>1 DEF PwChanged, TabTyped
  <2>3. c.what.new \in Passwords
    BY <1>0, <1>7 DEF PwChanged, CallsTyped, Carries, Changes
  <2>4. agreed' \in Passwords \cup {None}
    BY <1>0, <1>7, <2>3 DEF PwChanged, TabTyped
  <2> QED BY <1>0, <1>2, <1>7, <2>2, <2>4, TypedParts DEF PwChanged, TabTyped
<1> QED BY <1>4, <1>5, <1>6, <1>7

\* The server gets further.
LEMMA ServerStepTyped ==
  ASSUME Typed, NEW c \in calls,
         \/ Verify(c) \/ Write(c) \/ Lose(c)
         \/ \E got \in {"done", "refused"} : Serve(c, got),
         c.got = "verified" => c.kind = "password"
  PROVE  Typed'
<1>0. TabTyped /\ CallsTyped
  BY TypedParts
<1>1. TabTyped'
  BY <1>0 DEF Verify, Write, Lose, Serve, Elsewhere, onPage, history, TabTyped
<1>2. \E got \in {"verified", "done", "refused", "lost"} : Get(c, got)
  BY DEF Verify, Write, Lose, Serve
<1>3. calls' \subseteq CallType /\ Carries'
  BY <1>2, GetTyped
<1>4. made' \in 0..MaxCalls
  BY <1>0 DEF CallsTyped, Verify, Write, Lose, Serve, Elsewhere
<1>5. password' \in Passwords
  BY <1>0 DEF CallsTyped, Carries, Changes, Verify, Write, Lose, Serve
<1>6. failures' \in 0..MaxFailures
  BY <1>0, PanelBoundsAssumption DEF CallsTyped, Verify, Write, Lose, Serve
<1> QED BY <1>1, <1>3, <1>4, <1>5, <1>6, TypedParts DEF CallsTyped

Changed(change, new, less) ==
  /\ new.kind = "password" /\ new.what = change /\ new.got = "asked"
  /\ Waiting("password") # {} => new.alone = FALSE
  /\ \A d \in less : d.kind = "password" /\ d.alone = FALSE
  /\ \A c \in Waiting("password") : \E d \in less : d.got = c.got
  /\ Waiting("password") = {} => less = {}
  /\ calls' = (calls \ Waiting("password")) \cup less \cup {new}

\* Changes of the password touch no other call; those under way are no longer
\* alone, and the new one is if there were none.
LEMMA ChangeMakes ==
  ASSUME Typed, NEW change, Change(change)
  PROVE  /\ \A kind : kind # "password" => Waiting(kind)' = Waiting(kind)
         /\ \E new, less : Changed(change, new, less)
<1> DEFINE others == Waiting("password")
           Less(c) == [c EXCEPT !.alone = FALSE]
           new == [Call("password", change) EXCEPT !.alone = (others = {})]
           less == {Less(c) : c \in others}
<1>1. calls' = (calls \ others) \cup less \cup {new}
  BY DEF Change
<1>2. new.kind = "password" /\ new.what = change /\ new.got = "asked"
  BY DEF Call
<1>3. others # {} => new.alone = FALSE
  <2>1. new.alone = (others = {})
    BY DEF Call
  <2> HIDE DEF new, others
  <2>2. others # {} => (others = {}) = FALSE
    BY Zenon
  <2> QED BY <2>1, <2>2, Zenon
<1>4. \A c \in others : Less(c).kind = "password" /\ Less(c).got = c.got /\ Less(c).alone = FALSE
  BY DEF Waiting, Typed, TypeOK
<1> HIDE DEF new, others, Less
<1>5. /\ \A d \in less : d.kind = "password" /\ d.alone = FALSE
      /\ \A c \in others : \E d \in less : d.got = c.got
      /\ others = {} => less = {}
  BY <1>4
<1> HIDE DEF less
<1>6. \A kind : kind # "password" => Waiting(kind)' = Waiting(kind)
  BY <1>1, <1>2, <1>5 DEF Waiting, others
<1>7. Changed(change, new, less)
  BY <1>1, <1>2, <1>3, <1>5 DEF others, Changed
<1> QED BY <1>6, <1>7

\* The server gets further with one.
LEMMA GetMakes ==
  ASSUME Typed, NEW c \in calls, NEW got, Get(c, got)
  PROVE  \E d : /\ d.kind = c.kind /\ d.what = c.what /\ d.got = got /\ d.alone = c.alone
                /\ calls' = (calls \ {c}) \cup {d}
<1> DEFINE d == [c EXCEPT !.got = got]
<1>1. c \in CallType
  BY DEF Typed, TypeOK, CallType
<1>2. d.kind = c.kind /\ d.what = c.what /\ d.got = got /\ d.alone = c.alone
  BY <1>1 DEF CallType
<1>3. calls' = (calls \ {c}) \cup {d}
  BY DEF Get
<1> HIDE DEF d
<1> QED BY <1>2, <1>3

(***************************************************************************)
(* The preview                                                             *)
(***************************************************************************)

\* Unless a file is previewed that is not the one chosen, only that one is being
\* read; it is the one shown; and what uploads announced is of what they carry.
ShownIsChosen ==
  /\ ~stray =>
       /\ readers \subseteq {drawer.file}
       /\ page # "blocklists" => readers = {}
       /\ readers = {} => drawer.shown \in {None, drawer.file}
  /\ \A c \in Waiting("upload") :
       c.what.count # None => c.what.count = Preview(c.what.file)

LEMMA ShownKept ==
  ASSUME Typed, ShownIsChosen, [Next]_vars
  PROVE  ShownIsChosen'
<1> DEFINE Chosen == ~stray =>
                       /\ readers \subseteq {drawer.file}
                       /\ page # "blocklists" => readers = {}
                       /\ readers = {} => drawer.shown \in {None, drawer.file}
           Told == \A c \in Waiting("upload") :
                     c.what.count # None => c.what.count = Preview(c.what.file)
<1>0. Chosen /\ Told /\ drawer \in DrawerType
  BY DEF ShownIsChosen, Typed, TypeOK, DrawerType
<1> SUFFICES Chosen' /\ Told'
  BY DEF ShownIsChosen
\* Calls that are not uploads, and that are no longer under way.
<1>1. ASSUME Waiting("upload")' \subseteq Waiting("upload")
      PROVE  Told'
  BY <1>0, <1>1
<1>2. ASSUME UNCHANGED <<stray, readers, page, drawer>>
      PROVE  Chosen'
  BY <1>0, <1>2
<1>3. ASSUME NEW kind, NEW what, kind # "upload", Make(Call(kind, what))
      PROVE  Told'
  BY <1>0, <1>3 DEF Make, Call, Waiting
<1>4. ASSUME NEW change, Change(change)
      PROVE  Told'
  BY <1>1, <1>4, ChangeMakes
<1>5. ASSUME NEW c \in calls, NEW got, Get(c, got)
      PROVE  Told'
  BY <1>0, <1>5, GetMakes DEF Waiting
<1>6. ASSUME NEW p \in Pages, GoPage(p)
      PROVE  Chosen' /\ Told'
  BY <1>0, <1>6 DEF GoPage, NewDrawer, Waiting
<1>7. CASE TurnDrawer
  BY <1>0, <1>7 DEF TurnDrawer, DrawerType, Waiting, history
<1>8. ASSUME NEW name \in BOOLEAN, NEW url \in BOOLEAN, Fill(name, url)
      PROVE  Chosen' /\ Told'
  BY <1>0, <1>8 DEF Fill, DrawerType, Waiting, history
<1>9. ASSUME NEW f \in Files, Choose(f)
      PROVE  Chosen' /\ Told'
  BY <1>0, <1>9 DEF Choose, InDrawer, DrawerType, Waiting
<1>10. ASSUME NEW f \in Files, Drop(f)
       PROVE  Chosen' /\ Told'
  BY <1>0, <1>10 DEF Drop, Waiting
<1>11. ASSUME NEW f \in Files, Read(f)
       PROVE  Chosen' /\ Told'
  <2>1. Told'
    BY <1>0, <1>11 DEF Read, Waiting
  <2>2. ASSUME ~stray PROVE Chosen'
    <3>1. f = drawer.file /\ readers' = {} /\ page = "blocklists" /\ page' = page
      BY <1>0, <1>11, <2>2 DEF Read
    <3>2. drawer'.shown = f /\ drawer'.file = f
      BY <1>0, <1>11, <3>1 DEF Read, DrawerType
    <3> QED BY <3>1, <3>2
  <2>3. stray' = stray
    BY <1>11 DEF Read, history
  <2> QED BY <2>1, <2>2, <2>3
<1>12. CASE Add
  <2>1. Chosen'
    BY <1>2, <1>12 DEF Add, onPage, history
  <2>2. CASE drawer.file # None /\ ~drawer.url
    <3> DEFINE count == IF drawer.shown = None \/ stray \/ readers # {}
                        THEN None ELSE Preview(drawer.shown)
               new == Call("upload", [file |-> drawer.file, count |-> count])
    <3>1. calls' = calls \cup {new}
      BY <1>12, <2>2 DEF Add, Make
    <3>2. new.what.file = drawer.file /\ new.what.count = count
      BY DEF Call
    <3>3. count # None => count = Preview(drawer.file)
      BY <1>0
    <3> HIDE DEF new, count
    <3> QED BY <1>0, <2>1, <3>1, <3>2, <3>3 DEF Waiting
  <2>3. CASE ~(drawer.file # None /\ ~drawer.url)
    <3>1. Make(Call("list", None))
      BY <1>12, <2>3 DEF Add
    <3> QED BY <1>3, <2>1, <3>1
  <2> QED BY <2>2, <2>3
<1>13. CASE Sync
  <2>1. Make(Call("sync", None)) /\ UNCHANGED <<stray, readers, page, drawer>>
    BY <1>13 DEF Sync, onPage, history
  <2> QED BY <1>2, <1>3, <2>1
<1>14. CASE AddDevice
  <2>1. Make(Call("device", None)) /\ UNCHANGED <<stray, readers, page, drawer>>
    BY <1>14 DEF AddDevice, onPage, history
  <2> QED BY <1>2, <1>3, <2>1
<1>15. CASE TurnForm
  BY <1>0, <1>15 DEF TurnForm, Waiting, history
<1>16. CASE SubmitPwChange
  BY <1>2, <1>4, <1>16 DEF SubmitPwChange, onPage, history
<1>17. ASSUME NEW current \in Passwords, NEW new \in Passwords,
              TypePasswords(current, new) \/ ChangeElsewhere(current, new)
       PROVE  Chosen' /\ Told'
  <2>1. CASE TypePasswords(current, new)
    BY <1>0, <2>1 DEF TypePasswords, Waiting, history
  <2>2. CASE ChangeElsewhere(current, new)
    BY <1>2, <1>4, <2>2 DEF ChangeElsewhere, onPage, history
  <2> QED BY <1>17, <2>1, <2>2
<1>18. ASSUME NEW c \in calls, Added(c)
       PROVE  Chosen' /\ Told'
  <2>1. Told'
    BY <1>1, <1>18 DEF Added, Over, Waiting
  <2>2. UNCHANGED <<stray, readers, page>> /\ drawer'.file = drawer.file
        /\ drawer'.shown \in {None, drawer.shown}
    BY <1>0, <1>18 DEF Added, DrawerType, history
  <2> QED BY <1>0, <2>1, <2>2
<1>19. ASSUME NEW c \in calls, Synced(c) \/ DeviceAdded(c) \/ PwChanged(c)
       PROVE  Chosen' /\ Told'
  <2>1. calls' = calls \ {c} /\ UNCHANGED <<stray, readers, page, drawer>>
    BY <1>19 DEF Synced, DeviceAdded, PwChanged, Over, onPage, history
  <2> QED BY <1>1, <1>2, <2>1 DEF Waiting
<1>20. ASSUME NEW c \in calls,
              \/ Verify(c) \/ Write(c) \/ Lose(c)
              \/ \E got \in {"done", "refused"} : Serve(c, got)
       PROVE  Chosen' /\ Told'
  <2>1. UNCHANGED <<stray, readers, page, drawer>> /\ \E got : Get(c, got)
    BY <1>20 DEF Verify, Write, Lose, Serve, Elsewhere, onPage, history
  <2> QED BY <1>2, <1>5, <2>1
<1>21. CASE UNCHANGED vars
  BY <1>1, <1>2, <1>21 DEF vars, onPage, history, Waiting
<1> QED BY <1>6, <1>7, <1>8, <1>9, <1>10, <1>11, <1>12, <1>13, <1>14, <1>15, <1>16,
           <1>17, <1>18, <1>19, <1>20, <1>21 DEF Next

(***************************************************************************)
(* The configuration of a peer                                             *)
(***************************************************************************)

LEMMA QrKept ==
  ASSUME QrIsConfig, [Next]_vars
  PROVE  QrIsConfig'
<1> USE DEF QrIsConfig
<1>1. ASSUME UNCHANGED <<page, config, qr>>
      PROVE  QrIsConfig'
  BY <1>1
<1>2. ASSUME NEW p \in Pages, GoPage(p)
      PROVE  QrIsConfig'
  BY <1>2 DEF GoPage, NewConfig
<1>3. ASSUME NEW c \in calls, DeviceAdded(c)
      PROVE  QrIsConfig'
  BY <1>3 DEF DeviceAdded
<1>4. ASSUME NEW c \in calls,
             \/ Added(c) \/ Synced(c) \/ PwChanged(c)
             \/ Verify(c) \/ Write(c) \/ Lose(c)
             \/ \E got \in {"done", "refused"} : Serve(c, got)
      PROVE  QrIsConfig'
  BY <1>4 DEF Added, Synced, PwChanged, Verify, Write, Lose, Serve, Elsewhere, onPage
<1>5. ASSUME NEW f \in Files, Choose(f) \/ Drop(f) \/ Read(f)
      PROVE  QrIsConfig'
  BY <1>5 DEF Choose, Drop, Read, onPage
<1>6. ASSUME \/ TurnDrawer \/ \E name, url \in BOOLEAN : Fill(name, url)
             \/ Add \/ Sync \/ AddDevice \/ TurnForm \/ SubmitPwChange
             \/ \E current, new \in Passwords :
                  TypePasswords(current, new) \/ ChangeElsewhere(current, new)
      PROVE  QrIsConfig'
  BY <1>6 DEF TurnDrawer, Fill, Add, Sync, AddDevice, TurnForm, SubmitPwChange,
              TypePasswords, ChangeElsewhere, onPage
<1>7. CASE UNCHANGED vars
  BY <1>1, <1>7 DEF vars, onPage
<1> QED BY <1>2, <1>3, <1>4, <1>5, <1>6, <1>7 DEF Next

(***************************************************************************)
(* The password                                                            *)
(***************************************************************************)

\* What is known of a change that is alone: there is no other, it names the
\* password once it was compared, and has set it when it is done.  And the
\* password is the one the user was told of, unless one is still to be told of.
OnlyChange(c) ==
  /\ \A d \in Waiting("password") : d = c
  /\ c.got = "verified" => c.what.current = password
  /\ c.got = "done" => c.what.new = password

PasswordInv ==
  /\ \A c \in calls : c.got = "verified" => c.kind = "password"
  /\ \A c \in Waiting("password") : c.alone = TRUE => OnlyChange(c)
  /\ agreed # None =>
       \/ password = agreed
       \/ \E c \in Waiting("password") : c.got \in {"done", "lost"}

\* Whatever else happens, the changes are what they were.
LEMMA OthersKeepPassword ==
  ASSUME PasswordInv, UNCHANGED <<password, agreed>>,
         Waiting("password")' = Waiting("password"),
         \A c \in calls' : c.got = "verified" => c.kind = "password"
  PROVE  PasswordInv'
BY DEF PasswordInv, OnlyChange

LEMMA ChangeKeepsPassword ==
  ASSUME Typed, PasswordInv, NEW change, Change(change), UNCHANGED <<password, agreed>>
  PROVE  PasswordInv'
<1>1. PICK new, less : Changed(change, new, less)
  BY ChangeMakes
<1>2. Waiting("password")' = less \cup {new}
  BY <1>1 DEF Changed, Waiting
<1>3. \A c \in calls' : c.got = "verified" => c.kind = "password"
  BY <1>1 DEF Changed, PasswordInv
<1>4. \A c \in Waiting("password")' : c.alone = TRUE => OnlyChange(c)'
  BY <1>1, <1>2 DEF Changed, OnlyChange
<1>5. agreed' # None => \/ password' = agreed'
                        \/ \E c \in Waiting("password")' : c.got \in {"done", "lost"}
  BY <1>1, <1>2 DEF Changed, PasswordInv
<1> QED BY <1>3, <1>4, <1>5 DEF PasswordInv

\* The server gets further with a call, which writes the password if it is a
\* change that was compared.
LEMMA GetKeepsPassword ==
  ASSUME Typed, PasswordInv, NEW c \in calls, NEW got, Get(c, got), agreed' = agreed,
         got = "verified" => c.kind = "password" /\ c.what.current = password,
         got = "done" /\ c.kind = "password" => password' = c.what.new,
         got = "lost" \/ c.got \notin {"done", "lost"},
         password' # password => got = "done" /\ c.kind = "password"
  PROVE  PasswordInv'
<1>1. PICK d : /\ d.kind = c.kind /\ d.what = c.what /\ d.got = got /\ d.alone = c.alone
               /\ calls' = (calls \ {c}) \cup {d}
  BY GetMakes
<1>2. \A e \in calls' : e.got = "verified" => e.kind = "password"
  BY <1>1 DEF PasswordInv
<1>3. CASE c.kind # "password"
  <2>1. Waiting("password")' = Waiting("password")
    BY <1>1, <1>3 DEF Waiting
  <2> QED BY <1>2, <1>3, <2>1, OthersKeepPassword
<1>4. CASE c.kind = "password"
  <2>0. c \in Waiting("password")
    BY <1>4 DEF Waiting
  <2>1. Waiting("password")' = (Waiting("password") \ {c}) \cup {d}
    BY <1>1, <1>4 DEF Waiting
  <2>2. ASSUME NEW e \in Waiting("password")', e.alone = TRUE
        PROVE  OnlyChange(e)'
    <3>1. CASE e = d
      <4>1. OnlyChange(c)
        BY <1>1, <2>0, <2>2, <3>1 DEF PasswordInv
      <4>2. \A x \in Waiting("password")' : x = e
        BY <2>1, <3>1, <4>1 DEF OnlyChange
      <4>3. e.got = "verified" => e.what.current = password'
        BY <1>1, <3>1
      <4>4. e.got = "done" => e.what.new = password'
        BY <1>1, <1>4, <3>1
      <4> QED BY <4>2, <4>3, <4>4 DEF OnlyChange
    <3>2. CASE e # d
      <4>1. e \in Waiting("password") /\ e # c
        BY <2>1, <2>2, <3>2
      <4> QED BY <2>0, <2>2, <4>1 DEF PasswordInv, OnlyChange
    <3> QED BY <3>1, <3>2
  <2>3. agreed' # None => \/ password' = agreed'
                          \/ \E e \in Waiting("password")' : e.got \in {"done", "lost"}
    <3>1. CASE got \in {"done", "lost"}
      BY <1>1, <2>1, <3>1
    <3>2. CASE got \notin {"done", "lost"}
      <4>1. password' = password /\ c.got \notin {"done", "lost"}
        BY <3>2
      <4> QED BY <2>1, <4>1 DEF PasswordInv
    <3> QED BY <3>1, <3>2
  <2> QED BY <1>2, <2>2, <2>3 DEF PasswordInv
<1> QED BY <1>3, <1>4

\* A change is told.
LEMMA TellKeepsPassword ==
  ASSUME Typed, PasswordInv, NEW c \in calls, PwChanged(c)
  PROVE  PasswordInv'
<1>1. /\ c \in Waiting("password") /\ calls' = calls \ {c} /\ password' = password
      /\ c.got \in {"done", "refused", "lost"}
  BY DEF PwChanged, Over, Waiting
<1>2. Waiting("password")' = Waiting("password") \ {c}
  BY <1>1 DEF Waiting
<1>3. \A e \in calls' : e.got = "verified" => e.kind = "password"
  BY <1>1 DEF PasswordInv
<1>4. \A e \in Waiting("password")' : e.alone = TRUE => OnlyChange(e)'
  BY <1>1, <1>2 DEF PasswordInv, OnlyChange
<1>5. agreed' # None => \/ password' = agreed'
                        \/ \E e \in Waiting("password")' : e.got \in {"done", "lost"}
  <2>1. CASE c.got = "done" /\ c.alone
    <3>1. c.alone = TRUE
      BY <2>1 DEF Typed, TypeOK
    <3>2. c.what.new = password
      BY <1>1, <2>1, <3>1 DEF PasswordInv, OnlyChange
    <3>3. agreed' = c.what.new
      BY <2>1 DEF PwChanged
    <3> QED BY <1>1, <3>2, <3>3
  <2>2. CASE c.got = "refused"
    <3>1. agreed' = agreed
      BY <2>2 DEF PwChanged
    <3> QED BY <1>1, <1>2, <2>2, <3>1 DEF PasswordInv
  <2>3. CASE ~(c.got = "done" /\ c.alone) /\ c.got # "refused"
    BY <2>3 DEF PwChanged
  <2> QED BY <2>1, <2>2, <2>3
<1> QED BY <1>3, <1>4, <1>5 DEF PasswordInv

LEMMA PasswordKept ==
  ASSUME Typed, PasswordInv, [Next]_vars
  PROVE  PasswordInv'
<1>1. ASSUME UNCHANGED <<calls, password, agreed>>
      PROVE  PasswordInv'
  BY <1>1, OthersKeepPassword DEF Waiting, PasswordInv
<1>2. ASSUME NEW kind \in {"list", "upload", "device", "sync"}, NEW what,
             Make(Call(kind, what)), UNCHANGED <<password, agreed>>
      PROVE  PasswordInv'
  <2> DEFINE new == Call(kind, what)
  <2>1. new.kind = kind /\ new.got = "asked"
    BY DEF Call
  <2>2. calls' = calls \cup {new}
    BY <1>2 DEF Make
  <2> HIDE DEF new
  <2>3. Waiting("password")' = Waiting("password")
    BY <2>1, <2>2 DEF Waiting
  <2>4. \A c \in calls' : c.got = "verified" => c.kind = "password"
    BY <2>1, <2>2 DEF PasswordInv
  <2> QED BY <1>2, <2>3, <2>4, OthersKeepPassword
<1>3. ASSUME \/ \E p \in Pages : GoPage(p)
             \/ TurnDrawer \/ \E name, url \in BOOLEAN : Fill(name, url)
             \/ \E f \in Files : Choose(f) \/ Drop(f) \/ Read(f)
             \/ TurnForm
             \/ \E current, new \in Passwords : TypePasswords(current, new)
             \/ UNCHANGED vars
      PROVE  PasswordInv'
  BY <1>1, <1>3 DEF GoPage, TurnDrawer, Fill, Choose, Drop, Read, TurnForm,
                    TypePasswords, vars, history
<1>4. CASE Add
  <2>1. UNCHANGED <<password, agreed>>
    BY <1>4 DEF Add, history
  <2>2. \E kind \in {"list", "upload"} : \E what : Make(Call(kind, what))
    BY <1>4 DEF Add
  <2> QED BY <1>2, <2>1, <2>2
<1>5. CASE Sync \/ AddDevice
  BY <1>2, <1>5 DEF Sync, AddDevice, history
<1>6. CASE \/ SubmitPwChange
           \/ \E current, new \in Passwords : ChangeElsewhere(current, new)
  BY <1>6, ChangeKeepsPassword DEF SubmitPwChange, ChangeElsewhere, history
<1>7. ASSUME NEW c \in calls, Added(c) \/ Synced(c) \/ DeviceAdded(c)
      PROVE  PasswordInv'
  <2>1. c.kind # "password" /\ calls' = calls \ {c} /\ UNCHANGED <<password, agreed>>
    BY <1>7 DEF Added, Synced, DeviceAdded, Over, history
  <2>2. Waiting("password")' = Waiting("password")
    BY <2>1 DEF Waiting
  <2>3. \A e \in calls' : e.got = "verified" => e.kind = "password"
    BY <2>1 DEF PasswordInv
  <2> QED BY <2>1, <2>2, <2>3, OthersKeepPassword
<1>8. ASSUME NEW c \in calls, NEW got \in {"done", "refused"}, Serve(c, got)
      PROVE  PasswordInv'
  BY <1>8, GetKeepsPassword DEF Serve, Elsewhere, history
<1>9. ASSUME NEW c \in calls, Verify(c)
      PROVE  PasswordInv'
  BY <1>9, GetKeepsPassword DEF Verify, Elsewhere, history
<1>10. ASSUME NEW c \in calls, Write(c)
       PROVE  PasswordInv'
  BY <1>10, GetKeepsPassword DEF Write, Elsewhere, history, PasswordInv
<1>11. ASSUME NEW c \in calls, Lose(c)
       PROVE  PasswordInv'
  BY <1>11, GetKeepsPassword DEF Lose, Elsewhere, history
<1>12. ASSUME NEW c \in calls, PwChanged(c)
       PROVE  PasswordInv'
  BY <1>12, TellKeepsPassword
<1> QED BY <1>3, <1>4, <1>5, <1>6, <1>7, <1>8, <1>9, <1>10, <1>11, <1>12 DEF Next

(***************************************************************************)
(* The theorems                                                            *)
(***************************************************************************)

Inv == Typed /\ ShownIsChosen /\ QrIsConfig /\ PasswordInv

LEMMA InitInv == Init => Inv
<1> SUFFICES ASSUME Init PROVE Inv
  OBVIOUS
<1>1. Typed
  BY InitTyped
<1>2. ShownIsChosen /\ QrIsConfig /\ PasswordInv
  BY DEF Init, ShownIsChosen, QrIsConfig, PasswordInv, NewDrawer, Waiting
<1> QED BY <1>1, <1>2 DEF Inv

LEMMA NextInv == Inv /\ [Next]_vars => Inv'
<1> SUFFICES ASSUME Inv, [Next]_vars PROVE Inv'
  OBVIOUS
<1>1. Typed'
  <2>1. ASSUME UNCHANGED vars PROVE Typed'
    <3>1. UNCHANGED <<page, readers, config, syncing, calls, password, made, failures,
                      drawer, qr, form, stray, agreed>>
      BY <2>1 DEF vars, onPage, history
    <3> QED BY <3>1, TypedParts DEF Inv, TabTyped, CallsTyped, Carries
  <2> QED BY <2>1, PageStepTyped, AskStepTyped, AnswerStepTyped, ServerStepTyped
          DEF Inv, Next, PasswordInv
<1> QED BY <1>1, ShownKept, QrKept, PasswordKept DEF Inv

LEMMA Invariance == Spec => []Inv
BY InitInv, NextInv, PTL DEF Spec

\* The state of the forms, the calls and the account keeps its type.
THEOREM TypeCorrect == Spec => []TypeOK
<1>1. Inv => TypeOK
  BY DEF Inv, Typed
<1> QED BY <1>1, Invariance, PTL

\* What the preview announced of a file that is uploaded is what is imported,
\* for any files and any domains.
THEOREM PreviewsAreImports == Spec => []PreviewIsImport
<1>1. Inv => PreviewIsImport
  <2> SUFFICES ASSUME Inv, NEW c \in Waiting("upload"), c.what.count # None
               PROVE  Announced(c.what.file, c.what.count)
    BY DEF PreviewIsImport
  <2>1. c.what.count = Preview(c.what.file)
    BY DEF Inv, ShownIsChosen
  <2>2. c.what.file \in Seq(Line)
    <3>1. c.what \in Uploads
      BY DEF Inv, Typed, Carries, Waiting
    <3>2. c.what.file \in Files
      BY <3>1 DEF Uploads
    <3> QED BY <3>2, FilesAssumption
  <2>3. Announced(c.what.file, Preview(c.what.file))
    BY <2>2, PreviewsAnnounce
  <2> QED BY <2>1, <2>3
<1> QED BY <1>1, Invariance, PTL

\* The configuration that is downloaded is the one whose QR code is shown.
THEOREM QrCodesAreConfigs == Spec => []QrIsConfig
<1>1. Inv => QrIsConfig
  BY DEF Inv
<1> QED BY <1>1, Invariance, PTL

\* After changes that did not overlap, the password is the one told last.
THEOREM PasswordsAreAsTold == Spec => []PasswordIsAsTold
<1>1. Inv => PasswordIsAsTold
  BY DEF Inv, PasswordInv, PasswordIsAsTold
<1> QED BY <1>1, Invariance, PTL

\* A password is replaced by who named it.
THEOREM PasswordsAreNamed == Spec => PasswordIsNamed
<1> DEFINE Named == \E c \in Waiting("password") :
                      /\ c.what.new = password'
                      /\ c.what.current = password \/ ~c.alone
<1>1. Inv /\ [Next]_vars => [password' # password => Named]_vars
  <2> SUFFICES ASSUME Inv, Next, password' # password
               PROVE  Named
    OBVIOUS
  <2>1. PICK c \in calls : Write(c)
    BY DEF Next, GoPage, TurnDrawer, Fill, Choose, Drop, Read, Add, Sync, AddDevice,
           TurnForm, SubmitPwChange, TypePasswords, ChangeElsewhere, Added, Synced,
           DeviceAdded, PwChanged, Verify, Lose, Serve
  <2>2. c \in Waiting("password") /\ c.what.new = password' /\ c.got = "verified"
    BY <2>1 DEF Inv, PasswordInv, Write, Waiting
  <2>3. c.alone = TRUE \/ c.alone = FALSE
    BY DEF Inv, Typed, TypeOK
  <2>4. CASE c.alone = TRUE
    BY <2>2, <2>4 DEF Inv, PasswordInv, OnlyChange
  <2>5. CASE c.alone = FALSE
    BY <2>2, <2>5
  <2> QED BY <2>3, <2>4, <2>5
<1> QED BY <1>1, Invariance, PTL DEF Spec, PasswordIsNamed
===============================================================================
