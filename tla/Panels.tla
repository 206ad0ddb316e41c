--------------------------------- MODULE Panels ---------------------------------
(***************************************************************************)
(* The pages of the dashboard that hold what the user is doing: the drawer *)
(* that adds a blocklist, the page that adds a WireGuard peer, the form    *)
(* that changes the password.  Opening a page builds it anew; a file is    *)
(* read and a call answered at any time, and what comes of it is written   *)
(* into whatever page is there by then.                                    *)
(***************************************************************************)
EXTENDS HostsFormat

CONSTANTS
  Files,       \* files the user has, sequences of lines
  Passwords,
  None,        \* an empty field, no file, no answer
  MaxCalls,    \* bound: calls made
  MaxFailures  \* bound: calls that fail on the way

ASSUME FilesAssumption == Files \subseteq Seq(Line)
ASSUME NoneAssumption == None \notin Files \cup Passwords \cup Int
ASSUME PanelBoundsAssumption == MaxCalls \in Nat /\ MaxFailures \in Nat

VARIABLES
  page,     \* HB.page
  drawer,   \* the form of a new blocklist
  readers,  \* files that are being read for the preview
  config,   \* HB._wgConfig: the peer it is of
  qr,       \* the QR code on the page: the peer it is of
  form,     \* the form of the password
  syncing,  \* the button of the sync is disabled
  calls,    \* the calls under way
  password, \* that of the account
  made, failures,  \* bounds
  stray,    \* history: a file is previewed, or may yet be, that is not the
            \* one chosen for upload
  agreed    \* history: the password the user was last told of, if changes did
            \* not overlap and no answer was lost

onPage == <<drawer, qr, form>>
history == <<stray, agreed>>
vars == <<page, readers, config, syncing, calls, password, made, failures,
          onPage, history>>

Pages == {"blocklists", "vpn", "security", "other"}

NewDrawer == [open |-> FALSE, name |-> FALSE, url |-> FALSE, file |-> None, shown |-> None]
NewForm == [open |-> FALSE, current |-> None, new |-> None]

\* What an upload and a change of the password carry.
Uploads == [file : Files, count : {None} \cup Nat]
Changes == [current : Passwords, new : Passwords, here : BOOLEAN]

\* A call: what it carries, and how far the server has got with it.
Call(kind, what) ==
  [id |-> made, kind |-> kind, what |-> what, got |-> "asked", alone |-> TRUE]

Waiting(kind) == {c \in calls : c.kind = kind}

TypeOK ==
  /\ page \in Pages
  /\ drawer \in [open : BOOLEAN, name : BOOLEAN, url : BOOLEAN,
                 file : Files \cup {None}, shown : Files \cup {None}]
  /\ readers \subseteq Files
  /\ config \in {None} \cup 0..MaxCalls
  /\ qr \in {None} \cup 0..MaxCalls
  /\ form \in [open : BOOLEAN, current : Passwords \cup {None},
               new : Passwords \cup {None}]
  /\ syncing \in BOOLEAN
  /\ calls \subseteq
       [id : 0..MaxCalls,
        kind : {"list", "upload", "device", "password", "sync"},
        what : {None} \cup Uploads \cup Changes,
        got : {"asked", "verified", "done", "refused", "lost"},
        alone : BOOLEAN]
  /\ password \in Passwords
  /\ made \in 0..MaxCalls /\ failures \in 0..MaxFailures
  /\ stray \in BOOLEAN /\ agreed \in Passwords \cup {None}

Make(call) ==
  /\ made < MaxCalls /\ made' = made + 1
  /\ calls' = calls \cup {call}

Over(c) ==
  /\ c.got \in {"done", "refused", "lost"}
  /\ calls' = calls \ {c}

-------------------------------------------------------------------------------
(* Pages *)

\* Mutant: the configuration is kept when the page is built anew.
KeptConfig(p) == config

\* renderVPN: the page has no QR code, and the configuration is forgotten.
NewConfig(p) == IF p = "vpn" THEN None ELSE config

\* goPage and the page's renderer: everything on it is new.
GoPage(p) ==
  /\ page' = p
  /\ drawer' = NewDrawer
  /\ qr' = None
  /\ form' = NewForm
  /\ config' = NewConfig(p)
  /\ stray' = (readers # {})
  /\ UNCHANGED <<readers, syncing, calls, password, made, failures, agreed>>

-------------------------------------------------------------------------------
(* The drawer *)

TurnDrawer ==
  /\ page = "blocklists"
  /\ drawer' = [drawer EXCEPT !.open = ~@]
  /\ UNCHANGED <<page, readers, config, syncing, calls, password, made,
                 failures, qr, form, history>>

InDrawer == page = "blocklists" /\ drawer.open

\* A name or an address is typed, or loadPreset sets both.
Fill(name, url) ==
  /\ InDrawer
  /\ drawer' = [drawer EXCEPT !.name = name, !.url = url]
  /\ UNCHANGED <<page, readers, config, syncing, calls, password, made,
                 failures, qr, form, history>>

\* Mutant: only the first file is read.
ChooseReadOnce(f) ==
  /\ InDrawer
  /\ f # drawer.file
  /\ drawer' = [drawer EXCEPT !.file = f]
  /\ readers' = IF drawer.shown = None THEN readers \cup {f} ELSE readers
  /\ stray' = (readers # {})
  /\ UNCHANGED <<page, config, syncing, calls, password, made, failures,
                 qr, form, agreed>>

\* A file is chosen, and read for the preview.  Choosing the same is no change.
Choose(f) ==
  /\ InDrawer
  /\ f # drawer.file
  /\ drawer' = [drawer EXCEPT !.file = f]
  /\ readers' = readers \cup {f}
  /\ stray' = (readers # {})
  /\ UNCHANGED <<page, config, syncing, calls, password, made, failures,
                 qr, form, agreed>>

\* A file that is dropped is read, and not put into the field.
Drop(f) ==
  /\ InDrawer
  /\ readers' = readers \cup {f}
  /\ stray' = TRUE
  /\ UNCHANGED <<page, config, syncing, calls, password, made, failures,
                 onPage, agreed>>

\* processBlFile, when the file is read: the preview, and the file's name as
\* that of the list if there is none.
Read(f) ==
  /\ f \in readers
  /\ readers' = readers \ {f}
  /\ drawer' = IF page = "blocklists"
               THEN [drawer EXCEPT !.shown = f, !.name = TRUE] ELSE drawer
  /\ UNCHANGED <<page, config, syncing, calls, password, made, failures,
                 qr, form, history>>

\* addBlocklist: an address goes before a file.  The upload carries the file
\* and, as history, what the user has been told of it.
Add ==
  /\ InDrawer
  /\ drawer.name
  /\ IF drawer.file # None /\ ~drawer.url
     THEN Make(Call("upload",
                    [file |-> drawer.file,
                     count |-> IF drawer.shown = None \/ stray \/ readers # {}
                               THEN None ELSE Preview(drawer.shown)]))
     ELSE Make(Call("list", None))
  /\ UNCHANGED <<page, readers, config, syncing, password, failures,
                 onPage, history>>

\* The list is there: the form is cleared, whatever is in it by now, but for the
\* file.  If its page was left, that throws; and so does an upload that failed,
\* while the other failure is told.
Added(c) ==
  /\ c.kind \in {"list", "upload"}
  /\ Over(c)
  /\ drawer' = IF c.got = "done" /\ page = "blocklists"
               THEN [drawer EXCEPT !.name = FALSE, !.url = FALSE, !.shown = None]
               ELSE drawer
  /\ UNCHANGED <<page, readers, config, syncing, password, made, failures, qr, form, history>>

-------------------------------------------------------------------------------
(* The sync, the peers and the password *)

\* syncLists: the button is enabled again if the call succeeds.
Sync ==
  /\ ~syncing
  /\ syncing' = TRUE
  /\ Make(Call("sync", None))
  /\ UNCHANGED <<page, readers, config, password, failures, onPage, history>>

Synced(c) ==
  /\ c.kind = "sync"
  /\ Over(c)
  /\ syncing' = (c.got # "done")
  /\ UNCHANGED <<page, readers, config, password, made, failures, onPage, history>>

AddDevice ==
  /\ page = "vpn"
  /\ Make(Call("device", None))
  /\ UNCHANGED <<page, readers, config, syncing, password, failures,
                 onPage, history>>

\* The configuration is kept; the QR code is shown, if there is an element.
DeviceAdded(c) ==
  /\ c.kind = "device"
  /\ Over(c)
  /\ IF c.got = "done"
     THEN /\ config' = c.id
          /\ qr' = IF page = "vpn" THEN c.id ELSE qr
     ELSE UNCHANGED <<config, qr>>
  /\ UNCHANGED <<page, readers, syncing, password, made, failures,
                 drawer, form, history>>

\* showPwModal, hidePwModal, and what is typed between them.
TurnForm ==
  /\ page = "security"
  /\ form' = IF form.open THEN NewForm ELSE [form EXCEPT !.open = TRUE]
  /\ UNCHANGED <<page, readers, config, syncing, calls, password, made,
                 failures, drawer, qr, history>>

TypePasswords(current, new) ==
  /\ form.open
  /\ form' = [form EXCEPT !.current = current, !.new = new]
  /\ UNCHANGED <<page, readers, config, syncing, calls, password, made,
                 failures, drawer, qr, history>>

\* A change is asked for: it is alone unless another is under way, which then
\* is not alone either.
Change(change) ==
  LET others == Waiting("password")
      call == [Call("password", change) EXCEPT !.alone = (others = {})]
  IN  /\ made < MaxCalls /\ made' = made + 1
      /\ calls' = (calls \ others) \cup {[c EXCEPT !.alone = FALSE] : c \in others} \cup {call}

SubmitPwChange ==
  /\ form.open
  /\ form.current # None /\ form.new # None
  /\ Change([current |-> form.current, new |-> form.new, here |-> TRUE])
  /\ UNCHANGED <<page, readers, config, syncing, password, failures,
                 onPage, history>>

\* From another browser.
ChangeElsewhere(current, new) ==
  /\ Change([current |-> current, new |-> new, here |-> FALSE])
  /\ UNCHANGED <<page, readers, config, syncing, password, failures,
                 onPage, history>>

\* The change is told, and the form hidden, even if it has been filled in again.
PwChanged(c) ==
  /\ c.kind = "password"
  /\ Over(c)
  /\ form' = IF c.got = "done" /\ c.what.here THEN NewForm ELSE form
  /\ agreed' = CASE c.got = "done" /\ c.alone -> c.what.new
                 [] c.got = "refused" -> agreed
                 [] OTHER -> None
  /\ UNCHANGED <<page, readers, config, syncing, password, made, failures,
                 drawer, qr, stray>>

-------------------------------------------------------------------------------
(* The server *)

\* Call c has got further.
Get(c, got) == calls' = (calls \ {c}) \cup {[c EXCEPT !.got = got]}

Elsewhere == <<page, readers, config, syncing, made, onPage, history>>

\* A list, a peer, a sync; the address of a list may be refused.
Serve(c, got) ==
  /\ c.got = "asked" /\ c.kind # "password"
  /\ got = "refused" => c.kind = "list"
  /\ Get(c, got)
  /\ UNCHANGED <<Elsewhere, password, failures>>

\* Mutant: the password is not compared.
VerifyNothing(c) ==
  /\ c.got = "asked" /\ c.kind = "password"
  /\ Get(c, "verified")
  /\ UNCHANGED <<Elsewhere, password, failures>>

\* change_password reads the password and compares, in one transaction ...
Verify(c) ==
  /\ c.got = "asked" /\ c.kind = "password"
  /\ Get(c, IF c.what.current = password THEN "verified" ELSE "refused")
  /\ UNCHANGED <<Elsewhere, password, failures>>

\* Mutant: the new password is not committed.
WriteNothing(c) ==
  /\ c.got = "verified"
  /\ Get(c, "done")
  /\ UNCHANGED <<Elsewhere, password, failures>>

\* ... and writes the new one in another.
Write(c) ==
  /\ c.got = "verified"
  /\ Get(c, "done")
  /\ password' = c.what.new
  /\ UNCHANGED <<Elsewhere, failures>>

\* A request or an answer is lost.
Lose(c) ==
  /\ c.got \in {"asked", "done"}
  /\ failures < MaxFailures /\ failures' = failures + 1
  /\ Get(c, "lost")
  /\ UNCHANGED <<Elsewhere, password>>

-------------------------------------------------------------------------------
Init ==
  /\ page = "other"
  /\ drawer = NewDrawer
  /\ readers = {}
  /\ config = None /\ qr = None
  /\ form = NewForm
  /\ syncing = FALSE
  /\ calls = {}
  /\ password \in Passwords
  /\ made = 0 /\ failures = 0
  /\ stray = FALSE
  /\ agreed = password

Next ==
  \/ \E p \in Pages : GoPage(p)
  \/ TurnDrawer \/ \E name, url \in BOOLEAN : Fill(name, url)
  \/ \E f \in Files : Choose(f) \/ Drop(f) \/ Read(f)
  \/ Add \/ Sync \/ AddDevice
  \/ TurnForm \/ SubmitPwChange
  \/ \E current, new \in Passwords :
       TypePasswords(current, new) \/ ChangeElsewhere(current, new)
  \/ \E c \in calls :
       \/ Added(c) \/ Synced(c) \/ DeviceAdded(c) \/ PwChanged(c)
       \/ Verify(c) \/ Write(c) \/ Lose(c)
       \/ \E got \in {"done", "refused"} : Serve(c, got)

Spec == Init /\ [][Next]_vars

-------------------------------------------------------------------------------
(* Properties *)

\* The number of domains "ready to import" is the number that an upload
\* imports, or more by the lines that say nothing new, although the file is read
\* once by the browser and once by the server, by two parsers, and others may
\* have been chosen before.  It does not hold for the formats the preview does
\* not know, nor for a file that was dropped, or overtook another.
PreviewIsImport ==
  \A c \in Waiting("upload") :
    c.what.count # None => Announced(c.what.file, c.what.count)

\* The file that is downloaded on the page of the tunnel is the configuration
\* whose QR code is shown there, and without a QR code there is none, although
\* the answer to an earlier request may come to a page that is new.
QrIsConfig == page = "vpn" => config = qr

\* After changes of the password that did not overlap, whether they were made
\* here or elsewhere, taken or refused, the password is the one the user was told
\* of last, if no answer was lost.
PasswordIsAsTold ==
  Waiting("password") = {} /\ agreed # None => password = agreed

\* A password is only replaced by who named it; but of two changes that overlap
\* the later replaces the password the earlier has just set.
PasswordIsNamed ==
  [][password' # password =>
       \E c \in Waiting("password") :
         /\ c.what.new = password'
         /\ c.what.current = password \/ ~c.alone]_vars
===============================================================================
