---------------------------- MODULE PackageEdits ----------------------------
(***************************************************************************)
(* The folder of one app or printer package in a tenant's repository, and  *)
(* the pages that save and remove it (AppsClient.tsx, PrintersClient.tsx). *)
(* A handler is a list of calls on single files, each answered before the  *)
(* next is made; nothing makes them one step, and pages of several         *)
(* operators may be at it at once.  A call that fails ends the handler.    *)
(*                                                                         *)
(* The contents of a file is the number of the operation that wrote it, or *)
(* 0 when the file does not exist; no two saves write the same.  Gitea     *)
(* compares the sha a write gives with that of the file.  The detection    *)
(* and uninstall scripts of a printer are one file; a custom app's         *)
(* detection script, filled in or not like its other two, and attachments  *)
(* are left out; a save for several targets is a save for each.            *)
(***************************************************************************)
EXTENDS Naturals, Sequences, FiniteSets

CONSTANTS
  Pages,      \* browsers with one of the pages
  MaxOps,     \* bound: saves and removals
  MaxFaults   \* bound: failed calls

ASSUME BoundsAssumption == {MaxOps, MaxFaults} \subseteq Nat

Versions == 0 .. MaxOps
Driver   == <<"driver/config", "driver/install">>
Connect  == <<"connect/config", "connect/install">>

\* The files that a listing of a folder shows, and all of them.
Tree     == [root    |-> {"config", "icon", "install", "uninstall"},
             connect |-> {Connect[1], Connect[2]}, driver |-> {Driver[1], Driver[2]}]
InFolder == Tree["root"] \cup Tree["connect"] \cup Tree["driver"]
Files    == InFolder \cup {"group", "sidecar", "manifest"}

VARIABLES
  sort,       \* whose package: that of a package manager, or a printer's
  repo,       \* repo[f]: contents of file f
  page,       \* page[p]: the handler of p
  ops,        \* operations begun
  faults,     \* counter for the bound
  saves,      \* history, saves[n]: what operation n saves, None for a removal
  grouped,    \* history: operations that assign a group they create
  clean,      \* history, clean[p]: nobody else wrote since the handler of p began,
              \* and no answer it read was an error
  mixed,      \* history: handlers have overlapped, or took an error for "not there"
  abandoned,  \* history: a removal has failed and none that was under way goes on
  used        \* history: the package has had a configuration

history == <<saves, grouped, clean, mixed, abandoned, used>>
vars    == <<sort, repo, page, ops, faults, history>>

Unread  == MaxOps + 1   \* no answer yet
Nothing == [f \in InFolder |-> 0]
Idle    == [op |-> 0, todo |-> <<>>, sha |-> Unread, found |-> Nothing, status |-> "idle"]
Busy(p) == page[p].status = "busy"

-----------------------------------------------------------------------------
(* The calls a handler makes. *)

Put(f)       == [do |-> "put", file |-> f]       \* reads its sha and writes it
Need(f)      == [do |-> "need", file |-> f]      \* goes on only if it exists
Drop(f)      == [do |-> "drop", file |-> f]      \* deletes it if it exists
DropTree(d)  == [do |-> "list", file |-> d]      \* deletes what a listing shows
Walk(d)      == [do |-> "walk", file |-> d]      \* notes what a listing shows
Remove       == [do |-> "remove", file |-> "config"]   \* deletes what was noted
Delete(f, v) == [do |-> "delete", file |-> f, sha |-> v]

\* Deletions of what was found, as it is listed: by name, folders in their place.
DeleteOne(f, at)  == IF at[f] = 0 THEN <<>> ELSE <<Delete(f, at[f])>>
DeleteTree(d, at) == IF d = "connect" THEN DeleteOne(Connect[1], at) \o DeleteOne(Connect[2], at)
                     ELSE DeleteOne(Driver[1], at) \o DeleteOne(Driver[2], at)
DeleteAll(at) ==
  DeleteOne("config", at) \o DeleteTree("connect", at) \o DeleteTree("driver", at)
    \o DeleteOne("icon", at) \o DeleteOne("install", at) \o DeleteOne("uninstall", at)
WalkInto(d, at) == IF \A f \in Tree[d] : at[f] = 0 THEN <<>> ELSE <<Walk(d)>>

PutAll(fs)     == <<Put(fs[1]), Put(fs[2])>>
SaveGroup(new) == IF new THEN <<Put("group"), Put("sidecar")>> ELSE <<>>
Both           == {"install", "uninstall"}
SaveScripts(scripts) == (IF "install" \in scripts THEN <<Put("install")>> ELSE <<>>)
                          \o (IF "uninstall" \in scripts THEN <<Put("uninstall")>> ELSE <<>>)

\* The scripts that a save of an app writes: those of its manager, for a custom app those
\* that are filled in, and none when it is only managed.
DeployScripts == [winget |-> {Both}, chocolatey |-> {{"install"}}, custom |-> SUBSET Both]
ManageScripts == [DeployScripts EXCEPT !.custom = {{}}]

\* Mutant: the configuration is written before the group that it assigns.
DeployConfigFirst(new, icon, scripts) ==
  <<Put("config")>> \o SaveGroup(new) \o (IF icon = "put" THEN <<Put("icon")>> ELSE <<>>)
    \o SaveScripts(scripts)

DeployApp(new, icon, scripts) ==
  SaveGroup(new) \o <<Put("config")>> \o (IF icon = "put" THEN <<Put("icon")>> ELSE <<>>)
    \o SaveScripts(scripts)

\* An icon is dropped when the configuration names it; otherwise it is kept.
ManageApp(new, icon, scripts) ==
  <<Need("config")>> \o SaveGroup(new) \o <<Put("config")>>
    \o (CASE icon = "put" -> <<Put("icon")>> [] icon = "drop" -> <<Drop("icon")>> [] OTHER -> <<>>)
    \o SaveScripts(scripts)

\* Mutant: of a split package, only the driver's folder is cleaned up.
CleanupDriver(split) ==
  IF split THEN <<Drop("install"), Drop("uninstall")>> ELSE <<DropTree("driver")>>

\* Mutant: nothing is cleaned up before a package is split.
CleanupJoined(split) ==
  IF split THEN <<>> ELSE <<DropTree("driver"), DropTree("connect")>>

CleanupLayout(split) ==
  IF split THEN <<Drop("install"), Drop("uninstall")>> ELSE <<DropTree("driver"), DropTree("connect")>>

WritePrinter(new, split) ==
  SaveGroup(new) \o CleanupLayout(split) \o <<Put("config")>>
    \o (IF split THEN PutAll(Driver) \o PutAll(Connect) ELSE SaveScripts(Both))

RemovePackage == <<Walk("root"), Remove>>

-----------------------------------------------------------------------------
Call == [do : {"put"}, file : Files] \cup {Need("config")}
        \cup [do : {"drop"}, file : Tree["root"]]
        \cup [do : {"list", "walk"}, file : DOMAIN Tree]
        \cup [do : {"delete"}, file : InFolder, sha : Versions] \cup {Remove}

\* What an operation saves, and with which scripts.
None  == [kind |-> "none", scripts |-> {}]
Saves == {None} \cup [kind : {"app", "icon", "bare", "single", "split"}, scripts : SUBSET Both]
Sorts == {"winget", "chocolatey", "custom", "printer"}

TypeOK ==
  /\ sort \in Sorts /\ repo \in [Files -> Versions]
  /\ page \in [Pages -> [op : Versions, todo : Seq(Call), sha : Versions \cup {Unread},
                         found : [InFolder -> Versions],
                         status : {"idle", "busy", "saved", "failed"}]]
  /\ ops \in 0 .. MaxOps /\ faults \in 0 .. MaxFaults
  /\ saves \in [1 .. MaxOps -> Saves] /\ grouped \subseteq 1 .. MaxOps
  /\ clean \in [Pages -> BOOLEAN] /\ {mixed, abandoned, used} \subseteq BOOLEAN

Init ==
  /\ sort \in Sorts /\ repo = [f \in Files |-> 0]
  /\ page = [p \in Pages |-> Idle] /\ ops = 0 /\ faults = 0
  /\ saves = [n \in 1 .. MaxOps |-> None] /\ grouped = {}
  /\ clean = [p \in Pages |-> FALSE]
  /\ mixed = FALSE /\ abandoned = FALSE /\ used = FALSE

Begin(p, calls, what, new) ==
  /\ ~Busy(p) /\ ops < MaxOps /\ ops' = ops + 1
  /\ page' = [page EXCEPT ![p] = [Idle EXCEPT !.op = ops + 1, !.todo = calls, !.status = "busy"]]
  /\ saves' = [saves EXCEPT ![ops + 1] = what]
  /\ grouped' = IF new THEN grouped \cup {ops + 1} ELSE grouped
  /\ clean' = [clean EXCEPT ![p] = TRUE]
  /\ UNCHANGED <<sort, repo, faults, mixed, abandoned, used>>

\* What an icon does to the one that is there.
IconOf(icon)          == CASE icon = "put" -> "icon" [] icon = "drop" -> "bare" [] OTHER -> "app"
AppSave(icon, scripts) == [kind |-> IconOf(icon), scripts |-> scripts]
PrinterSave(split)     == [kind |-> IF split THEN "split" ELSE "single", scripts |-> Both]

SaveApp(p) ==
  /\ sort # "printer"
  /\ \E new \in BOOLEAN :
       \/ \E icon \in {"put", "keep"}, scripts \in DeployScripts[sort] :
            Begin(p, DeployApp(new, icon, scripts), AppSave(icon, scripts), new)
       \/ \E icon \in {"put", "keep", "drop"}, scripts \in ManageScripts[sort] :
            Begin(p, ManageApp(new, icon, scripts), AppSave(icon, scripts), new)

SavePrinter(p) ==
  /\ sort = "printer"
  /\ \E new, split \in BOOLEAN : Begin(p, WritePrinter(new, split), PrinterSave(split), new)

RemoveFromGit(p) == Begin(p, RemovePackage, None, FALSE)

-----------------------------------------------------------------------------
(* The steps of a handler. *)

NextCall(p) == Head(page[p].todo)
Calls(p, do) == Busy(p) /\ NextCall(p).do \in do
Rest(p)   == Tail(page[p].todo)

Stop(p, how) == page' = [page EXCEPT ![p] = [Idle EXCEPT !.op = page[p].op, !.status = how]]
Go(p, calls) == IF calls = <<>> THEN Stop(p, "saved")
                ELSE page' = [page EXCEPT ![p].todo = calls, ![p].sha = Unread]

Fault   == faults < MaxFaults /\ faults' = faults + 1
NoFault == UNCHANGED faults
Blind(p) == clean' = [clean EXCEPT ![p] = FALSE] /\ mixed' = TRUE

Removes(p) == Busy(p) /\ saves[page[p].op] = None
GivesUp(p) == abandoned' = (abandoned \/ (Removes(p) /\ used /\ repo["manifest"] = 0))

\* A handler that is refused or finds nothing gives up unless another removal goes on.
GivesWay(p) == IF \E q \in Pages \ {p} : Removes(q) THEN UNCHANGED abandoned ELSE GivesUp(p)

\* A fault that ends the handler: the error is shown, or the window is closed.
Breaks(p) == Fault /\ Stop(p, "failed") /\ GivesUp(p)

\* The file's sha, which an error answer leaves out as a missing file does.
Read(p) ==
  /\ Calls(p, {"put", "need", "drop"}) /\ page[p].sha = Unread
  /\ LET c == NextCall(p) IN
     \E sha \in {repo[c.file], 0}, broken \in BOOLEAN :
       /\ IF broken THEN Breaks(p) /\ UNCHANGED <<clean, mixed>>
          ELSE /\ IF sha = repo[c.file] THEN NoFault /\ UNCHANGED <<clean, mixed>> ELSE Fault /\ Blind(p)
               /\ UNCHANGED abandoned
               /\ IF c.do = "put" \/ (c.do = "drop" /\ sha # 0) THEN page' = [page EXCEPT ![p].sha = sha]
                  ELSE IF c.do = "need" /\ sha = 0 THEN Stop(p, "failed") ELSE Go(p, Rest(p))
  /\ UNCHANGED <<sort, repo, ops, saves, grouped, used>>

\* A listing, all of it or an error, which is taken for an empty folder.
List(p) ==
  /\ Calls(p, {"list", "walk"})
  /\ LET d     == NextCall(p).file
         trees == IF d = "root" THEN WalkInto("connect", repo) \o WalkInto("driver", repo) ELSE <<>>
     IN  \/ Breaks(p) /\ UNCHANGED <<clean, mixed>>
         \/ Fault /\ Blind(p) /\ Go(p, Rest(p)) /\ UNCHANGED abandoned
         \/ /\ NoFault /\ UNCHANGED <<clean, mixed, abandoned>>
            /\ IF NextCall(p).do = "list" THEN Go(p, DeleteTree(d, repo) \o Rest(p))
               ELSE page' = [page EXCEPT
                      ![p].todo = trees \o Rest(p),
                      ![p].found = [f \in InFolder |-> IF f \in Tree[d] THEN repo[f] ELSE @[f]]]
  /\ UNCHANGED <<sort, repo, ops, saves, grouped, used>>

\* Mutant: the removal from Intune is not queued.
BeginDeletingOnly(p) ==
  /\ Calls(p, {"remove"})
  /\ IF page[p].found = Nothing THEN Stop(p, "failed") /\ GivesWay(p)
     ELSE /\ page' = [page EXCEPT ![p].todo = DeleteAll(page[p].found), ![p].found = Nothing]
          /\ UNCHANGED abandoned
  /\ UNCHANGED <<sort, repo, ops, faults, saves, grouped, clean, mixed, used>>

\* The removal of what was found, and then its manifest for the next run.
BeginDeleting(p) ==
  /\ Calls(p, {"remove"})
  /\ IF page[p].found = Nothing THEN Stop(p, "failed") /\ GivesWay(p)
     ELSE /\ page' = [page EXCEPT ![p].todo = DeleteAll(page[p].found) \o <<Put("manifest")>>,
                                  ![p].found = Nothing]
          /\ UNCHANGED abandoned
  /\ UNCHANGED <<sort, repo, ops, faults, saves, grouped, clean, mixed, used>>

\* Does Gitea take a write that gives this sha?
Accepts(f, sha) == repo[f] = sha

Write(p) ==
  /\ Calls(p, {"put", "drop", "delete"})
  /\ LET c    == NextCall(p)
         sha  == IF c.do = "delete" THEN c.sha ELSE page[p].sha
         done == [repo EXCEPT ![c.file] = IF c.do = "put" THEN page[p].op ELSE 0]
     IN
     /\ sha # Unread
     /\ \/ /\ Accepts(c.file, sha) /\ repo' = done
           /\ \/ NoFault /\ Go(p, Rest(p)) /\ abandoned' = (abandoned /\ c.file # "manifest")
              \/ Breaks(p)
        \/ /\ ~Accepts(c.file, sha) /\ UNCHANGED repo
           /\ NoFault /\ Stop(p, "failed")
           /\ GivesWay(p)
        \/ UNCHANGED repo /\ Breaks(p)
  /\ clean' = [q \in Pages |-> clean[q] /\ (q = p \/ repo' = repo)]
  /\ mixed' = (mixed \/ (repo' # repo /\ \E q \in Pages \ {p} : Busy(q)))
  /\ used' = (used \/ repo'["config"] # 0)
  /\ UNCHANGED <<sort, ops, saves, grouped>>

\* A run carries out the removal that is queued and drops its manifest.
RunTakesManifest ==
  /\ repo["manifest"] # 0 /\ repo' = [repo EXCEPT !["manifest"] = 0] /\ used' = (repo["config"] # 0)
  /\ UNCHANGED <<sort, page, ops, faults, saves, grouped, clean, mixed, abandoned>>

Next ==
  \/ RunTakesManifest
  \/ \E p \in Pages :
       \/ SaveApp(p) \/ SavePrinter(p) \/ RemoveFromGit(p)
       \/ Read(p) \/ List(p) \/ BeginDeleting(p) \/ Write(p)
Spec == Init /\ [][Next]_vars

-----------------------------------------------------------------------------
(* Properties. *)

Written(what) ==
  {"config"} \cup (IF what.kind = "split"
                   THEN {"driver/config", "driver/install", "connect/config", "connect/install"}
                   ELSE what.scripts \cup (IF what.kind = "icon" THEN {"icon"} ELSE {}))

\* What a save leaves as it finds it: the icon, and of a custom app the scripts that are
\* not filled in, be they of an earlier save or of one that failed (AppsClient.tsx:649-653).
Kept(what) == (IF what.kind = "app" THEN {"icon"} ELSE {}) \cup (IF sort = "custom" THEN Both ELSE {})

\* What a save reports as saved is there as it was saved, with nothing left of an earlier
\* layout or of a save that failed but what it keeps, when nobody else wrote in the
\* meantime.  A removal leaves nothing (PrintersClient.tsx:451-469, 692-768).
ReportedIsThere ==
  \A p \in Pages :
    page[p].status = "saved" /\ clean[p] =>
      LET what == saves[page[p].op] IN
      IF what = None THEN \A f \in InFolder : repo[f] = 0
      ELSE \A f \in InFolder : IF f \in Written(what) THEN repo[f] = page[p].op
                               ELSE repo[f] = 0 \/ f \in Kept(what)

\* A package whose files are gone is queued for removal from Intune, or its removal is
\* under way, unless a removal failed that no other one overlapped (AppsClient.tsx:533).
RemovalQueued ==
  used /\ ~abandoned /\ (\A f \in InFolder : repo[f] = 0) /\ (\A p \in Pages : ~Busy(p))
    => repo["manifest"] # 0

\* A configuration that assigns a group which its save created finds the group's files,
\* whichever call failed (AppsClient.tsx:627-640).
AssignedGroupExists ==
  repo["config"] \in grouped => repo["group"] # 0 /\ repo["sidecar"] # 0

\* What a run's clone would install (Configure-PrinterApps.ps1:153-206).
There(f) == repo[f] # 0
Discovered ==
  IF There("config") /\ saves[repo["config"]].kind = "split" /\ There("driver/config") /\ There("connect/config")
  THEN "split"
  ELSE IF There("config") /\ There("install") THEN "single" ELSE "none"

\* At no point of a save does a run find a package of the layout that the configuration
\* has left or has not reached.
OneLayout ==
  sort = "printer" /\ ~mixed /\ Discovered = "single" => saves[repo["config"]].kind = "single"
=============================================================================
