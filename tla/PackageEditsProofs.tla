------------------------- MODULE PackageEditsProofs -------------------------
(***************************************************************************)
(* Proofs about the handlers of PackageEdits, for any set of pages and any *)
(* bounds.  A handler is reasoned about by the set of its calls that are   *)
(* still pending and by the place of a call among the others: what it has  *)
(* not done yet is pending, and what is pending comes no earlier than the  *)
(* call that is next.                                                      *)
(***************************************************************************)
EXTENDS PackageEdits, TLAPS

-----------------------------------------------------------------------------
(* The inductive invariant. *)

Pending(s) == {s[i] : i \in DOMAIN s}

\* Where a call belongs in a handler.
Place(c) ==
  CASE c.do \in {"walk", "need"}                                   -> 1
    [] c.do = "put" /\ c.file \in {"group", "sidecar"}              -> 2
    [] c.do \in {"list", "delete"} \/ (c.do = "drop" /\ c.file # "icon") -> 3
    [] c.do = "put" /\ c.file = "config"                            -> 4
    [] c.do = "remove" \/ (c.do = "put" /\ c.file = "manifest")     -> 6
    [] OTHER                                                        -> 5

InOrder(s) == \A i, j \in DOMAIN s : i < j => Place(s[i]) <= Place(s[j])

Trees == Tree["connect"] \cup Tree["driver"]

\* The calls that a handler of each kind may make.
Removing == [do : {"walk"}, file : DOMAIN Tree] \cup [do : {"delete"}, file : InFolder, sha : Versions]
            \cup {Remove, Put("manifest")}
Cleaning(what) ==
  CASE what.kind = "split"  -> {Drop("install"), Drop("uninstall")}
    [] what.kind = "single" -> {DropTree("connect"), DropTree("driver")}
                          \cup [do : {"delete"}, file : Trees, sha : Versions]
    [] what.kind = "bare"   -> {Drop("icon")}
    [] OTHER           -> {}
Puts(what)   == {Put(f) : f \in {"group", "sidecar"} \cup Written(what)}
Saving(what) == {Need("config")} \cup Puts(what) \cup Cleaning(what)
Made(what)   == IF what = None THEN Removing ELSE Saving(what)

\* What may be saved of a package.
Kinds == IF sort = "printer" THEN [kind : {"single", "split"}, scripts : {Both}]
         ELSE [kind : {"app", "icon", "bare"}, scripts : DeployScripts[sort]]

What(p) == saves[page[p].op]
Todo(p) == Pending(page[p].todo)

\* A handler that runs has a call to make, and makes those of its kind in their order;
\* an idle one has none.
Handler(p) ==
  /\ ~Busy(p) => page[p].todo = <<>>
  /\ page[p].op \in 0 .. ops
  /\ Busy(p) => /\ page[p].todo # <<>> /\ page[p].op # 0
                /\ What(p) \in Kinds \cup {None}
                /\ Todo(p) \subseteq Made(What(p))
                /\ InOrder(page[p].todo)
  /\ Removes(p) => Remove \in Todo(p) \/ Put("manifest") \in Todo(p)

\* What a call that is pending will see to.
Clears(c, f) ==
  (c.do \in {"drop", "delete"} /\ c.file = f) \/ (c.do = "list" /\ f \in Tree[c.file])
Looks(c, f) == c.do = "walk" /\ (c.file = "root" \/ f \in Tree[c.file])

\* What an undisturbed save has not done yet is pending: everything it writes,
WrittenOrPending(p) ==
  \A f \in Written(What(p)) : repo[f] = page[p].op \/ Put(f) \in Todo(p)

\* and everything it leaves nothing of.
ClearedOrPending(p) ==
  \A f \in InFolder \ Written(What(p)) :
    repo[f] = 0 \/ f \in Kept(What(p)) \/ \E c \in Todo(p) : Clears(c, f)

\* A removal has yet to see, to delete or to have seen what is there.
RemovedOrPending(p) ==
  \A f \in InFolder :
    \/ repo[f] = 0
    \/ \E c \in Todo(p) : Clears(c, f)
    \/ Remove \in Todo(p) /\ (page[p].found[f] # 0 \/ \E c \in Todo(p) : Looks(c, f))

DoneOrPending(p) ==
  page[p].status \in {"busy", "saved"} /\ clean[p] =>
    /\ page[p].op # 0 /\ What(p) \in Kinds \cup {None}
    /\ What(p) = None => RemovedOrPending(p)
    /\ What(p) # None => WrittenOrPending(p) /\ ClearedOrPending(p)

\* A group of an operation under way is there or pending.
GroupOrPending(p) ==
  Busy(p) /\ page[p].op \in grouped =>
    \A f \in {"group", "sidecar"} : repo[f] # 0 \/ Put(f) \in Todo(p)

\* Handlers that have not overlapped are undisturbed.
CleanUnlessMixed == \A p \in Pages : Busy(p) /\ ~mixed => clean[p]

\* A file was written by an operation that has begun, and the configuration by a save.
Stamped ==
  /\ \A f \in Files : repo[f] <= ops
  /\ grouped \subseteq 1 .. ops
  /\ repo["config"] # 0 => saves[repo["config"]] \in Kinds
  /\ repo["config"] # 0 => used

\* Apps have no folders for drivers, printers have no icons, and those of chocolatey no
\* script to uninstall them.
OwnFiles ==
  /\ sort # "printer" => \A f \in Trees : repo[f] = 0
  /\ sort = "printer" => repo["icon"] = 0
  /\ sort = "chocolatey" => repo["uninstall"] = 0

\* While handlers do not overlap, a split configuration stands without a joined script.
SplitStandsAlone ==
  ~mixed /\ repo["config"] # 0 /\ saves[repo["config"]].kind = "split" => repo["install"] = 0

\* A package without a configuration is queued for removal or a removal is under way.
RemovalUnderWay ==
  used /\ ~abandoned /\ repo["config"] = 0 => repo["manifest"] # 0 \/ \E p \in Pages : Removes(p)

PackageInv ==
  /\ TypeOK
  /\ \A p \in Pages : Handler(p) /\ DoneOrPending(p) /\ GroupOrPending(p)
  /\ CleanUnlessMixed /\ Stamped /\ OwnFiles
  /\ SplitStandsAlone /\ RemovalUnderWay /\ AssignedGroupExists

-----------------------------------------------------------------------------
(* The calls of a sequence and their places. *)

\* A call has one of six places.
LEMMA PlaceType ==
  ASSUME NEW c PROVE Place(c) \in 1 .. 6
BY DEF Place

\* A part of a handler: its calls, in order, have places in an interval.
Part(s, S, lo, hi) ==
  /\ s \in Seq(Call) /\ Pending(s) = S /\ InOrder(s)
  /\ \A c \in S : lo <= Place(c) /\ Place(c) <= hi

\* No calls are a part.
LEMMA PartEmpty ==
  ASSUME NEW lo \in Nat, NEW hi \in Nat PROVE Part(<<>>, {}, lo, hi)
BY DEF Part, Pending, InOrder

\* One call is a part.
LEMMA PartOne ==
  ASSUME NEW a \in Call, NEW lo \in Nat, NEW hi \in Nat, lo <= Place(a), Place(a) <= hi
  PROVE  Part(<<a>>, {a}, lo, hi)
<1>1. <<a>> \in Seq(Call) /\ DOMAIN <<a>> = 1 .. 1 /\ <<a>>[1] = a
  OBVIOUS
<1>2. Pending(<<a>>) = {a}
  BY <1>1 DEF Pending
<1>3. InOrder(<<a>>)
  BY <1>1 DEF InOrder
<1> QED
  BY <1>1, <1>2, <1>3 DEF Part

\* Two calls in order are a part.
LEMMA PartTwo ==
  ASSUME NEW a \in Call, NEW b \in Call, NEW lo \in Nat, NEW hi \in Nat,
         lo <= Place(a), Place(a) <= Place(b), Place(b) <= hi
  PROVE  Part(<<a, b>>, {a, b}, lo, hi)
<1>1. <<a, b>> \in Seq(Call) /\ DOMAIN <<a, b>> = 1 .. 2 /\ <<a, b>>[1] = a /\ <<a, b>>[2] = b
  OBVIOUS
<1>2. Pending(<<a, b>>) = {a, b}
  BY <1>1 DEF Pending
<1>3. Place(a) \in 1 .. 6 /\ Place(b) \in 1 .. 6
  BY PlaceType
<1>4. InOrder(<<a, b>>)
  BY <1>1, <1>3 DEF InOrder
<1> QED
  BY <1>1, <1>2, <1>3, <1>4 DEF Part

\* The calls of a concatenation.
LEMMA PendingCat ==
  ASSUME NEW s \in Seq(Call), NEW t \in Seq(Call)
  PROVE  Pending(s \o t) = Pending(s) \cup Pending(t)
<1>1. /\ s \o t \in Seq(Call) /\ DOMAIN (s \o t) = 1 .. Len(s) + Len(t)
      /\ Len(s) \in Nat /\ Len(t) \in Nat /\ DOMAIN s = 1 .. Len(s) /\ DOMAIN t = 1 .. Len(t)
      /\ \A i \in 1 .. Len(s) + Len(t) :
           (s \o t)[i] = IF i <= Len(s) THEN s[i] ELSE t[i - Len(s)]
  OBVIOUS
<1>2. ASSUME NEW c \in Pending(s \o t) PROVE c \in Pending(s) \cup Pending(t)
  <2>1. PICK i \in 1 .. Len(s) + Len(t) : c = (s \o t)[i]
    BY <1>1 DEF Pending
  <2>2. CASE i <= Len(s)
    BY <1>1, <2>1, <2>2 DEF Pending
  <2>3. CASE ~(i <= Len(s))
    <3>1. i - Len(s) \in 1 .. Len(t)
      BY <1>1, <2>3
    <3> QED
      BY <1>1, <2>1, <2>3, <3>1 DEF Pending
  <2> QED
    BY <2>2, <2>3
<1>3. ASSUME NEW c \in Pending(s) PROVE c \in Pending(s \o t)
  <2>1. PICK i \in 1 .. Len(s) : c = s[i]
    BY <1>1, <1>3 DEF Pending
  <2>2. i \in 1 .. Len(s) + Len(t) /\ (s \o t)[i] = c
    BY <1>1, <2>1
  <2> QED
    BY <1>1, <2>2 DEF Pending
<1>4. ASSUME NEW c \in Pending(t) PROVE c \in Pending(s \o t)
  <2>1. PICK i \in 1 .. Len(t) : c = t[i]
    BY <1>1, <1>4 DEF Pending
  <2>2. i + Len(s) \in 1 .. Len(s) + Len(t) /\ (s \o t)[i + Len(s)] = c
    BY <1>1, <2>1
  <2> QED
    BY <1>1, <2>2 DEF Pending
<1> QED
  BY <1>2, <1>3, <1>4

\* A concatenation is in order when its parts are and the first comes before the second.
LEMMA OrderCat ==
  ASSUME NEW s \in Seq(Call), NEW t \in Seq(Call), InOrder(s), InOrder(t),
         \A c \in Pending(s), d \in Pending(t) : Place(c) <= Place(d)
  PROVE  InOrder(s \o t)
<1>1. /\ s \o t \in Seq(Call) /\ DOMAIN (s \o t) = 1 .. Len(s) + Len(t)
      /\ Len(s) \in Nat /\ Len(t) \in Nat /\ DOMAIN s = 1 .. Len(s) /\ DOMAIN t = 1 .. Len(t)
      /\ \A i \in 1 .. Len(s) + Len(t) :
           (s \o t)[i] = IF i <= Len(s) THEN s[i] ELSE t[i - Len(s)]
  OBVIOUS
<1> SUFFICES ASSUME NEW i \in 1 .. Len(s) + Len(t), NEW j \in 1 .. Len(s) + Len(t), i < j
             PROVE  Place((s \o t)[i]) <= Place((s \o t)[j])
  BY <1>1 DEF InOrder
<1>2. CASE j <= Len(s)
  BY <1>1, <1>2 DEF InOrder
<1>3. CASE i > Len(s)
  <2>1. i - Len(s) \in 1 .. Len(t) /\ j - Len(s) \in 1 .. Len(t) /\ i - Len(s) < j - Len(s)
    BY <1>1, <1>3
  <2>2. (s \o t)[i] = t[i - Len(s)] /\ (s \o t)[j] = t[j - Len(s)]
    BY <1>1, <1>3
  <2> QED
    BY <1>1, <2>1, <2>2 DEF InOrder
<1>4. CASE i <= Len(s) /\ j > Len(s)
  <2>1. j - Len(s) \in 1 .. Len(t) /\ i \in 1 .. Len(s)
    BY <1>1, <1>4
  <2>2. (s \o t)[i] = s[i] /\ (s \o t)[j] = t[j - Len(s)]
    BY <1>1, <1>4
  <2>3. s[i] \in Pending(s) /\ t[j - Len(s)] \in Pending(t)
    BY <1>1, <2>1 DEF Pending
  <2> QED
    BY <2>2, <2>3
<1> QED
  BY <1>1, <1>2, <1>3, <1>4

\* Parts put together.
LEMMA PartCat ==
  ASSUME NEW s, NEW t, NEW S, NEW T,
         NEW lo \in Nat, NEW a \in Nat, NEW b \in Nat, NEW hi \in Nat, lo <= a, a <= b, b <= hi,
         Part(s, S, lo, a), Part(t, T, b, hi)
  PROVE  Part(s \o t, S \cup T, lo, hi)
<1>1. s \in Seq(Call) /\ t \in Seq(Call) /\ s \o t \in Seq(Call)
  BY DEF Part
<1>2. \A c : Place(c) \in 1 .. 6
  BY PlaceType
<1>3. \A c \in Pending(s), d \in Pending(t) : Place(c) <= Place(d)
  BY <1>2 DEF Part
<1>4. InOrder(s \o t)
  BY <1>1, <1>3, OrderCat DEF Part
<1>5. Pending(s \o t) = S \cup T
  BY <1>1, PendingCat DEF Part
<1>6. \A c \in S \cup T : lo <= Place(c) /\ Place(c) <= hi
  BY <1>2 DEF Part
<1> QED
  BY <1>1, <1>4, <1>5, <1>6 DEF Part

\* The next call, and the rest.
LEMMA PendingTail ==
  ASSUME NEW s \in Seq(Call), s # <<>>
  PROVE  /\ Head(s) \in Call /\ Tail(s) \in Seq(Call)
         /\ Pending(s) = {Head(s)} \cup Pending(Tail(s))
         /\ InOrder(s) => /\ InOrder(Tail(s))
                          /\ \A d \in Pending(s) : Place(Head(s)) <= Place(d)
<1>1. /\ Len(s) \in Nat \ {0} /\ DOMAIN s = 1 .. Len(s)
      /\ Tail(s) \in Seq(Call) /\ DOMAIN Tail(s) = 1 .. Len(s) - 1
      /\ Head(s) = s[1] /\ Head(s) \in Call
      /\ \A i \in 1 .. Len(s) - 1 : Tail(s)[i] = s[i + 1]
  OBVIOUS
<1>2. ASSUME NEW c \in Pending(s) PROVE c \in {Head(s)} \cup Pending(Tail(s))
  <2>1. PICK i \in 1 .. Len(s) : c = s[i]
    BY <1>1 DEF Pending
  <2>2. CASE i = 1
    BY <1>1, <2>1, <2>2
  <2>3. CASE i # 1
    <3>1. i - 1 \in 1 .. Len(s) - 1 /\ Tail(s)[i - 1] = s[i]
      BY <1>1, <2>1, <2>3
    <3> QED
      BY <1>1, <2>1, <3>1 DEF Pending
  <2> QED
    BY <2>2, <2>3
<1>3. ASSUME NEW c \in Pending(Tail(s)) PROVE c \in Pending(s)
  <2>1. PICK i \in 1 .. Len(s) - 1 : c = Tail(s)[i]
    BY <1>1, <1>3 DEF Pending
  <2>2. i + 1 \in 1 .. Len(s) /\ c = s[i + 1]
    BY <1>1, <2>1
  <2> QED
    BY <1>1, <2>2 DEF Pending
<1>4. Head(s) \in Pending(s)
  BY <1>1 DEF Pending
<1>5. ASSUME InOrder(s)
      PROVE  InOrder(Tail(s)) /\ \A d \in Pending(s) : Place(Head(s)) <= Place(d)
  <2>1. ASSUME NEW i \in 1 .. Len(s) - 1, NEW j \in 1 .. Len(s) - 1, i < j
        PROVE  Place(Tail(s)[i]) <= Place(Tail(s)[j])
    <3>1. i + 1 \in DOMAIN s /\ j + 1 \in DOMAIN s /\ i + 1 < j + 1
      BY <1>1, <2>1
    <3> QED
      BY <1>1, <1>5, <3>1 DEF InOrder
  <2>2. ASSUME NEW i \in 1 .. Len(s) PROVE Place(s[1]) <= Place(s[i])
    <3>1. CASE i = 1
      <4>1. Place(s[1]) \in 1 .. 6
        BY PlaceType
      <4> QED
        BY <3>1, <4>1
    <3>2. CASE i # 1
      <4>1. 1 \in DOMAIN s /\ i \in DOMAIN s /\ 1 < i
        BY <1>1, <3>2
      <4> QED
        BY <1>5, <4>1 DEF InOrder
    <3> QED
      BY <3>1, <3>2
  <2> QED
    BY <1>1, <2>1, <2>2 DEF InOrder, Pending
<1> QED
  BY <1>1, <1>2, <1>3, <1>4, <1>5

-----------------------------------------------------------------------------
(* What the handlers set out to do. *)

\* The places of the calls that are made.
LEMMA Places ==
  /\ \A f \in {"group", "sidecar"} : Put(f) \in Call /\ Place(Put(f)) = 2
  /\ Put("config") \in Call /\ Place(Put("config")) = 4
  /\ Put("manifest") \in Call /\ Place(Put("manifest")) = 6
  /\ \A f \in InFolder \ {"config"} : Put(f) \in Call /\ Place(Put(f)) = 5
  /\ Drop("icon") \in Call /\ Place(Drop("icon")) = 5
  /\ \A f \in {"install", "uninstall"} : Drop(f) \in Call /\ Place(Drop(f)) = 3
  /\ \A d \in DOMAIN Tree : DropTree(d) \in Call /\ Place(DropTree(d)) = 3
  /\ \A d \in DOMAIN Tree : Walk(d) \in Call /\ Place(Walk(d)) = 1
  /\ Need("config") \in Call /\ Place(Need("config")) = 1
  /\ Remove \in Call /\ Place(Remove) = 6
  /\ \A f \in InFolder, v \in Versions : Delete(f, v) \in Call /\ Place(Delete(f, v)) = 3
<1> USE DEF Call, Place, Put, Drop, DropTree, Walk, Need, Remove, Delete, Files, Tree, InFolder, Connect, Driver
<1>1. \A f \in {"group", "sidecar"} : Put(f) \in Call /\ Place(Put(f)) = 2
  OBVIOUS
<1>2. Put("config") \in Call /\ Place(Put("config")) = 4
  OBVIOUS
<1>3. Put("manifest") \in Call /\ Place(Put("manifest")) = 6
  OBVIOUS
<1>4. \A f \in InFolder \ {"config"} : Put(f) \in Call /\ Place(Put(f)) = 5
  OBVIOUS
<1>5. Drop("icon") \in Call /\ Place(Drop("icon")) = 5
  OBVIOUS
<1>6. \A f \in {"install", "uninstall"} : Drop(f) \in Call /\ Place(Drop(f)) = 3
  OBVIOUS
<1>7. \A d \in DOMAIN Tree : DropTree(d) \in Call /\ Place(DropTree(d)) = 3
  OBVIOUS
<1>8. \A d \in DOMAIN Tree : Walk(d) \in Call /\ Place(Walk(d)) = 1
  OBVIOUS
<1>9. Need("config") \in Call /\ Place(Need("config")) = 1
  OBVIOUS
<1>10. Remove \in Call /\ Place(Remove) = 6
  OBVIOUS
<1>11. \A f \in InFolder, v \in Versions : Delete(f, v) \in Call /\ Place(Delete(f, v)) = 3
  OBVIOUS
<1> QED
  BY <1>1, <1>2, <1>3, <1>4, <1>5, <1>6, <1>7, <1>8, <1>9, <1>10, <1>11

\* The interval of a part may be widened.
LEMMA PartWiden ==
  ASSUME NEW s, NEW S, NEW lo \in Nat, NEW hi \in Nat, NEW a \in Nat, NEW b \in Nat,
         Part(s, S, a, b), lo <= a, b <= hi
  PROVE  Part(s, S, lo, hi)
<1>1. \A c : Place(c) \in 1 .. 6
  BY PlaceType
<1> QED
  BY <1>1 DEF Part

\* The files of the folder.
LEMMA FolderFiles ==
  /\ InFolder = {"config", "icon", "install", "uninstall", "driver/config", "driver/install",
                 "connect/config", "connect/install"}
  /\ Trees = {"driver/config", "driver/install", "connect/config", "connect/install"}
  /\ Tree["connect"] = {"connect/config", "connect/install"}
  /\ Tree["driver"] = {"driver/config", "driver/install"}
  /\ Tree["root"] = {"config", "icon", "install", "uninstall"}
  /\ DOMAIN Tree = {"root", "connect", "driver"}
BY DEF InFolder, Trees, Tree, Connect, Driver

\* The cleaning that a save of each kind sets out with.
Cleanup(what) ==
  CASE what.kind = "split"  -> {Drop("install"), Drop("uninstall")}
    [] what.kind = "single" -> {DropTree("driver"), DropTree("connect")}
    [] what.kind = "bare"   -> {Drop("icon")}
    [] OTHER           -> {}

\* A list of calls that is all that an operation has to do.
Planned(calls, what, new) ==
  /\ Part(calls, Pending(calls), 1, 6) /\ calls # <<>>
  /\ Pending(calls) \subseteq Made(what)
  /\ what # None => /\ \A f \in Written(what) : Put(f) \in Pending(calls)
                    /\ Cleanup(what) \subseteq Pending(calls)
  /\ what = None => Walk("root") \in Pending(calls) /\ Remove \in Pending(calls)
  /\ new => \A f \in {"group", "sidecar"} : Put(f) \in Pending(calls)

GroupCalls(new) == IF new THEN {Put("group"), Put("sidecar")} ELSE {}

\* The files of a new group come second.
LEMMA GroupPart ==
  ASSUME NEW new \in BOOLEAN PROVE Part(SaveGroup(new), GroupCalls(new), 2, 2)
BY Places, PartEmpty, PartTwo DEF SaveGroup, GroupCalls

ScriptCalls(scripts) ==
  (IF "install" \in scripts THEN {Put("install")} ELSE {})
    \cup (IF "uninstall" \in scripts THEN {Put("uninstall")} ELSE {})

\* The scripts come after the configuration.
LEMMA ScriptsPart ==
  ASSUME NEW scripts \in SUBSET Both PROVE Part(SaveScripts(scripts), ScriptCalls(scripts), 5, 5)
<1> DEFINE I == IF "install" \in scripts THEN <<Put("install")>> ELSE <<>>
           U == IF "uninstall" \in scripts THEN <<Put("uninstall")>> ELSE <<>>
           CI == IF "install" \in scripts THEN {Put("install")} ELSE {}
           CU == IF "uninstall" \in scripts THEN {Put("uninstall")} ELSE {}
<1>1. Part(I, CI, 5, 5) /\ Part(U, CU, 5, 5)
  BY Places, PartEmpty, PartOne, FolderFiles
<1>2. SaveScripts(scripts) = I \o U /\ ScriptCalls(scripts) = CI \cup CU
  BY DEF SaveScripts, ScriptCalls
<1> HIDE DEF I, U, CI, CU
<1>3. Part(I \o U, CI \cup CU, 5, 5)
  BY <1>1, PartCat
<1> QED
  BY <1>2, <1>3

\* A save has a kind and scripts, and writes the configuration and files of the folder.
LEMMA SaveParts ==
  ASSUME NEW what \in Saves \ {None}
  PROVE  /\ what.kind \in {"app", "icon", "bare", "single", "split"} /\ what.scripts \in SUBSET Both
         /\ "config" \in Written(what) /\ Written(what) \subseteq InFolder
<1>1. what.kind \in {"app", "icon", "bare", "single", "split"} /\ what.scripts \in SUBSET Both
  BY DEF Saves
<1> QED
  BY <1>1, FolderFiles DEF Written, Both

\* What may be saved of each sort of package.
LEMMA KindsOfSort ==
  ASSUME sort \in Sorts, NEW what \in Kinds
  PROVE  /\ what \in Saves \ {None}
         /\ sort = "printer" => what.kind \in {"single", "split"} /\ what.scripts = Both
         /\ sort # "printer" => what.kind \in {"app", "icon", "bare"}
         /\ sort = "winget" => what.scripts = Both
         /\ sort = "chocolatey" => what.scripts = {"install"}
<1>1. CASE sort = "printer"
  <2>1. what \in [kind : {"single", "split"}, scripts : {Both}]
    BY <1>1 DEF Kinds
  <2> QED
    BY <1>1, <2>1 DEF Saves, None
<1>2. CASE sort \in {"winget", "chocolatey", "custom"}
  <2>1. what \in [kind : {"app", "icon", "bare"}, scripts : DeployScripts[sort]]
    BY <1>2 DEF Kinds
  <2>2. /\ DeployScripts[sort] \subseteq SUBSET Both
        /\ sort = "winget" => DeployScripts[sort] = {Both}
        /\ sort = "chocolatey" => DeployScripts[sort] = {{"install"}}
    BY <1>2 DEF DeployScripts, Both
  <2>3. what.kind \in {"app", "icon", "bare"} /\ what.scripts \in DeployScripts[sort]
    BY <2>1
  <2>4. what \in [kind : {"app", "icon", "bare", "single", "split"}, scripts : SUBSET Both]
    BY <2>1, <2>2
  <2>5. what # None
    BY <2>3 DEF None
  <2> QED
    BY <1>2, <2>2, <2>3, <2>4, <2>5 DEF Saves
<1> QED
  BY <1>1, <1>2 DEF Sorts

\* From the parts of a save to its plan.
LEMMA PlanOfParts ==
  ASSUME NEW what \in Saves \ {None}, NEW new \in BOOLEAN, NEW calls, NEW D, Part(calls, D, 1, 6),
         D \subseteq Saving(what), \A f \in Written(what) : Put(f) \in D,
         Cleanup(what) \subseteq D, GroupCalls(new) \subseteq D
  PROVE  Planned(calls, what, new)
<1>1. Pending(calls) = D
  BY DEF Part
<1>2. "config" \in Written(what)
  BY SaveParts
<1>3. calls # <<>>
  BY <1>1, <1>2 DEF Pending
<1>4. new => \A f \in {"group", "sidecar"} : Put(f) \in D
  BY DEF GroupCalls
<1> QED
  BY <1>1, <1>3, <1>4 DEF Planned, Made

\* An app is saved as it is planned, from either window,
LEMMA AppPlanned ==
  ASSUME NEW new \in BOOLEAN, NEW scripts \in SUBSET Both
  PROVE  /\ \A icon \in {"put", "keep"} :
              Planned(DeployApp(new, icon, scripts), AppSave(icon, scripts), new)
         /\ \A icon \in {"put", "keep", "drop"} :
              Planned(ManageApp(new, icon, scripts), AppSave(icon, scripts), new)
<1> DEFINE Icon(icon) == CASE icon = "put" -> <<Put("icon")>> [] icon = "drop" -> <<Drop("icon")>>
                           [] OTHER -> <<>>
           Calls1(icon) == IF icon = "put" THEN {Put("icon")} ELSE IF icon = "drop" THEN {Drop("icon")} ELSE {}
           G == SaveGroup(new)
           End == ScriptCalls(scripts)
           Last == SaveScripts(scripts)
           Save(icon) == AppSave(icon, scripts)
<1>1. ASSUME NEW icon \in {"put", "keep", "drop"} PROVE Part(Icon(icon), Calls1(icon), 5, 5)
  BY Places, PartEmpty, PartOne, FolderFiles
<1>2. Part(<<Put("config")>>, {Put("config")}, 4, 4) /\ Part(<<Need("config")>>, {Need("config")}, 1, 1)
  BY Places, PartOne
<1>3. ASSUME NEW icon \in {"put", "keep", "drop"}
      PROVE  /\ GroupCalls(new) \cup {Put("config")} \cup Calls1(icon) \cup End \subseteq Saving(Save(icon))
             /\ Need("config") \in Saving(Save(icon))
             /\ \A f \in Written(Save(icon)) : Put(f) \in {Put("config")} \cup Calls1(icon) \cup End
             /\ Cleanup(Save(icon)) \subseteq Calls1(icon)
             /\ Save(icon) \in Saves \ {None}
  <2> DEFINE w == Save(icon)
             X == Calls1(icon)
  <2>a. /\ w \in [kind : {"app", "icon", "bare"}, scripts : SUBSET Both]
        /\ w.kind \in {"app", "icon", "bare"} /\ w.scripts = scripts
        /\ X = IF w.kind = "icon" THEN {Put("icon")} ELSE IF w.kind = "bare" THEN {Drop("icon")} ELSE {}
    <3>1. CASE icon = "put"
      BY <3>1 DEF IconOf, AppSave
    <3>2. CASE icon = "drop"
      BY <3>2 DEF IconOf, AppSave
    <3>3. CASE icon = "keep"
      BY <3>3 DEF IconOf, AppSave
    <3> QED
      BY <1>3, <3>1, <3>2, <3>3
  <2> HIDE DEF w, X
  <2>1. Written(w) = {"config"} \cup scripts \cup (IF w.kind = "icon" THEN {"icon"} ELSE {})
    BY <2>a DEF Written
  <2>2. Puts(w) = {Put("group"), Put("sidecar")} \cup {Put(f) : f \in Written(w)}
    BY DEF Puts
  <2>3. Cleanup(w) = (IF w.kind = "bare" THEN {Drop("icon")} ELSE {}) /\ Cleaning(w) = Cleanup(w)
    BY <2>a DEF Cleanup, Cleaning
  <2>4. Saving(w) = {Need("config")} \cup Puts(w) \cup Cleaning(w)
    BY DEF Saving
  <2>5. GroupCalls(new) \subseteq Puts(w)
    BY <2>2 DEF GroupCalls
  <2>b. End = {Put(f) : f \in scripts}
    BY DEF ScriptCalls, Both
  <2>6. {Put("config")} \cup End \subseteq Puts(w)
    BY <2>1, <2>2, <2>b
  <2>7. X \subseteq Puts(w) \cup Cleaning(w)
    BY <2>a, <2>1, <2>2, <2>3
  <2>8. \A f \in Written(w) : Put(f) \in {Put("config")} \cup X \cup End
    BY <2>a, <2>b, <2>1
  <2>9. Cleanup(w) \subseteq X
    BY <2>a, <2>3
  <2>10. w \in Saves \ {None}
    BY <2>a DEF Saves, None
  <2> QED
    BY <2>4, <2>5, <2>6, <2>7, <2>8, <2>9, <2>10 DEF w, X
<1>4. ASSUME NEW icon \in {"put", "keep"}
      PROVE  Planned(DeployApp(new, icon, scripts), Save(icon), new)
  <2> HIDE DEF Calls1, Icon, End, Last, Save
  <2> DEFINE D == ((GroupCalls(new) \cup {Put("config")}) \cup Calls1(icon)) \cup End
  <2>1. DeployApp(new, icon, scripts) = ((G \o <<Put("config")>>) \o Icon(icon)) \o Last
    BY <1>4 DEF DeployApp, Icon, Last
  <2>2. Part(G \o <<Put("config")>>, GroupCalls(new) \cup {Put("config")}, 2, 4)
    BY GroupPart, <1>2, PartCat
  <2>3. Part((G \o <<Put("config")>>) \o Icon(icon), (GroupCalls(new) \cup {Put("config")}) \cup Calls1(icon), 2, 5)
    BY <2>2, <1>1, PartCat
  <2>4. Part(((G \o <<Put("config")>>) \o Icon(icon)) \o Last, D, 2, 5)
    BY <2>3, ScriptsPart, PartCat DEF End, Last
  <2>5. Part(DeployApp(new, icon, scripts), D, 1, 6)
    BY <2>1, <2>4, PartWiden
  <2>6. /\ D \subseteq Saving(Save(icon)) /\ (\A f \in Written(Save(icon)) : Put(f) \in D)
        /\ Cleanup(Save(icon)) \subseteq D /\ GroupCalls(new) \subseteq D
    BY <1>3
  <2> QED
    BY <2>5, <2>6, <1>3, PlanOfParts
<1>5. ASSUME NEW icon \in {"put", "keep", "drop"}
      PROVE  Planned(ManageApp(new, icon, scripts), Save(icon), new)
  <2> HIDE DEF Calls1, Icon, End, Last, Save
  <2> DEFINE N == <<Need("config")>>
             D == ((({Need("config")} \cup GroupCalls(new)) \cup {Put("config")}) \cup Calls1(icon)) \cup End
  <2>1. ManageApp(new, icon, scripts) = (((N \o G) \o <<Put("config")>>) \o Icon(icon)) \o Last
    BY DEF ManageApp, Icon, Last
  <2>2. Part(N \o G, {Need("config")} \cup GroupCalls(new), 1, 2)
    BY GroupPart, <1>2, PartCat
  <2>3. Part((N \o G) \o <<Put("config")>>, ({Need("config")} \cup GroupCalls(new)) \cup {Put("config")}, 1, 4)
    BY <2>2, <1>2, PartCat
  <2>4. Part(((N \o G) \o <<Put("config")>>) \o Icon(icon),
             (({Need("config")} \cup GroupCalls(new)) \cup {Put("config")}) \cup Calls1(icon), 1, 5)
    BY <2>3, <1>1, PartCat
  <2>5. Part((((N \o G) \o <<Put("config")>>) \o Icon(icon)) \o Last, D, 1, 5)
    BY <2>4, ScriptsPart, PartCat DEF End, Last
  <2>6. Part(ManageApp(new, icon, scripts), D, 1, 6)
    <3> HIDE DEF D
    <3>1. Part(ManageApp(new, icon, scripts), D, 1, 5)
      BY <2>1, <2>5
    <3> QED
      BY <3>1, PartWiden
  <2>7. /\ D \subseteq Saving(Save(icon)) /\ (\A f \in Written(Save(icon)) : Put(f) \in D)
        /\ Cleanup(Save(icon)) \subseteq D /\ GroupCalls(new) \subseteq D
    BY <1>3
  <2> QED
    BY <2>6, <2>7, <1>3, PlanOfParts
<1> QED
  BY <1>4, <1>5

\* A printer is saved as it is planned, in either layout.
LEMMA PrinterPlanned ==
  ASSUME NEW new \in BOOLEAN, NEW split \in BOOLEAN
  PROVE  Planned(WritePrinter(new, split), PrinterSave(split), new)
<1> DEFINE what == PrinterSave(split)
           G == SaveGroup(new)
           L == CleanupLayout(split)
           C == <<Put("config")>>
           E == IF split THEN PutAll(Driver) \o PutAll(Connect) ELSE SaveScripts(Both)
           Ends == IF split THEN {Put("driver/config"), Put("driver/install")}
                                 \cup {Put("connect/config"), Put("connect/install")}
                   ELSE {Put("install"), Put("uninstall")}
           D == ((GroupCalls(new) \cup Cleanup(what)) \cup {Put("config")}) \cup Ends
<1>0. /\ what.kind = (IF split THEN "split" ELSE "single") /\ what.scripts = Both
      /\ what \in Saves \ {None}
  BY DEF PrinterSave, Saves, None
<1>1. Part(C, {Put("config")}, 4, 4)
  BY Places, PartOne
<1>2. Part(L, Cleanup(what), 3, 3)
  <2>1. /\ Part(<<Drop("install"), Drop("uninstall")>>, {Drop("install"), Drop("uninstall")}, 3, 3)
        /\ Part(<<DropTree("driver"), DropTree("connect")>>, {DropTree("driver"), DropTree("connect")}, 3, 3)
    BY Places, PartTwo, FolderFiles
  <2> QED
    BY <2>1, <1>0 DEF CleanupLayout, Cleanup
<1>3. Part(E, Ends, 5, 5)
  <2>1. Part(PutAll(Driver), {Put("driver/config"), Put("driver/install")}, 5, 5)
    BY Places, PartTwo, FolderFiles DEF PutAll, Driver
  <2>2. Part(PutAll(Connect), {Put("connect/config"), Put("connect/install")}, 5, 5)
    BY Places, PartTwo, FolderFiles DEF PutAll, Connect
  <2>3. Part(PutAll(Driver) \o PutAll(Connect), {Put("driver/config"), Put("driver/install")}
                                 \cup {Put("connect/config"), Put("connect/install")}, 5, 5)
    BY <2>1, <2>2, PartCat
  <2>4. Part(SaveScripts(Both), {Put("install"), Put("uninstall")}, 5, 5)
    <3>1. ScriptCalls(Both) = {Put("install"), Put("uninstall")}
      BY DEF ScriptCalls, Both
    <3> QED
      BY <3>1, ScriptsPart
  <2> QED
    BY <2>3, <2>4
<1>4. /\ D \subseteq Saving(what) /\ (\A f \in Written(what) : Put(f) \in D)
      /\ Cleanup(what) \subseteq D /\ GroupCalls(new) \subseteq D /\ what \in Saves \ {None}
  <2> HIDE DEF what
  <2>1. Written(what) = (IF split THEN {"config", "driver/config", "driver/install", "connect/config", "connect/install"}
                         ELSE {"config", "install", "uninstall"})
    BY <1>0 DEF Written, Both
  <2>2. Cleanup(what) \subseteq Cleaning(what)
    BY <1>0 DEF Cleanup, Cleaning
  <2> QED
    BY <1>0, <2>1, <2>2 DEF Saving, GroupCalls, Puts
<1>5. WritePrinter(new, split) = ((G \o L) \o C) \o E
  BY DEF WritePrinter
<1> HIDE DEF L, C, E, Ends, what
<1>6. Part(G \o L, GroupCalls(new) \cup Cleanup(what), 2, 3)
  BY GroupPart, <1>2, PartCat
<1>7. Part((G \o L) \o C, (GroupCalls(new) \cup Cleanup(what)) \cup {Put("config")}, 2, 4)
  BY <1>6, <1>1, PartCat
<1>8. Part(((G \o L) \o C) \o E, D, 2, 5)
  BY <1>7, <1>3, PartCat
<1>9. Part(WritePrinter(new, split), D, 1, 6)
  BY <1>5, <1>8, PartWiden
<1>10. Planned(WritePrinter(new, split), what, new)
  BY <1>4, <1>9, PlanOfParts
<1> QED
  BY <1>10 DEF what

\* A removal looks and then removes.
LEMMA RemovalPlanned == Planned(RemovePackage, None, FALSE)
<1>1. Part(RemovePackage, {Walk("root"), Remove}, 1, 6)
  BY Places, PartTwo, FolderFiles DEF RemovePackage
<1>2. Pending(RemovePackage) = {Walk("root"), Remove}
  BY <1>1 DEF Part
<1>3. RemovePackage # <<>>
  BY DEF RemovePackage
<1>4. {Walk("root"), Remove} \subseteq Removing
  BY FolderFiles DEF Removing, Walk
<1> QED
  BY <1>1, <1>2, <1>3, <1>4 DEF Planned, Made

-----------------------------------------------------------------------------
(* Which calls a handler makes. *)

\* Every call that a handler of some kind makes is a call.
LEMMA MadeAreCalls ==
  ASSUME NEW what \in Saves PROVE Made(what) \subseteq Call
<1>1. Removing \subseteq Call
  BY Places DEF Removing, Call
<1>2. Cleaning(what) \subseteq Call
  <2>1. [do : {"delete"}, file : Trees, sha : Versions] \subseteq Call
    BY FolderFiles DEF Call
  <2> QED
    BY <2>1, Places, FolderFiles DEF Cleaning
<1>3. Puts(what) \subseteq Call
  <2>1. Written(what) \subseteq InFolder
    BY SaveParts, FolderFiles DEF Written, None
  <2>2. \A f \in {"group", "sidecar"} \cup Written(what) : Put(f) \in Call
    BY <2>1, Places
  <2> QED
    BY <2>2 DEF Puts
<1> QED
  BY <1>1, <1>2, <1>3, Places DEF Made, Saving

\* A call is what its parts say.
LEMMA CallParts ==
  ASSUME NEW c \in Call
  PROVE  /\ c.do \in {"put", "need", "drop", "list", "walk", "delete", "remove"}
         /\ c.do = "put" => c = Put(c.file) /\ c.file \in Files
         /\ c.do = "need" => c = Need("config") /\ c.file = "config"
         /\ c.do = "drop" => c = Drop(c.file) /\ c.file \in Tree["root"]
         /\ c.do = "list" => c = DropTree(c.file) /\ c.file \in DOMAIN Tree
         /\ c.do = "walk" => c = Walk(c.file) /\ c.file \in DOMAIN Tree
         /\ c.do = "delete" => c = Delete(c.file, c.sha) /\ c.file \in InFolder /\ c.sha \in Versions
         /\ c.do = "remove" => c = Remove
BY DEF Call, Put, Need, Drop, DropTree, Walk, Delete, Remove

\* What a save writes it does not clear, and it puts nothing else in the folder.
LEMMA SavingCalls ==
  ASSUME NEW what \in Saves \ {None}, NEW c \in Saving(what)
  PROVE  /\ c.do \in {"put", "need", "drop", "list", "delete"}
         /\ \A f \in Written(what) : ~Clears(c, f)
         /\ c.do = "put" => c.file \in {"group", "sidecar"} \cup Written(what)
         /\ c.do = "list" => c.file \in {"connect", "driver"}
         /\ c.do = "list" => what.kind = "single"
         /\ c.do = "delete" => c.file # "config"
<1> USE DEF Clears
<1>1. CASE c = Need("config")
  BY <1>1 DEF Need
<1>2. CASE c \in Puts(what)
  BY <1>2 DEF Puts, Put
<1>3. CASE c \in Cleaning(what)
  <2>1. CASE what.kind = "split"
    <3>1. c = Drop("install") \/ c = Drop("uninstall")
      BY <1>3, <2>1 DEF Cleaning
    <3>2. "install" \notin Written(what) /\ "uninstall" \notin Written(what)
      BY <2>1 DEF Written
    <3> QED
      BY <3>1, <3>2 DEF Drop
  <2>2. CASE what.kind = "single"
    <3>1. Written(what) \cap Trees = {} /\ "config" \notin Trees
      BY <2>2, SaveParts, FolderFiles DEF Written, Both
    <3>2. CASE c \in {DropTree("connect"), DropTree("driver")}
      BY <2>2, <3>1, <3>2, FolderFiles DEF DropTree
    <3>3. CASE c \in [do : {"delete"}, file : Trees, sha : Versions]
      BY <3>1, <3>3
    <3> QED
      BY <1>3, <2>2, <3>2, <3>3 DEF Cleaning
  <2>3. CASE what.kind = "bare"
    <3>1. c = Drop("icon") /\ "icon" \notin Written(what)
      BY <1>3, <2>3, SaveParts DEF Cleaning, Written, Both
    <3> QED
      BY <3>1 DEF Drop
  <2>4. CASE what.kind \in {"app", "icon"}
    BY <1>3, <2>4 DEF Cleaning
  <2> QED
    BY <2>1, <2>2, <2>3, <2>4, SaveParts
<1> QED
  BY <1>1, <1>2, <1>3 DEF Saving

\* A removal writes nothing but its manifest.
LEMMA RemovingCalls ==
  ASSUME NEW c \in Removing
  PROVE  /\ c.do \in {"put", "walk", "delete", "remove"}
         /\ c.do = "put" => c.file = "manifest"
BY DEF Removing, Remove, Put

-----------------------------------------------------------------------------
(* The steps of handlers. *)

Windows == [op : Versions, todo : Seq(Call), sha : Versions \cup {Unread}, found : [InFolder -> Versions],
            status : {"idle", "busy", "saved", "failed"}]

\* A handler is left with these calls and this status, and no other one moves.
Turns(p, s, how) ==
  /\ page' \in [Pages -> Windows]
  /\ page'[p].op = page[p].op /\ page'[p].todo = s /\ page'[p].status = how
  /\ \A q \in Pages \ {p} : page'[q] = page[q]
Turned(s) == IF s = <<>> THEN "saved" ELSE "busy"

\* A handler that stops is left with nothing.
LEMMA Stopping ==
  ASSUME TypeOK, NEW p \in Pages, NEW how \in {"saved", "failed"}, Stop(p, how)
  PROVE  Turns(p, <<>>, how)
<1> DEFINE v == [Idle EXCEPT !.op = page[p].op]
           w == [v EXCEPT !.status = how]
<1>1. page \in [Pages -> Windows]
  BY DEF TypeOK, Windows
<1>2. w \in Windows /\ w.op = page[p].op /\ w.todo = <<>> /\ w.status = how
  <2>1. page[p].op \in Versions
    BY <1>1 DEF Windows
  <2>2. Unread \in Versions \cup {Unread} /\ Nothing \in [InFolder -> Versions]
    BY BoundsAssumption DEF Nothing, Versions
  <2>a. v = [op |-> page[p].op, todo |-> <<>>, sha |-> Unread, found |-> Nothing, status |-> "idle"]
    BY DEF Idle
  <2> HIDE DEF v
  <2>3. w = [op |-> page[p].op, todo |-> <<>>, sha |-> Unread, found |-> Nothing, status |-> how]
    BY <2>a
  <2>4. <<>> \in Seq(Call)
    OBVIOUS
  <2> HIDE DEF w
  <2> QED
    BY <2>1, <2>2, <2>3, <2>4 DEF Windows
<1>3. page' = [page EXCEPT ![p] = w]
  BY DEF Stop
<1> HIDE DEF w, v
<1> QED
  BY <1>1, <1>2, <1>3 DEF Turns

\* A handler that goes on is left with those calls, or has saved.
LEMMA Going ==
  ASSUME TypeOK, NEW p \in Pages, Busy(p), NEW s \in Seq(Call), Go(p, s)
  PROVE  Turns(p, s, Turned(s)) /\ (s # <<>> => page'[p].found = page[p].found)
<1>1. CASE s = <<>>
  <2>1. Stop(p, "saved")
    BY <1>1 DEF Go
  <2> QED
    BY <1>1, <2>1, Stopping DEF Turned
<1>2. CASE s # <<>>
  <2> DEFINE w == [page[p] EXCEPT !.todo = s, !.sha = Unread]
  <2>1. page \in [Pages -> Windows]
    BY DEF TypeOK, Windows
  <2>2. page' = [page EXCEPT ![p] = w]
    BY <1>2 DEF Go
  <2>3. /\ w \in Windows /\ w.op = page[p].op /\ w.todo = s /\ w.status = "busy"
        /\ w.found = page[p].found
    BY <2>1 DEF Windows, Busy
  <2> HIDE DEF w
  <2> QED
    BY <1>2, <2>1, <2>2, <2>3 DEF Turns, Turned
<1> QED
  BY <1>1, <1>2

\* The handler's next call, and the rest of it.
LEMMA NextOfHandler ==
  ASSUME TypeOK, NEW p \in Pages, Handler(p), Busy(p)
  PROVE  /\ page[p].op \in 1 .. ops /\ page[p].op \in 1 .. MaxOps
         /\ What(p) \in Saves /\ NextCall(p) \in Call /\ NextCall(p) \in Made(What(p))
         /\ Rest(p) \in Seq(Call) /\ InOrder(Rest(p)) /\ Todo(p) = {NextCall(p)} \cup Pending(Rest(p))
         /\ \A d \in Todo(p) : Place(NextCall(p)) <= Place(d)
<1>1. page[p].todo \in Seq(Call) /\ page[p].todo # <<>> /\ InOrder(page[p].todo)
  BY DEF TypeOK, Handler
<1>2. /\ NextCall(p) \in Call /\ Rest(p) \in Seq(Call) /\ InOrder(Rest(p))
      /\ Todo(p) = {NextCall(p)} \cup Pending(Rest(p))
      /\ \A d \in Todo(p) : Place(NextCall(p)) <= Place(d)
  BY <1>1, PendingTail DEF NextCall, Rest, Todo
<1>3. page[p].op \in 1 .. ops /\ page[p].op \in 1 .. MaxOps
  <2>1. page[p].op \in 0 .. ops /\ page[p].op # 0 /\ ops \in 0 .. MaxOps /\ MaxOps \in Nat
    BY BoundsAssumption DEF TypeOK, Handler
  <2> QED
    BY <2>1
<1>4. What(p) \in Saves
  <2>1. What(p) \in Kinds \cup {None} /\ sort \in Sorts /\ None \in Saves
    BY DEF Handler, TypeOK, Saves
  <2> QED
    BY <2>1, KindsOfSort
<1> QED
  BY <1>2, <1>3, <1>4 DEF Handler

\* Nothing that another handler relies on changes.
Calm(q) ==
  /\ page'[q].op = page[q].op /\ page'[q].todo = page[q].todo
  /\ page'[q].status = page[q].status /\ page'[q].found = page[q].found
  /\ sort' = sort /\ ops' \in Nat /\ ops <= ops'
  /\ \A n \in 1 .. ops : saves'[n] = saves[n] /\ (n \in grouped' <=> n \in grouped)
  /\ clean'[q] => clean[q] /\ \A f \in InFolder : repo'[f] = repo[f]
  /\ \A f \in {"group", "sidecar"} : repo[f] # 0 => repo'[f] # 0

Handlers(p) == Handler(p) /\ DoneOrPending(p) /\ GroupOrPending(p)

\* A handler keeps its invariant while nothing it relies on changes.
LEMMA OthersKeep ==
  ASSUME TypeOK, NEW q \in Pages, Handlers(q), Calm(q)
  PROVE  Handlers(q)'
<1>1. ops \in Nat /\ ops' \in Nat /\ ops <= ops' /\ page[q].op \in 0 .. ops
  BY BoundsAssumption DEF TypeOK, Handlers, Handler, Calm
<1>2. /\ page'[q].op = page[q].op /\ page'[q].todo = page[q].todo
      /\ page'[q].status = page[q].status /\ page'[q].found = page[q].found
      /\ Busy(q)' = Busy(q) /\ Todo(q)' = Todo(q) /\ Kinds' = Kinds
  BY DEF Calm, Busy, Todo, Kinds
<1>3. page[q].op # 0 => What(q)' = What(q) /\ (page[q].op \in grouped' <=> page[q].op \in grouped)
  BY <1>1 DEF Calm, What
<1>4. Removes(q)' => Removes(q)
  BY <1>2, <1>3 DEF Removes, Handlers, Handler, What
<1>5. Handler(q)'
  BY <1>1, <1>2, <1>3, <1>4 DEF Handlers, Handler
<1>6. DoneOrPending(q)'
  <2> SUFFICES ASSUME page[q].status \in {"busy", "saved"}, clean'[q]
               PROVE  /\ page[q].op # 0 /\ What(q)' \in Kinds \cup {None}
                      /\ What(q)' = None => RemovedOrPending(q)'
                      /\ What(q)' # None => WrittenOrPending(q)' /\ ClearedOrPending(q)'
    BY <1>2 DEF DoneOrPending
  <2>1. clean[q] /\ \A f \in InFolder : repo'[f] = repo[f]
    BY DEF Calm
  <2>2. /\ page[q].op # 0 /\ What(q) \in Kinds \cup {None}
        /\ What(q) = None => RemovedOrPending(q)
        /\ What(q) # None => WrittenOrPending(q) /\ ClearedOrPending(q)
    BY <2>1 DEF Handlers, DoneOrPending
  <2>3. RemovedOrPending(q) => RemovedOrPending(q)'
    BY <1>2, <2>1 DEF RemovedOrPending
  <2>4. What(q) # None => \A f \in Written(What(q)) : f \in InFolder
    <3>1. sort \in Sorts
      BY DEF TypeOK
    <3> QED
      BY <2>2, <3>1, KindsOfSort, SaveParts
  <2>5. What(q) # None /\ WrittenOrPending(q) => WrittenOrPending(q)'
    BY <1>2, <1>3, <2>1, <2>2, <2>4 DEF WrittenOrPending
  <2>6. ClearedOrPending(q) => ClearedOrPending(q)'
    <3>1. Kept(What(q))' = Kept(What(q))
      BY <1>3, <2>2 DEF Calm, Kept
    <3> QED
      BY <1>2, <1>3, <2>1, <2>2, <3>1 DEF ClearedOrPending
  <2> QED
    BY <1>3, <2>2, <2>3, <2>5, <2>6
<1>7. GroupOrPending(q)'
  <2> SUFFICES ASSUME Busy(q), page[q].op \in grouped', NEW f \in {"group", "sidecar"}
               PROVE  repo'[f] # 0 \/ Put(f) \in Todo(q)
    BY <1>2 DEF GroupOrPending
  <2>1. page[q].op # 0
    BY DEF Handlers, Handler
  <2>2. repo[f] # 0 \/ Put(f) \in Todo(q)
    BY <1>3, <2>1 DEF Handlers, GroupOrPending
  <2> QED
    BY <2>2 DEF Calm
<1> QED
  BY <1>5, <1>6, <1>7 DEF Handlers

\* What an answered call does to what its handler relies on, when it puts the calls of
\* P before the rest: the file of a write is written, what it was to clear is gone or
\* pending, and so is what it was to look at.
Answered(p, s, P) ==
  LET c == NextCall(p) IN
  /\ Turns(p, s, Turned(s)) /\ s \in Seq(Call) /\ InOrder(s)
  /\ Pending(s) = P \cup Pending(Rest(p)) /\ P \subseteq Made(What(p))
  /\ UNCHANGED <<sort, ops, saves, grouped>> /\ c # Remove /\ (P # {} => c.do \in {"list", "walk"})
  /\ \A f \in {"group", "sidecar"} : repo[f] # 0 \/ c = Put(f) => repo'[f] # 0
  /\ clean'[p] =>
       /\ clean[p]
       /\ \A f \in InFolder :
            /\ repo'[f] = repo[f] \/ c = Put(f) \/ (Clears(c, f) /\ repo'[f] = 0)
            /\ c = Put(f) => repo'[f] = page[p].op
            /\ Clears(c, f) => repo'[f] = 0 \/ \E d \in P : Clears(d, f)
            /\ s # <<>> /\ Looks(c, f) => \/ repo'[f] = 0 \/ page'[p].found[f] # 0
                                          \/ \E d \in P : Looks(d, f)
            /\ s # <<>> /\ page[p].found[f] # 0 => page'[p].found[f] # 0 \/ repo'[f] = 0

\* A handler whose call is answered keeps its invariant.
LEMMA HandlerGoesOn ==
  ASSUME TypeOK, NEW p \in Pages, Busy(p), Handlers(p), NEW s, NEW P, Answered(p, s, P)
  PROVE  Handlers(p)'
<1> DEFINE c == NextCall(p)
           op == page[p].op
           what == What(p)
           R == Pending(Rest(p))
<1>1. /\ op \in 1 .. ops /\ what \in Saves /\ c \in Call /\ c \in Made(what)
      /\ Todo(p) = {c} \cup R /\ \A d \in Todo(p) : Place(c) <= Place(d)
  BY NextOfHandler DEF Handlers
<1>2. /\ page'[p].op = op /\ page'[p].todo = s /\ page'[p].status = Turned(s)
      /\ Todo(p)' = P \cup R /\ What(p)' = what /\ Kinds' = Kinds /\ ops' = ops /\ grouped' = grouped
      /\ saves' = saves
  BY DEF Answered, Turns, Todo, What, Kinds
<1>3. (Busy(p)' <=> s # <<>>) /\ (Removes(p)' <=> s # <<>> /\ what = None)
  BY <1>2 DEF Busy, Removes, Turned, What
<1>4. what \in Kinds \cup {None} /\ Todo(p) \subseteq Made(what)
      /\ (what = None => Remove \in Todo(p) \/ Put("manifest") \in Todo(p))
  BY DEF Handlers, Handler, Removes, What
<1>5. s = <<>> => P \cup R = {}
  BY DEF Answered, Pending
<1>6. Handler(p)'
  <2>1. Removes(p)' => Remove \in P \cup R \/ Put("manifest") \in P \cup R
    <3> SUFFICES ASSUME s # <<>>, what = None PROVE Remove \in P \cup R \/ Put("manifest") \in P \cup R
      BY <1>3
    <3>1. CASE c # Put("manifest")
      BY <1>1, <1>4, <3>1 DEF Answered
    <3>2. CASE c = Put("manifest") /\ R # {}
      <4>1. PICK d \in R : TRUE
        BY <3>2
      <4>2. d \in Removing /\ 6 <= Place(d)
        BY <1>1, <1>4, <3>2, Places DEF Made
      <4>3. CASE d \in [do : {"walk"}, file : DOMAIN Tree]
        BY <4>2, <4>3 DEF Place
      <4>4. CASE d \in [do : {"delete"}, file : InFolder, sha : Versions]
        BY <4>2, <4>4 DEF Place
      <4> QED
        BY <4>1, <4>2, <4>3, <4>4 DEF Removing
    <3>3. CASE c = Put("manifest") /\ R = {}
      <4>1. P # {}
        <5>1. s \in Seq(Call) /\ Pending(s) = P \cup R
          BY DEF Answered
        <5>2. Head(s) \in Pending(s)
          BY <5>1, PendingTail
        <5> QED
          BY <3>3, <5>1, <5>2
      <4> QED
        BY <3>3, <4>1 DEF Answered, Put
    <3> QED
      BY <3>1, <3>2, <3>3
  <2> QED
    BY <1>1, <1>2, <1>3, <1>4, <1>5, <2>1 DEF Handler, Answered
<1>7. GroupOrPending(p)'
  <2> SUFFICES ASSUME s # <<>>, op \in grouped, NEW f \in {"group", "sidecar"}
               PROVE  repo'[f] # 0 \/ Put(f) \in P \cup R
    BY <1>2, <1>3 DEF GroupOrPending
  <2>1. repo[f] # 0 \/ Put(f) \in Todo(p)
    BY DEF Handlers, GroupOrPending
  <2> QED
    BY <1>1, <2>1 DEF Answered
<1>8. DoneOrPending(p)'
  <2> SUFFICES ASSUME clean'[p]
               PROVE  /\ what = None => RemovedOrPending(p)'
                      /\ what # None => WrittenOrPending(p)' /\ ClearedOrPending(p)'
    BY <1>1, <1>2, <1>4 DEF DoneOrPending
  <2>1. /\ clean[p]
        /\ \A f \in InFolder :
            /\ repo'[f] = repo[f] \/ c = Put(f) \/ (Clears(c, f) /\ repo'[f] = 0)
            /\ c = Put(f) => repo'[f] = op
            /\ Clears(c, f) => repo'[f] = 0 \/ \E d \in P : Clears(d, f)
            /\ s # <<>> /\ Looks(c, f) => \/ repo'[f] = 0 \/ page'[p].found[f] # 0
                                          \/ \E d \in P : Looks(d, f)
            /\ s # <<>> /\ page[p].found[f] # 0 => page'[p].found[f] # 0 \/ repo'[f] = 0
    BY DEF Answered
  <2>2. /\ what = None => RemovedOrPending(p)
        /\ what # None => WrittenOrPending(p) /\ ClearedOrPending(p)
    BY <2>1 DEF Handlers, DoneOrPending, Busy
  <2>3. ASSUME NEW f \in InFolder, \E d \in Todo(p) : Clears(d, f)
        PROVE  repo'[f] = 0 \/ \E d \in P \cup R : Clears(d, f)
    BY <1>1, <2>1, <2>3
  <2>4. ASSUME what = None PROVE RemovedOrPending(p)'
    <3> SUFFICES ASSUME NEW f \in InFolder, repo'[f] # 0, ~\E d \in P \cup R : Clears(d, f)
                 PROVE  Remove \in P \cup R /\ (page'[p].found[f] # 0 \/ \E d \in P \cup R : Looks(d, f))
      BY <1>2 DEF RemovedOrPending
    <3>1. c # Put(f)
      BY <1>1, <2>4, RemovingCalls, FolderFiles DEF Made, Put
    <3>2. repo[f] # 0 /\ ~\E d \in Todo(p) : Clears(d, f)
      BY <2>1, <2>3, <3>1
    <3>3. Remove \in Todo(p) /\ (page[p].found[f] # 0 \/ \E d \in Todo(p) : Looks(d, f))
      BY <2>2, <2>4, <3>2 DEF RemovedOrPending
    <3>4. Remove \in R
      BY <1>1, <3>3 DEF Answered
    <3>5. s # <<>>
      BY <1>5, <3>4
    <3>6. page[p].found[f] # 0 => page'[p].found[f] # 0
      BY <2>1, <3>5
    <3>7. (\E d \in Todo(p) : Looks(d, f)) => page'[p].found[f] # 0 \/ \E d \in P \cup R : Looks(d, f)
      BY <1>1, <2>1, <3>5
    <3> QED
      BY <3>3, <3>4, <3>6, <3>7
  <2>5. ASSUME what # None PROVE WrittenOrPending(p)'
    <3> SUFFICES ASSUME NEW f \in Written(what) PROVE repo'[f] = op \/ Put(f) \in P \cup R
      BY <1>2 DEF WrittenOrPending
    <3>1. f \in InFolder
      BY <1>1, <2>5, SaveParts
    <3>2. ~Clears(c, f)
      BY <1>1, <2>5, SavingCalls DEF Made
    <3>3. repo[f] = op \/ Put(f) \in Todo(p)
      BY <2>2, <2>5 DEF WrittenOrPending
    <3> QED
      BY <1>1, <2>1, <3>1, <3>2, <3>3
  <2>7. Kept(what)' = Kept(what)
    BY <1>2 DEF Answered, Kept
  <2>6. ASSUME what # None PROVE ClearedOrPending(p)'
    <3> SUFFICES ASSUME NEW f \in InFolder, f \notin Written(what)
                 PROVE  repo'[f] = 0 \/ f \in Kept(what) \/ \E d \in P \cup R : Clears(d, f)
      BY <1>2, <2>7 DEF ClearedOrPending
    <3>1. c # Put(f)
      BY <1>1, <2>6, SavingCalls, FolderFiles DEF Made, Put
    <3>2. repo[f] = 0 \/ f \in Kept(what) \/ \E d \in Todo(p) : Clears(d, f)
      BY <2>2, <2>6 DEF ClearedOrPending
    <3> QED
      BY <2>1, <2>3, <3>1, <3>2
  <2> QED
    BY <2>4, <2>5, <2>6
<1> QED
  BY <1>6, <1>7, <1>8 DEF Handlers

\* A handler that fails has nothing left to do.
LEMMA HandlerStops ==
  ASSUME TypeOK, NEW p \in Pages, Handlers(p), Turns(p, <<>>, "failed"), ops' = ops
  PROVE  Handlers(p)'
<1>1. page'[p].op \in 0 .. ops /\ page'[p].todo = <<>> /\ page'[p].status = "failed"
  BY DEF Handlers, Handler, Turns
<1>2. ~Busy(p)'
  BY <1>1 DEF Busy
<1>3. Handler(p)'
  BY <1>1, <1>2 DEF Handler, Removes
<1>4. DoneOrPending(p)' /\ GroupOrPending(p)'
  BY <1>1, <1>2 DEF DoneOrPending, GroupOrPending
<1> QED
  BY <1>3, <1>4 DEF Handlers

\* A handler that begins as it is planned has all of it to do.
LEMMA HandlerBegins ==
  ASSUME TypeOK, Stamped, OwnFiles, NEW p \in Pages, NEW calls, NEW what \in Kinds \cup {None},
         NEW new \in BOOLEAN, Planned(calls, what, new), Begin(p, calls, what, new)
  PROVE  /\ page' \in [Pages -> Windows] /\ page'[p].status = "busy" /\ page'[p].op = ops + 1
         /\ \A q \in Pages \ {p} : page'[q] = page[q]
         /\ ops + 1 \in 1 .. MaxOps /\ saves'[ops + 1] = what
         /\ Handlers(p)'
<1> DEFINE w == [op |-> ops + 1, todo |-> calls, sha |-> Unread, found |-> Nothing, status |-> "busy"]
           D == Pending(calls)
<1>1. ops + 1 \in 1 .. MaxOps /\ ops' = ops + 1 /\ ops + 1 \in Versions
  BY BoundsAssumption DEF TypeOK, Begin, Versions
<1>2. page \in [Pages -> Windows]
  BY DEF TypeOK, Windows
<1>3. page' = [page EXCEPT ![p] = w]
  <2> DEFINE u == [Idle EXCEPT !.op = ops + 1]
             v == [u EXCEPT !.todo = calls]
  <2>1. u = [op |-> ops + 1, todo |-> <<>>, sha |-> Unread, found |-> Nothing, status |-> "idle"]
    BY DEF Idle
  <2> HIDE DEF u
  <2>2. v = [op |-> ops + 1, todo |-> calls, sha |-> Unread, found |-> Nothing, status |-> "idle"]
    BY <2>1
  <2> HIDE DEF v
  <2>3. [v EXCEPT !.status = "busy"] = w
    BY <2>2
  <2> QED
    BY <2>3 DEF Begin, u, v
<1>4. w \in Windows
  <2>1. Unread \in Versions \cup {Unread} /\ Nothing \in [InFolder -> Versions]
    BY BoundsAssumption DEF Nothing, Versions
  <2>2. calls \in Seq(Call)
    BY DEF Planned, Part
  <2> QED
    BY <1>1, <2>1, <2>2 DEF Windows
<1>5. /\ page' \in [Pages -> Windows] /\ page'[p] = w /\ \A q \in Pages \ {p} : page'[q] = page[q]
  <2> HIDE DEF w
  <2> QED
    BY <1>2, <1>3, <1>4
<1>6. saves'[ops + 1] = what /\ What(p)' = what /\ Kinds' = Kinds /\ Todo(p)' = D /\ Busy(p)' /\ clean'[p]
      /\ repo' = repo /\ page'[p].op = ops + 1 /\ page'[p].todo = calls /\ page'[p].status = "busy"
      /\ sort' = sort
  BY <1>1, <1>5 DEF TypeOK, Begin, What, Kinds, Todo, Busy
<1>7. calls # <<>> /\ D \subseteq Made(what) /\ InOrder(calls)
  BY DEF Planned, Part
<1>8. Handler(p)'
  BY <1>1, <1>6, <1>7 DEF Handler, Removes, Planned
<1>9. DoneOrPending(p)'
  <2>1. what = None => RemovedOrPending(p)'
    <3> SUFFICES ASSUME what = None, NEW f \in InFolder
                 PROVE  Remove \in D /\ \E c \in D : Looks(c, f)
      BY <1>6 DEF RemovedOrPending
    <3> QED
      BY DEF Planned, Looks, Walk
  <2>2. what # None => WrittenOrPending(p)'
    BY <1>6 DEF WrittenOrPending, Planned
  <2>a. Kept(What(p))' = Kept(what)
    BY <1>6 DEF Kept
  <2>3. ASSUME what # None PROVE ClearedOrPending(p)'
    <3> SUFFICES ASSUME NEW f \in InFolder, f \notin Written(what)
                 PROVE  repo[f] = 0 \/ f \in Kept(what) \/ \E c \in D : Clears(c, f)
      <4>1. Written(What(p))' = Written(what)
        BY <1>6 DEF Written
      <4> HIDE DEF D
      <4> QED
        BY <1>6, <2>a, <4>1 DEF ClearedOrPending
    <3>1. Cleanup(what) \subseteq D
      BY <2>3 DEF Planned
    <3>a. /\ what \in Saves \ {None} /\ sort \in Sorts
          /\ sort = "printer" => what.kind \in {"single", "split"} /\ what.scripts = Both
          /\ sort # "printer" => what.kind \in {"app", "icon", "bare"}
          /\ sort = "winget" => what.scripts = Both
          /\ sort = "chocolatey" => what.scripts = {"install"}
      <4>1. sort \in Sorts
        BY DEF TypeOK
      <4> QED
        BY <2>3, <4>1, KindsOfSort
    <3>b. what.kind \in {"app", "icon", "bare", "single", "split"}
      BY <3>a, SaveParts
    <3>2. CASE what.kind = "split"
      <4>1. f \in {"install", "uninstall", "icon"}
        BY <3>2, FolderFiles DEF Written
      <4>2. Drop("install") \in D /\ Drop("uninstall") \in D
        BY <3>1, <3>2 DEF Cleanup
      <4>3. repo["icon"] = 0
        BY <3>2, <3>a DEF OwnFiles
      <4> QED
        BY <4>1, <4>2, <4>3 DEF Clears, Drop
    <3>3. CASE what.kind = "single"
      <4>1. f \in Tree["driver"] \cup Tree["connect"] \cup {"icon"}
        BY <3>3, <3>a, FolderFiles DEF Written, Both
      <4>2. DropTree("driver") \in D /\ DropTree("connect") \in D
        BY <3>1, <3>3 DEF Cleanup
      <4>3. repo["icon"] = 0
        BY <3>3, <3>a DEF OwnFiles
      <4> QED
        BY <4>1, <4>2, <4>3 DEF Clears, DropTree
    <3>4. CASE what.kind \in {"app", "icon", "bare"}
      <4>0. sort # "printer"
        BY <3>4, <3>a
      <4>1. CASE f \in Trees
        BY <4>0, <4>1 DEF OwnFiles
      <4>2. CASE f = "icon"
        <5>1. what.kind # "icon"
          BY <4>2, <3>4 DEF Written
        <5>2. what.kind = "bare" => Drop("icon") \in D
          BY <3>1 DEF Cleanup
        <5>3. what.kind = "app" => f \in Kept(what)
          BY <4>2 DEF Kept
        <5>4. Clears(Drop("icon"), "icon")
          BY DEF Clears, Drop
        <5> QED
          BY <3>4, <4>2, <5>1, <5>2, <5>3, <5>4
      <4>3. CASE f \in Both
        <5>1. f \notin what.scripts
          BY <4>3, <3>4 DEF Written
        <5>2. CASE sort = "custom"
          BY <4>3, <5>2 DEF Kept
        <5>3. CASE sort = "chocolatey"
          <6>1. f = "uninstall"
            BY <4>3, <5>1, <5>3, <3>a DEF Both
          <6> QED
            BY <5>3, <6>1 DEF OwnFiles
        <5>4. CASE sort = "winget"
          BY <4>3, <5>1, <5>4, <3>a
        <5> QED
          BY <4>0, <3>a, <5>2, <5>3, <5>4 DEF Sorts
      <4> QED
        BY <4>1, <4>2, <4>3, SaveParts, <3>a, FolderFiles DEF Both
    <3> QED
      BY <3>b, <3>2, <3>3, <3>4
  <2> QED
    BY <1>1, <1>6, <2>1, <2>2, <2>3, BoundsAssumption DEF DoneOrPending, TypeOK
<1>10. GroupOrPending(p)'
  <2> SUFFICES ASSUME ops + 1 \in grouped', NEW f \in {"group", "sidecar"} PROVE Put(f) \in D
    BY <1>6 DEF GroupOrPending
  <2>1. ops + 1 \notin grouped
    BY <1>1, BoundsAssumption DEF Stamped, TypeOK
  <2>2. new
    BY <2>1 DEF Begin
  <2> QED
    BY <2>2 DEF Planned
<1> QED
  BY <1>1, <1>5, <1>6, <1>8, <1>9, <1>10 DEF Handlers

-----------------------------------------------------------------------------
(* The repository. *)

RepoInv == Stamped /\ OwnFiles /\ SplitStandsAlone /\ AssignedGroupExists

\* A step that writes nothing keeps what is known of the files.
LEMMA FilesKept ==
  ASSUME TypeOK, RepoInv, repo' = repo, sort' = sort, used' = used, mixed => mixed',
         ops' \in Nat, ops <= ops', grouped' \subseteq 1 .. ops',
         \A n \in 1 .. ops : saves'[n] = saves[n] /\ (n \in grouped' <=> n \in grouped)
  PROVE  RepoInv'
<1>1. ops \in Nat /\ \A f \in Files : repo[f] \in Nat /\ repo[f] <= ops
  BY BoundsAssumption DEF TypeOK, Versions, RepoInv, Stamped
<1>2. "config" \in Files
  BY FolderFiles DEF Files
<1>3. Kinds' = Kinds
  BY DEF Kinds
<1>4. repo["config"] # 0 => repo["config"] \in 1 .. ops
  BY <1>1, <1>2
<1>5. repo["config"] # 0 => saves'[repo["config"]] = saves[repo["config"]]
  BY <1>4
<1>6. Stamped'
  <2>1. \A f \in Files : repo[f] <= ops'
    BY <1>1
  <2> QED
    BY <1>3, <1>5, <2>1 DEF RepoInv, Stamped
<1>7. OwnFiles'
  BY DEF RepoInv, OwnFiles
<1>8. SplitStandsAlone'
  BY <1>5 DEF RepoInv, SplitStandsAlone
<1>9. AssignedGroupExists'
  <2>1. repo["config"] \in grouped' => repo["config"] \in grouped
    <3>1. repo["config"] \in grouped' => repo["config"] # 0
      OBVIOUS
    <3> QED
      BY <1>4, <3>1
  <2> QED
    BY <2>1 DEF RepoInv, AssignedGroupExists
<1> QED
  BY <1>6, <1>7, <1>8, <1>9 DEF RepoInv

\* A removal goes on that goes on with its calls.
LEMMA RemovalGoesOn ==
  ASSUME TypeOK, NEW p \in Pages, Handlers(p), Busy(p), NEW s, NEW P, Answered(p, s, P), Removes(p),
         NextCall(p) # Put("manifest")
  PROVE  Removes(p)'
<1>1. Remove \in Todo(p) \/ Put("manifest") \in Todo(p)
  BY DEF Handlers, Handler
<1>2. Todo(p) = {NextCall(p)} \cup Pending(Rest(p))
  BY NextOfHandler DEF Handlers
<1>3. Pending(s) # {}
  BY <1>1, <1>2 DEF Answered
<1>4. s # <<>>
  BY <1>3 DEF Pending
<1>5. page'[p].status = "busy" /\ page'[p].op = page[p].op /\ saves' = saves
  BY <1>4 DEF Answered, Turns, Turned
<1> QED
  BY <1>5 DEF Removes, Busy

\* What is queued or under way stays so when nothing of it changes.
LEMMA RemovalKept ==
  ASSUME RemovalUnderWay, repo'["config"] = repo["config"], repo'["manifest"] = repo["manifest"],
         used' = used, abandoned => abandoned', \A q \in Pages : Removes(q) => Removes(q)'
  PROVE  RemovalUnderWay'
BY DEF RemovalUnderWay

\* A removal that gives up is abandoned, or its manifest is there.
LEMMA RemovalGivenUp ==
  ASSUME RemovalUnderWay, Stamped, NEW p \in Pages, GivesUp(p), abandoned \in BOOLEAN,
         used' = (used \/ repo'["config"] # 0), repo["manifest"] # 0 => repo'["manifest"] # 0,
         repo["config"] # 0 /\ repo'["config"] = 0 => Removes(p),
         \A q \in Pages \ {p} : Removes(q) => Removes(q)'
  PROVE  RemovalUnderWay'
<1> SUFFICES ASSUME used, ~abandoned', repo'["config"] = 0, repo'["manifest"] = 0
             PROVE  \E q \in Pages : Removes(q)'
  BY DEF RemovalUnderWay
<1>1. ~abandoned /\ ~Removes(p) /\ repo["manifest"] = 0
  BY DEF GivesUp
<1>2. repo["config"] = 0
  BY <1>1
<1>3. \E q \in Pages : Removes(q)
  BY <1>1, <1>2 DEF RemovalUnderWay
<1> QED
  BY <1>1, <1>3

\* The same when it gives way to another one.
LEMMA RemovalGivenWay ==
  ASSUME RemovalUnderWay, Stamped, NEW p \in Pages, GivesWay(p), abandoned \in BOOLEAN, used' = used,
         repo' = repo, used \in BOOLEAN, \A q \in Pages \ {p} : Removes(q) => Removes(q)'
  PROVE  RemovalUnderWay'
<1>1. CASE \E q \in Pages \ {p} : Removes(q)
  BY <1>1 DEF RemovalUnderWay
<1>2. CASE ~\E q \in Pages \ {p} : Removes(q)
  <2>1. GivesUp(p)
    BY <1>2 DEF GivesWay
  <2>2. used' = (used \/ repo'["config"] # 0)
    BY DEF Stamped
  <2> QED
    BY <2>1, <2>2, RemovalGivenUp
<1> QED
  BY <1>1, <1>2

-----------------------------------------------------------------------------
(* Every step keeps the invariant. *)

Others(p) == \A q \in Pages \ {p} : Calm(q)

\* The invariant in the parts that the steps keep.
LEMMA InvParts ==
  PackageInv <=> /\ TypeOK /\ (\A p \in Pages : Handlers(p)) /\ CleanUnlessMixed /\ RepoInv /\ RemovalUnderWay
BY DEF PackageInv, Handlers, RepoInv

\* Handlers that are not at work do not move.
LEMMA HandlersKept ==
  ASSUME PackageInv, NEW p \in Pages, Handlers(p)', Others(p)
  PROVE  \A q \in Pages : Handlers(q)'
<1> SUFFICES ASSUME NEW q \in Pages, q # p PROVE Handlers(q)'
  OBVIOUS
<1> QED
  BY InvParts, OthersKeep DEF Others

\* The removals of others go on.
LEMMA OthersRemove ==
  ASSUME PackageInv, NEW p \in Pages, Others(p)
  PROVE  \A q \in Pages \ {p} : Removes(q) => Removes(q)'
<1> SUFFICES ASSUME NEW q \in Pages, q # p, Removes(q) PROVE Removes(q)'
  OBVIOUS
<1>1. page[q].op \in 1 .. ops
  BY InvParts, NextOfHandler DEF Handlers, Removes
<1> QED
  BY <1>1 DEF Others, Calm, Removes, Busy

\* A handler begins.
LEMMA BeginKeeps ==
  ASSUME PackageInv, NEW p \in Pages, NEW calls, NEW what \in Kinds \cup {None},
         NEW new \in BOOLEAN, Planned(calls, what, new), Begin(p, calls, what, new)
  PROVE  PackageInv'
<1>1. TypeOK /\ (\A q \in Pages : Handlers(q)) /\ CleanUnlessMixed /\ RepoInv /\ RemovalUnderWay
  BY InvParts
<1>2. /\ page' \in [Pages -> Windows] /\ page'[p].status = "busy" /\ page'[p].op = ops + 1
      /\ \A q \in Pages \ {p} : page'[q] = page[q]
      /\ ops + 1 \in 1 .. MaxOps /\ saves'[ops + 1] = what
      /\ Handlers(p)'
  BY <1>1, HandlerBegins DEF RepoInv
<1>3. /\ sort' = sort /\ repo' = repo /\ faults' = faults /\ mixed' = mixed /\ abandoned' = abandoned /\ used' = used
      /\ ops' = ops + 1 /\ saves' = [saves EXCEPT ![ops + 1] = what] /\ clean' = [clean EXCEPT ![p] = TRUE]
      /\ grouped' = (IF new THEN grouped \cup {ops + 1} ELSE grouped) /\ ~Busy(p)
  BY DEF Begin
<1>4. ops \in Nat /\ ops' \in Nat /\ ops <= ops' /\ MaxOps \in Nat
  BY <1>1, <1>3, BoundsAssumption DEF TypeOK
<1>5. what \in Saves
  <2>1. sort \in Sorts /\ None \in Saves
    BY <1>1 DEF TypeOK, Saves
  <2> QED
    BY <2>1, KindsOfSort
<1>6. \A n \in 1 .. ops : saves'[n] = saves[n] /\ (n \in grouped' <=> n \in grouped)
  BY <1>1, <1>3, <1>4 DEF TypeOK
<1>7. grouped' \subseteq 1 .. ops' /\ grouped' \subseteq 1 .. MaxOps
  BY <1>1, <1>2, <1>3, <1>4 DEF TypeOK, RepoInv, Stamped
<1>8. TypeOK'
  <2>1. ops' \in 0 .. MaxOps
    BY <1>2, <1>3, <1>4
  <2>2. saves' \in [1 .. MaxOps -> Saves] /\ clean' \in [Pages -> BOOLEAN]
    BY <1>1, <1>3, <1>5 DEF TypeOK
  <2> QED
    BY <1>1, <1>2, <1>3, <1>7, <2>1, <2>2 DEF TypeOK, Windows
<1>9. Others(p)
  BY <1>1, <1>2, <1>3, <1>4, <1>6 DEF Others, Calm, TypeOK
<1>10. \A q \in Pages : Handlers(q)'
  BY <1>2, <1>9, HandlersKept
<1>11. CleanUnlessMixed'
  BY <1>1, <1>2, <1>3 DEF CleanUnlessMixed, Busy, TypeOK
<1>12. RepoInv'
  BY <1>1, <1>3, <1>4, <1>6, <1>7, FilesKept
<1>13. RemovalUnderWay'
  BY <1>1, <1>3, <1>9, OthersRemove, RemovalKept DEF Removes
<1> QED
  BY <1>8, <1>10, <1>11, <1>12, <1>13 DEF PackageInv, Handlers, RepoInv

\* A step of a handler that writes nothing: what is left to show for it.
Quiet(p) ==
  /\ UNCHANGED <<sort, repo, ops, saves, grouped, used>>
  /\ faults' \in 0 .. MaxFaults /\ abandoned' \in BOOLEAN
  /\ UNCHANGED <<clean, mixed>> \/ Blind(p)
  /\ page' \in [Pages -> Windows] /\ \A q \in Pages \ {p} : page'[q] = page[q]

\* A step that writes nothing leaves the other handlers and their removals alone.
LEMMA QuietOthers ==
  ASSUME PackageInv, NEW p \in Pages, Quiet(p)
  PROVE  Others(p) /\ \A q \in Pages \ {p} : Removes(q) => Removes(q)'
<1>1. TypeOK /\ ops \in Nat
  BY InvParts, BoundsAssumption DEF TypeOK
<1>2. Others(p)
  BY <1>1 DEF Others, Calm, Quiet, Blind, TypeOK
<1> QED
  BY <1>2, OthersRemove

\* A step that writes nothing keeps the invariant when it keeps that of its handler.
LEMMA QuietKeeps ==
  ASSUME PackageInv, NEW p \in Pages, Busy(p), Quiet(p), Handlers(p)', RemovalUnderWay'
  PROVE  PackageInv'
<1>1. TypeOK /\ CleanUnlessMixed /\ RepoInv
  BY InvParts
<1>2. TypeOK'
  <2>1. clean' \in [Pages -> BOOLEAN] /\ mixed' \in BOOLEAN
    BY <1>1 DEF Quiet, Blind, TypeOK
  <2> QED
    BY <1>1, <2>1 DEF TypeOK, Quiet, Windows
<1>3. \A q \in Pages : Handlers(q)'
  BY QuietOthers, HandlersKept
<1>4. CleanUnlessMixed'
  <2>1. \A q \in Pages : Busy(q)' => Busy(q)
    BY DEF Quiet, Busy
  <2> QED
    BY <1>1, <2>1 DEF CleanUnlessMixed, Quiet, Blind
<1>5. RepoInv'
  <2>1. ops \in Nat /\ ops' \in Nat /\ ops <= ops' /\ grouped' \subseteq 1 .. ops'
    BY <1>1, BoundsAssumption DEF TypeOK, Quiet, RepoInv, Stamped
  <2>2. mixed => mixed'
    BY DEF Quiet, Blind
  <2> QED
    BY <1>1, <2>1, <2>2, FilesKept DEF Quiet
<1> QED
  BY <1>2, <1>3, <1>4, <1>5 DEF PackageInv, Handlers, RepoInv, Quiet

\* A handler that breaks off stops, and gives up what it was removing.
LEMMA BreaksKeeps ==
  ASSUME PackageInv, NEW p \in Pages, Busy(p), Breaks(p), UNCHANGED <<sort, repo, ops, saves, grouped, used, clean, mixed>>
  PROVE  PackageInv'
<1>1. TypeOK /\ Handlers(p) /\ RemovalUnderWay /\ Stamped
  BY InvParts DEF RepoInv
<1>2. Turns(p, <<>>, "failed")
  BY <1>1, Stopping DEF Breaks
<1>3. Quiet(p)
  <2>1. faults' \in 0 .. MaxFaults
    BY <1>1, BoundsAssumption DEF Breaks, Fault, TypeOK
  <2>2. abandoned' \in BOOLEAN
    BY <1>1 DEF Breaks, GivesUp, TypeOK
  <2> QED
    BY <1>2, <2>1, <2>2 DEF Quiet, Turns
<1>4. Handlers(p)'
  BY <1>1, <1>2, HandlerStops
<1>5. RemovalUnderWay'
  <2>1. used' = (used \/ repo'["config"] # 0)
    BY <1>1 DEF Stamped, TypeOK
  <2> QED
    BY <1>1, <1>3, <2>1, QuietOthers, RemovalGivenUp DEF Breaks, TypeOK
<1> QED
  BY <1>3, <1>4, <1>5, QuietKeeps

\* A handler that finds nothing, or whose write is refused, stops and gives way.
LEMMA GivesWayKeeps ==
  ASSUME PackageInv, NEW p \in Pages, Busy(p), Stop(p, "failed"), GivesWay(p), NoFault,
         UNCHANGED <<sort, repo, ops, saves, grouped, used, clean, mixed>>
  PROVE  PackageInv'
<1>1. TypeOK /\ Handlers(p) /\ RemovalUnderWay /\ Stamped
  BY InvParts DEF RepoInv
<1>2. Turns(p, <<>>, "failed")
  BY <1>1, Stopping
<1>3. Quiet(p)
  <2>1. abandoned' \in BOOLEAN
    BY <1>1 DEF GivesWay, GivesUp, TypeOK
  <2> QED
    BY <1>1, <1>2, <2>1 DEF Quiet, Turns, NoFault, TypeOK
<1>4. Handlers(p)'
  BY <1>1, <1>2, HandlerStops
<1>5. RemovalUnderWay'
  BY <1>1, <1>3, QuietOthers, RemovalGivenWay DEF TypeOK
<1> QED
  BY <1>3, <1>4, <1>5, QuietKeeps

\* A handler goes on after a call that wrote nothing.
LEMMA GoesOnKeeps ==
  ASSUME PackageInv, NEW p \in Pages, Busy(p), NEW s, NEW P, Answered(p, s, P), Quiet(p),
         NextCall(p) # Put("manifest"), UNCHANGED abandoned
  PROVE  PackageInv'
<1>1. TypeOK /\ Handlers(p) /\ RemovalUnderWay
  BY InvParts
<1>2. Handlers(p)'
  BY <1>1, HandlerGoesOn
<1>3. Removes(p) => Removes(p)'
  BY <1>1, RemovalGoesOn
<1>4. \A q \in Pages : Removes(q) => Removes(q)'
  BY <1>3, QuietOthers
<1>5. RemovalUnderWay'
  BY <1>1, <1>4, RemovalKept DEF Quiet
<1> QED
  BY <1>2, <1>5, QuietKeeps

\* A file is looked up.
LEMMA ReadKeeps ==
  ASSUME PackageInv, NEW p \in Pages, Read(p)
  PROVE  PackageInv'
<1> DEFINE c == NextCall(p)
<1>1. TypeOK /\ Handlers(p) /\ RemovalUnderWay /\ CleanUnlessMixed
  BY InvParts
<1>2. Busy(p) /\ c.do \in {"put", "need", "drop"} /\ UNCHANGED <<sort, repo, ops, saves, grouped, used>>
  BY DEF Read, Calls
<1>3. /\ What(p) \in Saves /\ c \in Call /\ c \in Made(What(p)) /\ Rest(p) \in Seq(Call) /\ InOrder(Rest(p))
  BY <1>1, <1>2, NextOfHandler DEF Handlers
<1>4. c.file \in Files
  BY <1>2, <1>3, CallParts, FolderFiles DEF Files
<1> HIDE DEF c
<1>5. PICK sha \in {repo[c.file], 0}, broken \in BOOLEAN :
         IF broken THEN Breaks(p) /\ UNCHANGED <<clean, mixed>>
         ELSE /\ IF sha = repo[c.file] THEN NoFault /\ UNCHANGED <<clean, mixed>> ELSE Fault /\ Blind(p)
              /\ UNCHANGED abandoned
              /\ IF c.do = "put" \/ (c.do = "drop" /\ sha # 0) THEN page' = [page EXCEPT ![p].sha = sha]
                 ELSE IF c.do = "need" /\ sha = 0 THEN Stop(p, "failed") ELSE Go(p, Rest(p))
  BY DEF Read, c
<1>6. CASE broken
  BY <1>2, <1>5, <1>6, BreaksKeeps
<1>7. CASE ~broken
  <2>1. /\ UNCHANGED abandoned
        /\ (sha = repo[c.file] /\ NoFault /\ UNCHANGED <<clean, mixed>>)
           \/ (sha # repo[c.file] /\ Fault /\ Blind(p))
    BY <1>5, <1>7
  <2>2. faults' \in 0 .. MaxFaults
    BY <1>1, <2>1, BoundsAssumption DEF Fault, NoFault, TypeOK
  <2>3. ASSUME page' \in [Pages -> Windows], \A q \in Pages \ {p} : page'[q] = page[q] PROVE Quiet(p)
    BY <1>1, <1>2, <2>1, <2>2, <2>3 DEF Quiet, TypeOK
  <2>4. CASE c.do = "put" \/ (c.do = "drop" /\ sha # 0)
    <3>1. page' = [page EXCEPT ![p].sha = sha]
      BY <1>5, <1>7, <2>4
    <3>2. sha \in Versions
      BY <1>1, <1>4, BoundsAssumption DEF TypeOK, Versions
    <3>3. page \in [Pages -> Windows]
      BY <1>1 DEF TypeOK, Windows
    <3>4. /\ page' \in [Pages -> Windows] /\ \A q \in Pages \ {p} : page'[q] = page[q]
          /\ page'[p].op = page[p].op /\ page'[p].todo = page[p].todo
          /\ page'[p].status = page[p].status /\ page'[p].found = page[p].found
      BY <3>1, <3>2, <3>3 DEF Windows
    <3>5. Calm(p)
      BY <1>1, <1>2, <2>1, <3>4, BoundsAssumption DEF Calm, Blind, TypeOK
    <3>6. Handlers(p)' /\ Quiet(p)
      BY <1>1, <2>3, <3>4, <3>5, OthersKeep
    <3>7. Removes(p) => Removes(p)'
      BY <1>2, <3>4 DEF Removes, Busy
    <3>8. RemovalUnderWay'
      BY <1>1, <1>2, <2>1, <3>6, <3>7, QuietOthers, RemovalKept
    <3> QED
      BY <1>2, <3>6, <3>8, QuietKeeps
  <2>5. CASE c.do = "need" /\ sha = 0
    <3>1. Turns(p, <<>>, "failed")
      BY <1>1, <1>5, <1>7, <2>5, Stopping
    <3>2. Handlers(p)' /\ Quiet(p)
      BY <1>1, <1>2, <2>3, <3>1, HandlerStops DEF Turns
    <3>3. ~Removes(p)
      <4>1. What(p) # None
        BY <1>3, <2>5, RemovingCalls DEF Made
      <4> QED
        BY <4>1 DEF Removes, What
    <3>4. RemovalUnderWay'
      BY <1>1, <1>2, <2>1, <3>2, <3>3, QuietOthers, RemovalKept
    <3> QED
      BY <1>2, <3>2, <3>4, QuietKeeps
  <2>6. CASE (c.do = "need" \/ c.do = "drop") /\ ~(c.do = "need" /\ sha = 0) /\ ~(c.do = "drop" /\ sha # 0)
    <3>1. Go(p, Rest(p))
      BY <1>5, <1>7, <2>6
    <3>2. Turns(p, Rest(p), Turned(Rest(p))) /\ (Rest(p) # <<>> => page'[p].found = page[p].found)
      BY <1>1, <1>2, <1>3, <3>1, Going
    <3>3. Quiet(p)
      BY <2>3, <3>2 DEF Turns
    <3>4. c # Put("manifest") /\ c # Remove /\ \A f : c # Put(f) /\ ~Looks(c, f)
      BY <2>6 DEF Put, Remove, Looks
    <3>5. \A f : Clears(c, f) => c.do = "drop" /\ f = c.file
      BY <2>6 DEF Clears
    <3>6. clean'[p] => clean[p] /\ \A f : Clears(c, f) => repo[f] = 0
      BY <1>1, <2>1, <2>6, <3>5 DEF Blind, TypeOK
    <3>7. Answered(p, Rest(p), {})
      BY <1>2, <1>3, <3>2, <3>4, <3>6 DEF Answered, c
    <3> QED
      BY <1>2, <2>1, <3>3, <3>4, <3>7, GoesOnKeeps DEF c
  <2> QED
    BY <1>2, <2>4, <2>5, <2>6 DEF c
<1> QED
  BY <1>6, <1>7

\* Deletions of what was found at a file, at a folder and at all of them.
Deletes(F, at) == {Delete(f, at[f]) : f \in {g \in F : at[g] # 0}}

\* Deleting one file that was found takes one call at most.
LEMMA DeleteOnePart ==
  ASSUME NEW at \in [InFolder -> Versions], NEW f \in InFolder
  PROVE  Part(DeleteOne(f, at), Deletes({f}, at), 3, 3)
<1>1. CASE at[f] = 0
  BY <1>1, PartEmpty DEF DeleteOne, Deletes
<1>2. CASE at[f] # 0
  <2>1. Delete(f, at[f]) \in Call /\ Place(Delete(f, at[f])) = 3
    BY Places
  <2>2. Deletes({f}, at) = {Delete(f, at[f])}
    BY <1>2 DEF Deletes
  <2> QED
    BY <1>2, <2>1, <2>2, PartOne DEF DeleteOne
<1> QED
  BY <1>1, <1>2

\* Deleting a folder takes a call for each file that was found in it.
LEMMA DeleteTreePart ==
  ASSUME NEW at \in [InFolder -> Versions], NEW d \in {"connect", "driver"}
  PROVE  Part(DeleteTree(d, at), Deletes(Tree[d], at), 3, 3)
<1>1. ASSUME NEW f \in InFolder, NEW g \in InFolder
      PROVE  Part(DeleteOne(f, at) \o DeleteOne(g, at), Deletes({f, g}, at), 3, 3)
  <2>1. Part(DeleteOne(f, at) \o DeleteOne(g, at), Deletes({f}, at) \cup Deletes({g}, at), 3, 3)
    BY DeleteOnePart, PartCat
  <2>2. Deletes({f}, at) \cup Deletes({g}, at) = Deletes({f, g}, at)
    BY DEF Deletes
  <2> QED
    BY <2>1, <2>2
<1>2. /\ Connect[1] \in InFolder /\ Connect[2] \in InFolder /\ Driver[1] \in InFolder /\ Driver[2] \in InFolder
      /\ Tree["connect"] = {Connect[1], Connect[2]} /\ Tree["driver"] = {Driver[1], Driver[2]}
  BY DEF InFolder, Tree
<1>3. CASE d = "connect"
  BY <1>1, <1>2, <1>3 DEF DeleteTree
<1>4. CASE d = "driver"
  BY <1>1, <1>2, <1>4 DEF DeleteTree
<1> QED
  BY <1>3, <1>4

\* A removal deletes every file that was found, and then writes its manifest.
LEMMA DeleteAllPart ==
  ASSUME NEW at \in [InFolder -> Versions]
  PROVE  Part(DeleteAll(at) \o <<Put("manifest")>>, Deletes(InFolder, at) \cup {Put("manifest")}, 1, 6)
<1> DEFINE A == DeleteOne("config", at)
           B == DeleteTree("connect", at)
           C == DeleteTree("driver", at)
           E == DeleteOne("icon", at)
           F == DeleteOne("install", at)
           G == DeleteOne("uninstall", at)
           S(H) == Deletes(H, at)
<1>1. /\ Part(A, S({"config"}), 3, 3) /\ Part(E, S({"icon"}), 3, 3) /\ Part(F, S({"install"}), 3, 3)
      /\ Part(G, S({"uninstall"}), 3, 3)
  BY DeleteOnePart, FolderFiles
<1>2. Part(B, S(Tree["connect"]), 3, 3) /\ Part(C, S(Tree["driver"]), 3, 3)
  BY DeleteTreePart
<1>3. DeleteAll(at) = ((((A \o B) \o C) \o E) \o F) \o G
  BY DEF DeleteAll
<1>4. S(InFolder) = ((((S({"config"}) \cup S(Tree["connect"])) \cup S(Tree["driver"])) \cup S({"icon"}))
                      \cup S({"install"})) \cup S({"uninstall"})
  BY FolderFiles DEF Deletes
<1> HIDE DEF A, B, C, E, F, G, S
<1>5. Part(A \o B, S({"config"}) \cup S(Tree["connect"]), 3, 3)
  BY <1>1, <1>2, PartCat
<1>6. Part((A \o B) \o C, (S({"config"}) \cup S(Tree["connect"])) \cup S(Tree["driver"]), 3, 3)
  BY <1>2, <1>5, PartCat
<1>7. Part(((A \o B) \o C) \o E, ((S({"config"}) \cup S(Tree["connect"])) \cup S(Tree["driver"])) \cup S({"icon"}), 3, 3)
  BY <1>1, <1>6, PartCat
<1>8. Part((((A \o B) \o C) \o E) \o F,
           (((S({"config"}) \cup S(Tree["connect"])) \cup S(Tree["driver"])) \cup S({"icon"})) \cup S({"install"}), 3, 3)
  BY <1>1, <1>7, PartCat
<1>9. Part(DeleteAll(at), S(InFolder), 3, 3)
  BY <1>1, <1>3, <1>4, <1>8, PartCat
<1>10. Part(<<Put("manifest")>>, {Put("manifest")}, 6, 6)
  BY Places, PartOne
<1>11. Part(DeleteAll(at) \o <<Put("manifest")>>, S(InFolder) \cup {Put("manifest")}, 3, 6)
  BY <1>9, <1>10, PartCat
<1> QED
  BY <1>11, PartWiden DEF S

\* The folders that a listing goes into.
Walks(at) == {Walk(d) : d \in {t \in {"connect", "driver"} : \E f \in Tree[t] : at[f] # 0}}

\* A listing goes into the folders that are not empty.
LEMMA WalkIntoPart ==
  ASSUME NEW at PROVE Part(WalkInto("connect", at) \o WalkInto("driver", at), Walks(at), 1, 1)
<1> DEFINE W(d) == IF \A f \in Tree[d] : at[f] = 0 THEN {} ELSE {Walk(d)}
<1>1. ASSUME NEW d \in {"connect", "driver"} PROVE Part(WalkInto(d, at), W(d), 1, 1)
  <2>1. Part(<<>>, {}, 1, 1) /\ Part(<<Walk(d)>>, {Walk(d)}, 1, 1)
    BY Places, FolderFiles, PartEmpty, PartOne
  <2> QED
    BY <2>1 DEF WalkInto
<1>2. W("connect") \cup W("driver") = Walks(at)
  <2>1. \A d : W(d) = IF \E f \in Tree[d] : at[f] # 0 THEN {Walk(d)} ELSE {}
    OBVIOUS
  <2> HIDE DEF W
  <2> QED
    BY <2>1 DEF Walks
<1> HIDE DEF W
<1>3. Part(WalkInto("connect", at) \o WalkInto("driver", at), W("connect") \cup W("driver"), 1, 1)
  BY <1>1, PartCat
<1> QED
  BY <1>2, <1>3

\* Calls put before the rest of a handler.
LEMMA PartBeforeRest ==
  ASSUME TypeOK, NEW p \in Pages, Handler(p), Busy(p), NEW s, NEW P, NEW n \in {1, 3}, Part(s, P, n, n),
         Place(NextCall(p)) = n
  PROVE  /\ s \o Rest(p) \in Seq(Call) /\ InOrder(s \o Rest(p))
         /\ Pending(s \o Rest(p)) = P \cup Pending(Rest(p))
<1>1. /\ Rest(p) \in Seq(Call) /\ InOrder(Rest(p)) /\ Todo(p) = {NextCall(p)} \cup Pending(Rest(p))
      /\ \A d \in Todo(p) : n <= Place(d)
  BY NextOfHandler
<1>2. s \in Seq(Call) /\ InOrder(s) /\ Pending(s) = P /\ \A c \in P : Place(c) <= n
  BY DEF Part
<1>3. \A c \in P, d \in Pending(Rest(p)) : Place(c) <= Place(d)
  <2>1. \A c : Place(c) \in 1 .. 6
    BY PlaceType
  <2> QED
    BY <1>1, <1>2, <2>1
<1>4. s \o Rest(p) \in Seq(Call)
  BY <1>1, <1>2
<1> QED
  BY <1>1, <1>2, <1>3, <1>4, OrderCat, PendingCat

\* A folder is listed.
LEMMA ListKeeps ==
  ASSUME PackageInv, NEW p \in Pages, List(p)
  PROVE  PackageInv'
<1> DEFINE c == NextCall(p)
           d == c.file
           what == What(p)
           trees == IF d = "root" THEN WalkInto("connect", repo) \o WalkInto("driver", repo) ELSE <<>>
           found == [f \in InFolder |-> IF f \in Tree[d] THEN repo[f] ELSE page[p].found[f]]
<1>1. TypeOK /\ Handlers(p) /\ RemovalUnderWay /\ page \in [Pages -> Windows]
  BY InvParts DEF TypeOK, Windows
<1>2. Busy(p) /\ c.do \in {"list", "walk"} /\ UNCHANGED <<sort, repo, ops, saves, grouped, used>>
  BY DEF List, Calls
<1>3. /\ what \in Saves /\ c \in Call /\ c \in Made(what) /\ Rest(p) \in Seq(Call) /\ InOrder(Rest(p))
      /\ Todo(p) = {c} \cup Pending(Rest(p))
  BY <1>1, <1>2, NextOfHandler DEF Handlers
<1>4. c # Put("manifest") /\ c # Remove /\ (\A f : c # Put(f)) /\ d \in DOMAIN Tree
      /\ Place(c) = IF c.do = "list" THEN 3 ELSE 1
  BY <1>2, <1>3, CallParts, Places DEF Put, Remove
<1>5. ASSUME faults' \in 0 .. MaxFaults, UNCHANGED abandoned, UNCHANGED <<clean, mixed>> \/ Blind(p),
             page' \in [Pages -> Windows], \A q \in Pages \ {p} : page'[q] = page[q]
      PROVE  Quiet(p)
  BY <1>1, <1>2, <1>5 DEF Quiet, TypeOK
<1>6. \/ Breaks(p) /\ UNCHANGED <<clean, mixed>>
      \/ Fault /\ Blind(p) /\ Go(p, Rest(p)) /\ UNCHANGED abandoned
      \/ /\ NoFault /\ UNCHANGED <<clean, mixed, abandoned>>
         /\ c.do = "list" /\ Go(p, DeleteTree(d, repo) \o Rest(p))
      \/ /\ NoFault /\ UNCHANGED <<clean, mixed, abandoned>>
         /\ c.do # "list"
         /\ page' = [page EXCEPT ![p].todo = trees \o Rest(p),
                                 ![p].found = [f \in InFolder |-> IF f \in Tree[d] THEN repo[f] ELSE @[f]]]
  BY DEF List
<1> HIDE DEF c, d, what, trees
<1>7. CASE Breaks(p) /\ UNCHANGED <<clean, mixed>>
  BY <1>2, <1>7, BreaksKeeps
<1>8. CASE Fault /\ Blind(p) /\ Go(p, Rest(p)) /\ UNCHANGED abandoned
  <2>1. Turns(p, Rest(p), Turned(Rest(p)))
    BY <1>1, <1>2, <1>3, <1>8, Going
  <2>2. Quiet(p)
    BY <1>1, <1>5, <1>8, <2>1, BoundsAssumption DEF Fault, Turns, TypeOK
  <2>3. ~clean'[p]
    BY <1>1, <1>8 DEF Blind, TypeOK
  <2>4. Answered(p, Rest(p), {})
    BY <1>2, <1>3, <1>4, <2>1, <2>3 DEF Answered, c
  <2> QED
    BY <1>2, <1>4, <1>8, <2>2, <2>4, GoesOnKeeps DEF c
<1>9. CASE /\ NoFault /\ UNCHANGED <<clean, mixed, abandoned>>
           /\ c.do = "list" /\ Go(p, DeleteTree(d, repo) \o Rest(p))
  <2> DEFINE P == Deletes(Tree[d], repo)
             at == [f \in InFolder |-> repo[f]]
             s == DeleteTree(d, repo) \o Rest(p)
  <2>1. what # None
    BY <1>3, <1>9, RemovingCalls DEF Made
  <2>2. d \in {"connect", "driver"} /\ what.kind = "single"
    BY <1>3, <1>9, <2>1, SavingCalls DEF Made, d
  <2>3. at \in [InFolder -> Versions] /\ Tree[d] \subseteq InFolder /\ Tree[d] \subseteq Trees
    BY <1>1, <2>2 DEF TypeOK, Files, InFolder, Trees
  <2>4. Part(DeleteTree(d, repo), P, 3, 3)
    <3>1. Part(DeleteTree(d, at), Deletes(Tree[d], at), 3, 3)
      BY <2>2, <2>3, DeleteTreePart
    <3>2. Deletes(Tree[d], at) = P
      BY <2>3 DEF Deletes
    <3>3. DeleteTree(d, at) = DeleteTree(d, repo)
      <4>1. \A f \in InFolder : DeleteOne(f, at) = DeleteOne(f, repo)
        BY DEF DeleteOne
      <4>2. Connect[1] \in InFolder /\ Connect[2] \in InFolder /\ Driver[1] \in InFolder /\ Driver[2] \in InFolder
        BY DEF InFolder, Tree
      <4> HIDE DEF at
      <4> QED
        BY <4>1, <4>2 DEF DeleteTree
    <3> QED
      BY <3>1, <3>2, <3>3
  <2>5. s \in Seq(Call) /\ InOrder(s) /\ Pending(s) = P \cup Pending(Rest(p))
    BY <1>1, <1>2, <1>4, <1>9, <2>4, PartBeforeRest DEF Handlers, c
  <2>6. P \subseteq Made(what)
    <3>1. P \subseteq [do : {"delete"}, file : Trees, sha : Versions]
      BY <1>1, <2>3 DEF Deletes, Delete, TypeOK, Files
    <3> QED
      BY <2>1, <2>2, <3>1 DEF Made, Saving, Cleaning
  <2>7. ASSUME NEW f \in InFolder
        PROVE  /\ Clears(c, f) => repo[f] = 0 \/ \E e \in P : Clears(e, f)
               /\ ~Looks(c, f)
    <3>1. Clears(c, f) => f \in Tree[d]
      BY <1>9 DEF Clears, d
    <3>2. ASSUME f \in Tree[d], repo[f] # 0 PROVE \E e \in P : Clears(e, f)
      <4>1. Delete(f, repo[f]) \in P
        BY <3>2 DEF Deletes
      <4>2. Clears(Delete(f, repo[f]), f)
        BY DEF Clears, Delete
      <4> QED
        BY <4>1, <4>2
    <3> QED
      BY <1>9, <3>1, <3>2 DEF Looks
  <2> HIDE DEF P, s
  <2>8. Turns(p, s, Turned(s)) /\ (s # <<>> => page'[p].found = page[p].found)
    BY <1>1, <1>2, <1>9, <2>5, Going DEF s
  <2>9. Quiet(p)
    BY <1>1, <1>5, <1>9, <2>8 DEF NoFault, Turns, TypeOK
  <2>10. clean'[p] = clean[p] /\ repo' = repo
    BY <1>2, <1>9
  <2>11. Answered(p, s, P)
    BY <1>2, <1>4, <1>9, <2>5, <2>6, <2>7, <2>8, <2>10 DEF Answered, c, what
  <2> QED
    BY <1>2, <1>4, <1>9, <2>9, <2>11, GoesOnKeeps DEF c
<1>10. CASE /\ NoFault /\ UNCHANGED <<clean, mixed, abandoned>>
            /\ c.do # "list"
            /\ page' = [page EXCEPT ![p].todo = trees \o Rest(p),
                                    ![p].found = [f \in InFolder |-> IF f \in Tree[d] THEN repo[f] ELSE @[f]]]
  <2> DEFINE P == IF d = "root" THEN Walks(repo) ELSE {}
             s == trees \o Rest(p)
             w == [page[p] EXCEPT !.todo = s, !.found = found]
  <2>1. c.do = "walk" /\ what = None
    BY <1>2, <1>3, <1>10, SavingCalls DEF Made
  <2>2. Part(trees, P, 1, 1)
    BY WalkIntoPart, PartEmpty DEF trees
  <2>3. s \in Seq(Call) /\ InOrder(s) /\ Pending(s) = P \cup Pending(Rest(p))
    BY <1>1, <1>2, <1>4, <2>1, <2>2, PartBeforeRest DEF Handlers, c
  <2>4. P \subseteq Made(what)
    BY <2>1, FolderFiles DEF Made, Removing, Walks, Walk
  <2>5. s # <<>>
    <3>1. Remove \in Todo(p) \/ Put("manifest") \in Todo(p)
      BY <1>1, <1>2, <2>1 DEF Handlers, Handler, Removes, what, What
    <3>2. Pending(s) # {}
      BY <1>3, <1>4, <2>3, <3>1
    <3> QED
      BY <3>2 DEF Pending
  <2>6. found \in [InFolder -> Versions]
    BY <1>1 DEF TypeOK, Files
  <2>7. page' = [page EXCEPT ![p] = w]
    <3>1. [f \in InFolder |-> IF f \in Tree[d] THEN repo[f] ELSE page[p].found[f]] = found
      OBVIOUS
    <3> HIDE DEF s, found
    <3> QED
      BY <1>10 DEF s, found
  <2>8. /\ w \in Windows /\ w.op = page[p].op /\ w.todo = s /\ w.status = "busy"
        /\ w.found = found
    <3> HIDE DEF s, found
    <3> QED
      BY <1>1, <1>2, <2>3, <2>6 DEF Windows, Busy
  <2>9. ASSUME NEW f \in InFolder
        PROVE  /\ ~Clears(c, f)
               /\ Looks(c, f) => repo[f] = 0 \/ found[f] # 0 \/ \E e \in P : Looks(e, f)
               /\ page[p].found[f] # 0 => found[f] # 0 \/ repo[f] = 0
    <3>1. ~Clears(c, f)
      BY <2>1 DEF Clears
    <3>2. f \in Tree[d] => found[f] = repo[f]
      OBVIOUS
    <3>3. ASSUME d = "root", f \notin Tree[d], repo[f] # 0 PROVE \E e \in P : Looks(e, f)
      <4>1. PICK t \in {"connect", "driver"} : f \in Tree[t]
        BY <3>3 DEF InFolder
      <4>2. Walk(t) \in P
        BY <3>3, <4>1 DEF Walks
      <4>3. Looks(Walk(t), f)
        BY <4>1 DEF Looks, Walk
      <4> QED
        BY <4>2, <4>3
    <3>4. Looks(c, f) => d = "root" \/ f \in Tree[d]
      BY DEF Looks, d
    <3> QED
      BY <3>1, <3>2, <3>3, <3>4
  <2> HIDE DEF P, s, w, found
  <2>10. Turns(p, s, Turned(s)) /\ page'[p].found = found
    BY <1>1, <2>5, <2>7, <2>8 DEF Turns, Turned
  <2>11. Quiet(p)
    BY <1>1, <1>5, <1>10, <2>10 DEF NoFault, Turns, TypeOK
  <2>12. clean'[p] = clean[p] /\ repo' = repo
    BY <1>2, <1>10
  <2>13. Answered(p, s, P)
    BY <1>2, <1>4, <2>1, <2>3, <2>4, <2>9, <2>10, <2>12 DEF Answered, c, what
  <2> QED
    BY <1>2, <1>4, <1>10, <2>11, <2>13, GoesOnKeeps DEF c
<1> QED
  BY <1>6, <1>7, <1>8, <1>9, <1>10

\* What was found is deleted.
LEMMA BeginDeletingKeeps ==
  ASSUME PackageInv, NEW p \in Pages, BeginDeleting(p)
  PROVE  PackageInv'
<1> DEFINE c == NextCall(p)
           at == page[p].found
           s == DeleteAll(at) \o <<Put("manifest")>>
           P == Deletes(InFolder, at) \cup {Put("manifest")}
           w == [page[p] EXCEPT !.todo = s, !.found = Nothing]
<1>1. TypeOK /\ Handlers(p) /\ RemovalUnderWay /\ page \in [Pages -> Windows]
  BY InvParts DEF TypeOK, Windows
<1>2. Busy(p) /\ c.do = "remove" /\ UNCHANGED <<sort, repo, ops, faults, saves, grouped, clean, mixed, used>>
  BY DEF BeginDeleting, Calls
<1>3. /\ What(p) \in Saves /\ c \in Call /\ c \in Made(What(p)) /\ page[p].op \in 1 .. ops
      /\ c \in Todo(p) /\ \A d \in Todo(p) : Place(c) <= Place(d)
  BY <1>1, <1>2, NextOfHandler DEF Handlers
<1>4. c = Remove /\ Place(c) = 6
  BY <1>2, <1>3, CallParts, Places
<1>5. What(p) = None
  BY <1>2, <1>3, SavingCalls DEF Made
<1>6. CASE at = Nothing
  BY <1>2, <1>6, GivesWayKeeps DEF BeginDeleting, NoFault
<1>7. CASE at # Nothing
  <2>1. page' = [page EXCEPT ![p] = w] /\ UNCHANGED abandoned
    BY <1>7 DEF BeginDeleting
  <2>2. at \in [InFolder -> Versions]
    BY <1>1 DEF Windows
  <2>3. s \in Seq(Call) /\ Pending(s) = P /\ InOrder(s)
    BY <2>2, DeleteAllPart DEF Part
  <2>4. s # <<>>
    BY <2>3 DEF Pending
  <2>5. Nothing \in [InFolder -> Versions]
    BY BoundsAssumption DEF Nothing, Versions
  <2>6. P \subseteq Removing
    <3>1. \A f \in InFolder : Delete(f, at[f]) \in Removing
      BY <2>2 DEF Removing, Delete
    <3> QED
      BY <3>1 DEF Deletes, Removing
  <2>7. \A f \in InFolder : at[f] # 0 => \E d \in P : Clears(d, f)
    <3> SUFFICES ASSUME NEW f \in InFolder, at[f] # 0 PROVE \E d \in P : Clears(d, f)
      OBVIOUS
    <3>1. Delete(f, at[f]) \in P
      BY DEF Deletes
    <3>2. Clears(Delete(f, at[f]), f)
      BY DEF Clears, Delete
    <3> QED
      BY <3>1, <3>2
  <2>8. Put("manifest") \in P
    OBVIOUS
  <2> HIDE DEF s, P
  <2>9. w \in Windows /\ w.op = page[p].op /\ w.todo = s /\ w.status = "busy" /\ w.found = Nothing
    BY <1>1, <1>2, <2>3, <2>5 DEF Windows, Busy
  <2> HIDE DEF w, at, c
  <2>10. /\ page' \in [Pages -> Windows] /\ page'[p] = w /\ \A q \in Pages \ {p} : page'[q] = page[q]
    BY <1>1, <2>1, <2>9
  <2>11. Quiet(p)
    BY <1>1, <1>2, <2>1, <2>10 DEF Quiet, TypeOK
  <2>12. /\ What(p)' = None /\ Busy(p)' /\ Todo(p)' = P /\ Removes(p)' /\ Kinds' = Kinds /\ repo' = repo
         /\ page'[p].op = page[p].op /\ page'[p].todo = s /\ clean' = clean /\ grouped' = grouped /\ ops' = ops
    BY <1>2, <1>5, <2>3, <2>9, <2>10 DEF What, Busy, Todo, Removes, Kinds
  <2>13. Handler(p)'
    <3>1. page'[p].op \in 0 .. ops' /\ page'[p].op # 0
      BY <1>3, <2>12
    <3> QED
      BY <2>3, <2>4, <2>6, <2>8, <2>12, <3>1 DEF Handler, Made
  <2>14. DoneOrPending(p)'
    <3>1. ASSUME clean[p] PROVE RemovedOrPending(p)'
      <4> SUFFICES ASSUME NEW f \in InFolder, repo[f] # 0 PROVE \E d \in P : Clears(d, f)
        BY <2>12 DEF RemovedOrPending
      <4>1. RemovedOrPending(p)
        BY <1>1, <1>2, <1>5, <3>1 DEF Handlers, DoneOrPending, Busy
      <4>2. \A d \in Todo(p) : d \in Removing /\ 6 <= Place(d)
        BY <1>1, <1>2, <1>3, <1>4, <1>5 DEF Handlers, Handler, Made
      <4>3. ASSUME NEW d \in Todo(p) PROVE ~Clears(d, f) /\ ~Looks(d, f)
        <5>1. d.do = "walk" => Place(d) = 1
          BY DEF Place
        <5>2. d.do = "delete" => Place(d) = 3
          BY DEF Place
        <5>3. d.do \in {"put", "walk", "delete", "remove"}
          BY <4>2, RemovingCalls
        <5> QED
          BY <4>2, <5>1, <5>2, <5>3 DEF Clears, Looks
      <4>4. page[p].found[f] # 0
        BY <4>1, <4>3 DEF RemovedOrPending
      <4> QED
        BY <2>7, <4>4 DEF at
    <3> QED
      BY <1>3, <2>12, <3>1 DEF DoneOrPending
  <2>15. GroupOrPending(p)'
    <3> SUFFICES ASSUME page[p].op \in grouped, NEW f \in {"group", "sidecar"} PROVE repo[f] # 0
      BY <2>12 DEF GroupOrPending
    <3>1. repo[f] # 0 \/ Put(f) \in Todo(p)
      BY <1>1, <1>2 DEF Handlers, GroupOrPending
    <3>2. Put(f) \notin Removing
      <4>1. Put(f).do = "put" /\ Put(f).file # "manifest"
        BY DEF Put
      <4> QED
        BY <4>1, RemovingCalls
    <3> QED
      BY <1>1, <1>2, <1>5, <3>1, <3>2 DEF Handlers, Handler, Made
  <2>16. RemovalUnderWay'
    BY <1>1, <1>2, <2>1, <2>11, <2>12, QuietOthers, RemovalKept
  <2> QED
    BY <1>2, <2>11, <2>13, <2>14, <2>15, <2>16, QuietKeeps DEF Handlers
<1> QED
  BY <1>6, <1>7

\* A run takes the manifest of a removal.
LEMMA RunTakesManifestKeeps ==
  ASSUME PackageInv, RunTakesManifest
  PROVE  PackageInv'
<1>1. TypeOK /\ (\A q \in Pages : Handlers(q)) /\ CleanUnlessMixed /\ RepoInv /\ RemovalUnderWay
  BY InvParts
<1>2. /\ repo' = [repo EXCEPT !["manifest"] = 0] /\ used' = (repo["config"] # 0)
      /\ UNCHANGED <<sort, page, ops, faults, saves, grouped, clean, mixed, abandoned>>
  BY DEF RunTakesManifest
<1>3. /\ repo' \in [Files -> Versions] /\ \A f \in Files \ {"manifest"} : repo'[f] = repo[f]
      /\ \A f \in Files : repo'[f] \in {repo[f], 0}
  <2>1. repo \in [Files -> Versions] /\ 0 \in Versions
    BY <1>1, BoundsAssumption DEF TypeOK, Versions
  <2> QED
    BY <1>2, <2>1
<1>4. /\ \A f \in InFolder \cup {"group", "sidecar"} : repo'[f] = repo[f]
  BY <1>3, FolderFiles DEF Files
<1>5. TypeOK'
  BY <1>1, <1>2, <1>3 DEF TypeOK
<1>6. \A q \in Pages : Handlers(q)'
  <2>1. ops \in Nat
    BY <1>1, BoundsAssumption DEF TypeOK
  <2>2. \A q \in Pages : Calm(q)
    BY <1>2, <1>4, <2>1 DEF Calm
  <2> QED
    BY <1>1, <2>2, OthersKeep
<1>7. CleanUnlessMixed'
  BY <1>1, <1>2 DEF CleanUnlessMixed, Busy
<1>8. repo'["config"] = repo["config"] /\ repo'["icon"] = repo["icon"] /\ repo'["install"] = repo["install"]
      /\ \A f \in Trees : repo'[f] = repo[f]
  BY <1>4, FolderFiles
<1>9. Stamped'
  <2>1. ops \in Nat
    BY <1>1, BoundsAssumption DEF TypeOK
  <2>2. \A f \in Files : repo'[f] <= ops
    BY <1>1, <1>3, <2>1 DEF RepoInv, Stamped
  <2> QED
    BY <1>1, <1>2, <1>8, <2>2 DEF RepoInv, Stamped, Kinds
<1>10. OwnFiles' /\ SplitStandsAlone' /\ AssignedGroupExists'
  BY <1>1, <1>2, <1>4, <1>8 DEF RepoInv, OwnFiles, SplitStandsAlone, AssignedGroupExists
<1>11. RemovalUnderWay'
  BY <1>2, <1>8 DEF RemovalUnderWay
<1> QED
  BY <1>5, <1>6, <1>7, <1>9, <1>10, <1>11 DEF PackageInv, Handlers

\* What a write leaves: the history, and everything but one file.
Writes(p) ==
  LET c == NextCall(p) IN
  /\ Busy(p) /\ c.do \in {"put", "drop", "delete"}
  /\ repo' = [repo EXCEPT ![c.file] = IF c.do = "put" THEN page[p].op ELSE 0]
  /\ clean' = [q \in Pages |-> clean[q] /\ (q = p \/ repo' = repo)]
  /\ mixed' = (mixed \/ (repo' # repo /\ \E q \in Pages \ {p} : Busy(q)))
  /\ used' = (used \/ repo'["config"] # 0)
  /\ UNCHANGED <<sort, ops, saves, grouped>>
  /\ page' \in [Pages -> Windows] /\ \A q \in Pages \ {p} : page'[q] = page[q]
  /\ faults' \in 0 .. MaxFaults /\ abandoned' \in BOOLEAN

\* A write changes one file, to its operation or to nothing.
LEMMA WritesFile ==
  ASSUME PackageInv, NEW p \in Pages, Writes(p)
  PROVE  LET c == NextCall(p) IN
         /\ c.file \in Files /\ (c.file = "manifest" => c = Put("manifest"))
         /\ c.file \in {"group", "sidecar"} => c.do = "put"
         /\ c.do = "put" => c = Put(c.file)
         /\ c.do # "put" => Clears(c, c.file)
         /\ repo' \in [Files -> Versions] /\ \A f \in Files : f # c.file => repo'[f] = repo[f]
         /\ repo'[c.file] = (IF c.do = "put" THEN page[p].op ELSE 0)
         /\ page[p].op \in 1 .. ops /\ What(p) \in Saves /\ c \in Made(What(p))
         /\ \A d \in Todo(p) : Place(c) <= Place(d)
<1> DEFINE c == NextCall(p)
<1>1. TypeOK /\ Handler(p) /\ Busy(p) /\ c.do \in {"put", "drop", "delete"}
  BY InvParts DEF Handlers, Writes
<1>2. /\ page[p].op \in 1 .. ops /\ page[p].op \in 1 .. MaxOps /\ What(p) \in Saves /\ c \in Call
      /\ c \in Made(What(p)) /\ \A d \in Todo(p) : Place(c) <= Place(d)
  BY <1>1, NextOfHandler
<1>3. /\ c.do = "put" => c = Put(c.file) /\ c.file \in Files
      /\ c.do = "drop" => c.file \in Tree["root"]
      /\ c.do = "delete" => c.file \in InFolder
  BY <1>2, CallParts
<1>4. /\ c.file \in Files /\ (c.do # "put" => c.file \in InFolder)
  BY <1>1, <1>3, FolderFiles DEF Files
<1>5. c.do # "put" => c.file \notin {"manifest", "group", "sidecar"}
  BY <1>4, FolderFiles
<1>6. repo \in [Files -> Versions] /\ page[p].op \in Versions /\ 0 \in Versions
  BY <1>1, <1>2, BoundsAssumption DEF TypeOK, Versions
<1>7. repo' = [repo EXCEPT ![c.file] = IF c.do = "put" THEN page[p].op ELSE 0]
  BY DEF Writes
<1>8. c.do # "put" => Clears(c, c.file)
  BY <1>1 DEF Clears
<1> HIDE DEF c
<1>9. /\ repo' \in [Files -> Versions] /\ \A f \in Files : f # c.file => repo'[f] = repo[f]
      /\ repo'[c.file] = (IF c.do = "put" THEN page[p].op ELSE 0)
  <2> DEFINE v == IF c.do = "put" THEN page[p].op ELSE 0
  <2>1. v \in Versions /\ repo' = [repo EXCEPT ![c.file] = v]
    BY <1>6, <1>7 DEF c
  <2> HIDE DEF v
  <2>2. /\ repo' \in [Files -> Versions] /\ \A f \in Files : f # c.file => repo'[f] = repo[f]
        /\ repo'[c.file] = v
    BY <1>4, <1>6, <2>1
  <2> QED
    BY <2>2 DEF v
<1>10. c.file = "manifest" => c = Put("manifest")
  BY <1>1, <1>3, <1>5
<1> QED
  BY <1>2, <1>3, <1>4, <1>5, <1>8, <1>9, <1>10 DEF c

\* A write keeps what is known of the files; only a removal takes the configuration away.
LEMMA WritesRepo ==
  ASSUME PackageInv, NEW p \in Pages, Writes(p)
  PROVE  /\ RepoInv'
         /\ repo["config"] # 0 /\ repo'["config"] = 0 => Removes(p)
         /\ repo["manifest"] # 0 => repo'["manifest"] # 0
         /\ \A f \in {"group", "sidecar"} : repo[f] # 0 => repo'[f] # 0
<1> DEFINE c == NextCall(p)
           op == page[p].op
           what == What(p)
<1>1. TypeOK /\ Handlers(p) /\ RepoInv /\ CleanUnlessMixed /\ Busy(p) /\ c.do \in {"put", "drop", "delete"}
  BY InvParts DEF Writes
<1>2. /\ c.file \in Files /\ (c.file = "manifest" => c = Put("manifest"))
      /\ c.file \in {"group", "sidecar"} => c.do = "put"
      /\ c.do = "put" => c = Put(c.file)
      /\ c.do # "put" => Clears(c, c.file)
      /\ repo' \in [Files -> Versions] /\ \A f \in Files : f # c.file => repo'[f] = repo[f]
      /\ repo'[c.file] = (IF c.do = "put" THEN op ELSE 0)
      /\ op \in 1 .. ops /\ what \in Saves /\ c \in Made(what)
      /\ \A d \in Todo(p) : Place(c) <= Place(d)
  BY WritesFile
<1>3. UNCHANGED <<sort, ops, saves, grouped>> /\ used' = (used \/ repo'["config"] # 0) /\ (mixed => mixed')
      /\ Kinds' = Kinds
  BY DEF Writes, Kinds
<1>4. /\ "config" \in Files /\ "manifest" \in Files /\ "install" \in Files /\ "icon" \in Files
      /\ "group" \in Files /\ "sidecar" \in Files /\ Trees \subseteq Files
  BY FolderFiles DEF Files
<1>5. what \in Kinds \cup {None}
  BY <1>1 DEF Handlers, Handler
<1>6. c.do = "put" => c.file \in (IF what = None THEN {"manifest"} ELSE {"group", "sidecar"} \cup Written(what))
  BY <1>2, RemovingCalls, SavingCalls DEF Made
<1>7. ops \in Nat /\ op \in Nat /\ op # 0 /\ op <= ops
  BY <1>1, <1>2, BoundsAssumption DEF TypeOK
<1> HIDE DEF c, op
<1>8. \A f \in Files : repo'[f] \in {repo[f], 0, op}
  BY <1>2
<1>9. \A f \in Files : repo'[f] <= ops
  <2>1. \A f \in Files : repo[f] <= ops
    BY <1>1 DEF RepoInv, Stamped
  <2> QED
    BY <1>7, <1>8, <2>1
<1>10. repo'["config"] # 0 /\ repo'["config"] # repo["config"] =>
         c = Put("config") /\ repo'["config"] = op /\ what # None
  <2>1. repo'["config"] # 0 /\ repo'["config"] # repo["config"] => c.file = "config" /\ c.do = "put"
    BY <1>2, <1>4
  <2>2. c.do = "put" /\ c.file = "config" => what # None
    BY <1>6
  <2> QED
    BY <1>2, <2>1, <2>2
<1>11. saves[op] = what
  BY DEF op, What
<1>12. Stamped'
  <2>1. repo'["config"] # 0 => saves[repo'["config"]] \in Kinds
    BY <1>1, <1>5, <1>10, <1>11 DEF RepoInv, Stamped
  <2> QED
    BY <1>1, <1>3, <1>9, <2>1 DEF RepoInv, Stamped
<1>a. /\ what # None /\ sort # "printer" => what.kind \in {"app", "icon", "bare"}
      /\ what # None /\ sort = "printer" => what.kind \in {"single", "split"} /\ what.scripts = Both
      /\ what # None /\ sort = "chocolatey" => what.scripts = {"install"}
      /\ what # None => what.scripts \subseteq Both /\ "config" \in Written(what)
  <2>1. sort \in Sorts
    BY <1>1 DEF TypeOK
  <2> QED
    BY <1>5, <2>1, KindsOfSort, SaveParts
<1>13. OwnFiles'
  <2>1. ASSUME sort # "printer", NEW f \in Trees PROVE repo'[f] = 0
    <3>1. repo[f] = 0
      BY <1>1, <2>1 DEF RepoInv, OwnFiles
    <3>2. what # None => f \notin {"manifest", "group", "sidecar"} \cup Written(what)
      BY <1>a, <2>1, FolderFiles DEF Written, Both
    <3>3. f # "manifest"
      BY FolderFiles
    <3>4. ~(c.do = "put" /\ c.file = f)
      BY <1>6, <3>2, <3>3
    <3> QED
      BY <1>2, <1>4, <3>1, <3>4
  <2>2. ASSUME sort = "printer" PROVE repo'["icon"] = 0
    <3>1. repo["icon"] = 0
      BY <1>1, <2>2 DEF RepoInv, OwnFiles
    <3>2. what # None => "icon" \notin Written(what)
      BY <1>a, <2>2 DEF Written, Both
    <3>3. ~(c.do = "put" /\ c.file = "icon")
      BY <1>6, <3>2
    <3> QED
      BY <1>2, <1>4, <3>1, <3>3
  <2>3. ASSUME sort = "chocolatey" PROVE repo'["uninstall"] = 0
    <3>1. repo["uninstall"] = 0
      BY <1>1, <2>3 DEF RepoInv, OwnFiles
    <3>2. what # None => "uninstall" \notin Written(what)
      BY <1>a, <2>3 DEF Written
    <3>3. ~(c.do = "put" /\ c.file = "uninstall")
      BY <1>6, <3>2
    <3>4. "uninstall" \in Files
      BY FolderFiles DEF Files
    <3> QED
      BY <1>2, <3>1, <3>3, <3>4
  <2> QED
    BY <1>3, <2>1, <2>2, <2>3 DEF OwnFiles
<1>14. SplitStandsAlone'
  <2> SUFFICES ASSUME ~mixed', repo'["config"] # 0, saves[repo'["config"]].kind = "split", repo'["install"] # 0
               PROVE  FALSE
    BY <1>3 DEF SplitStandsAlone
  <2>1. ~mixed /\ clean[p]
    BY <1>1, <1>3 DEF CleanUnlessMixed
  <2>2. what # None => WrittenOrPending(p) /\ ClearedOrPending(p)
    BY <1>1, <2>1 DEF Handlers, DoneOrPending, Busy
  <2>3. CASE repo'["config"] # repo["config"]
    <3>0. what # None
      BY <1>10, <2>3
    <3>1. c = Put("config") /\ what.kind = "split"
      BY <1>10, <1>11, <2>3
    <3>2. "install" \in InFolder \ Written(what) /\ "install" \notin Kept(what)
      <4>1. sort = "printer"
        BY <1>10, <1>a, <2>3, <3>1, <3>0
      <4> QED
        BY <3>1, <4>1, FolderFiles DEF Written, Kept
    <3>3. repo["install"] # 0
      <4>1. c.file # "install"
        BY <3>1 DEF Put
      <4> QED
        BY <1>2, <1>4, <4>1
    <3>4. PICK d \in Todo(p) : Clears(d, "install")
      BY <2>2, <3>0, <3>2, <3>3 DEF ClearedOrPending
    <3>5. 4 <= Place(d)
      BY <1>2, <3>1, Places
    <3>6. d.do \in {"drop", "delete", "list"} /\ (d.do = "drop" => d.file = "install")
      BY <3>4 DEF Clears
    <3>7. Place(d) = 3
      BY <3>6 DEF Place
    <3> QED
      BY <3>5, <3>7
  <2>4. CASE repo'["config"] = repo["config"]
    <3>1. repo["install"] = 0
      BY <1>1, <2>1, <2>4 DEF RepoInv, SplitStandsAlone
    <3>2. c = Put("install") /\ repo'["install"] = op
      BY <1>2, <1>4, <3>1
    <3>3. what # None /\ "install" \in Written(what)
      <4>1. c.do = "put" /\ c.file = "install"
        BY <3>2 DEF Put
      <4> QED
        BY <1>6, <4>1
    <3>4. "config" \in Written(what)
      BY <1>a, <3>3
    <3>5. repo["config"] = op \/ Put("config") \in Todo(p)
      BY <2>2, <3>3, <3>4 DEF WrittenOrPending, op
    <3>6. Put("config") \notin Todo(p)
      <4>1. Place(c) = 5 /\ Place(Put("config")) = 4
        BY <3>2, Places, FolderFiles
      <4> QED
        BY <1>2, <4>1
    <3>7. what.kind = "split"
      BY <1>11, <2>4, <3>5, <3>6
    <3> QED
      BY <3>3, <3>7 DEF Written
  <2> QED
    BY <2>3, <2>4
<1>15. \A f \in {"group", "sidecar"} : repo[f] # 0 => repo'[f] # 0
  BY <1>2, <1>4, <1>7
<1>16. AssignedGroupExists'
  <2> SUFFICES ASSUME repo'["config"] \in grouped, NEW f \in {"group", "sidecar"} PROVE repo'[f] # 0
    BY <1>3 DEF AssignedGroupExists
  <2>1. repo'["config"] # 0
    <3>1. grouped \subseteq 1 .. ops
      BY <1>1 DEF RepoInv, Stamped
    <3> QED
      BY <1>7, <3>1
  <2>2. CASE repo'["config"] = repo["config"]
    BY <1>1, <1>15, <2>2 DEF RepoInv, AssignedGroupExists
  <2>3. CASE repo'["config"] # repo["config"]
    <3>1. c = Put("config") /\ op \in grouped
      BY <1>10, <2>1, <2>3
    <3>2. repo[f] # 0 \/ Put(f) \in Todo(p)
      BY <1>1, <3>1 DEF Handlers, GroupOrPending, op
    <3>3. Put(f) \notin Todo(p)
      <4>1. Place(c) = 4 /\ Place(Put(f)) = 2
        BY <3>1, Places
      <4> QED
        BY <1>2, <4>1
    <3> QED
      BY <1>15, <3>2, <3>3
  <2> QED
    BY <2>2, <2>3
<1>17. repo["config"] # 0 /\ repo'["config"] = 0 => Removes(p)
  <2> SUFFICES ASSUME repo["config"] # 0, repo'["config"] = 0, what # None PROVE FALSE
    BY <1>1 DEF Removes, What
  <2>1. c.file = "config" /\ c.do # "put"
    BY <1>2, <1>4, <1>7
  <2>2. "config" \in Written(what)
    BY <1>a
  <2>3. ~Clears(c, "config")
    BY <1>2, <2>2, SavingCalls DEF Made
  <2> QED
    BY <1>2, <2>1, <2>3
<1>18. repo["manifest"] # 0 => repo'["manifest"] # 0
  <2>1. c.file = "manifest" => c.do = "put"
    BY <1>2 DEF Put
  <2> QED
    BY <1>2, <1>4, <1>7, <2>1
<1> QED
  BY <1>12, <1>13, <1>14, <1>15, <1>16, <1>17, <1>18 DEF RepoInv

\* A write keeps the invariant when it keeps that of its handler.
LEMMA WritesKeep ==
  ASSUME PackageInv, NEW p \in Pages, Writes(p), Handlers(p)', RemovalUnderWay'
  PROVE  PackageInv'
<1>1. TypeOK /\ CleanUnlessMixed /\ RepoInv /\ Busy(p)
  BY InvParts DEF Writes
<1>2. repo' \in [Files -> Versions] /\ RepoInv' /\ \A f \in {"group", "sidecar"} : repo[f] # 0 => repo'[f] # 0
  BY WritesFile, WritesRepo
<1>3. clean' \in [Pages -> BOOLEAN] /\ mixed' \in BOOLEAN /\ used' \in BOOLEAN
  BY <1>1 DEF Writes, TypeOK
<1>4. TypeOK'
  BY <1>1, <1>2, <1>3 DEF TypeOK, Writes, Windows
<1>5. \A q \in Pages \ {p} : clean'[q] => clean[q] /\ repo' = repo
  BY DEF Writes
<1>6. Others(p)
  <2>1. ops \in Nat
    BY <1>1, BoundsAssumption DEF TypeOK
  <2> QED
    BY <1>2, <1>5, <2>1 DEF Others, Calm, Writes
<1>7. \A q \in Pages : Handlers(q)'
  BY <1>6, HandlersKept
<1>8. CleanUnlessMixed'
  <2> SUFFICES ASSUME NEW q \in Pages, Busy(q)', ~mixed' PROVE clean'[q]
    BY DEF CleanUnlessMixed
  <2>1. CASE q = p
    <3>1. clean[p]
      BY <1>1 DEF CleanUnlessMixed, Writes
    <3> QED
      BY <2>1, <3>1 DEF Writes
  <2>2. CASE q # p
    <3>1. Busy(q)
      BY <2>2 DEF Busy, Writes
    <3>2. clean[q] /\ repo' = repo
      BY <1>1, <2>2, <3>1 DEF CleanUnlessMixed, Writes
    <3> QED
      BY <3>2 DEF Writes
  <2> QED
    BY <2>1, <2>2
<1> QED
  BY <1>2, <1>4, <1>7, <1>8 DEF PackageInv, Handlers, RepoInv

\* A file is written or deleted.
LEMMA WriteKeeps ==
  ASSUME PackageInv, NEW p \in Pages, Write(p)
  PROVE  PackageInv'
<1> DEFINE c == NextCall(p)
           sha == IF c.do = "delete" THEN c.sha ELSE page[p].sha
           done == [repo EXCEPT ![c.file] = IF c.do = "put" THEN page[p].op ELSE 0]
<1>1. TypeOK /\ Handlers(p) /\ RemovalUnderWay /\ Stamped /\ page \in [Pages -> Windows]
  BY InvParts DEF RepoInv, TypeOK, Windows
<1>2. /\ Busy(p) /\ c.do \in {"put", "drop", "delete"}
      /\ clean' = [q \in Pages |-> clean[q] /\ (q = p \/ repo' = repo)]
      /\ mixed' = (mixed \/ (repo' # repo /\ \E q \in Pages \ {p} : Busy(q)))
      /\ used' = (used \/ repo'["config"] # 0)
      /\ UNCHANGED <<sort, ops, saves, grouped>>
  BY DEF Write, Calls
<1>3. \/ /\ repo' = done
         /\ NoFault /\ Go(p, Rest(p)) /\ abandoned' = (abandoned /\ c.file # "manifest")
      \/ repo' = done /\ Breaks(p)
      \/ repo' = repo /\ NoFault /\ Stop(p, "failed") /\ GivesWay(p)
      \/ repo' = repo /\ Breaks(p)
  BY DEF Write
<1>4. repo' = repo => UNCHANGED <<clean, mixed, used>>
  <2> SUFFICES ASSUME repo' = repo PROVE UNCHANGED <<clean, mixed, used>>
    OBVIOUS
  <2>1. clean' = clean
    BY <1>1, <1>2 DEF TypeOK
  <2>2. mixed' = mixed /\ used' = used
    BY <1>1, <1>2 DEF Stamped, TypeOK
  <2> QED
    BY <2>1, <2>2
<1>5. c # Remove /\ What(p) \in Saves /\ Rest(p) \in Seq(Call) /\ InOrder(Rest(p))
  BY <1>1, <1>2, NextOfHandler DEF Handlers, Remove
<1> HIDE DEF c, sha, done
<1>6. CASE repo' = repo /\ NoFault /\ Stop(p, "failed") /\ GivesWay(p)
  BY <1>2, <1>4, <1>6, GivesWayKeeps
<1>7. CASE repo' = repo /\ Breaks(p)
  BY <1>2, <1>4, <1>7, BreaksKeeps
<1>8. CASE repo' = done /\ Breaks(p)
  <2>1. Turns(p, <<>>, "failed")
    BY <1>1, <1>8, Stopping DEF Breaks
  <2>2. faults' \in 0 .. MaxFaults /\ abandoned' \in BOOLEAN
    BY <1>1, <1>8, BoundsAssumption DEF Breaks, Fault, GivesUp, TypeOK
  <2>3. Writes(p)
    BY <1>2, <1>8, <2>1, <2>2 DEF Writes, Turns, c, done
  <2>4. Handlers(p)'
    BY <1>1, <1>2, <2>1, HandlerStops
  <2>5. RemovalUnderWay'
    <3>1. \A q \in Pages \ {p} : Removes(q) => Removes(q)'
      BY <1>2, <2>1 DEF Removes, Busy, Turns
    <3> QED
      BY <1>1, <1>2, <1>8, <2>3, <3>1, WritesRepo, RemovalGivenUp DEF Breaks, TypeOK
  <2> QED
    BY <2>3, <2>4, <2>5, WritesKeep
<1>9. CASE /\ repo' = done
           /\ NoFault /\ Go(p, Rest(p)) /\ abandoned' = (abandoned /\ c.file # "manifest")
  <2>1. Turns(p, Rest(p), Turned(Rest(p))) /\ (Rest(p) # <<>> => page'[p].found = page[p].found)
    BY <1>1, <1>2, <1>5, <1>9, Going
  <2>2. faults' \in 0 .. MaxFaults /\ abandoned' \in BOOLEAN
    BY <1>1, <1>9 DEF NoFault, TypeOK
  <2>3. Writes(p)
    BY <1>2, <1>9, <2>1, <2>2 DEF Writes, Turns, c, done
  <2>4. /\ c.file \in Files /\ (c.file = "manifest" => c = Put("manifest"))
        /\ c.do = "put" => c = Put(c.file)
        /\ c.do # "put" => Clears(c, c.file)
        /\ \A f \in Files : f # c.file => repo'[f] = repo[f]
        /\ repo'[c.file] = (IF c.do = "put" THEN page[p].op ELSE 0)
        /\ page[p].op \in 1 .. ops
    BY <2>3, WritesFile DEF c
  <2>5. clean'[p] = clean[p]
    BY <1>1, <1>2 DEF TypeOK
  <2>6. /\ \A f : c = Put(f) => c.do = "put" /\ c.file = f
        /\ \A f : Clears(c, f) => c.do # "put" /\ c.file = f
        /\ \A f : ~Looks(c, f)
    BY <1>2 DEF Put, Clears, Looks
  <2>7. ops \in Nat /\ page[p].op # 0
    BY <1>1, <2>4, BoundsAssumption DEF TypeOK
  <2>8. \A f \in {"group", "sidecar"} : repo[f] # 0 \/ c = Put(f) => repo'[f] # 0
    BY <2>3, <2>4, <2>6, <2>7, WritesRepo
  <2>9. ASSUME NEW f \in InFolder
        PROVE  /\ repo'[f] = repo[f] \/ c = Put(f) \/ (Clears(c, f) /\ repo'[f] = 0)
               /\ c = Put(f) => repo'[f] = page[p].op
               /\ Clears(c, f) => repo'[f] = 0
    <3>1. f \in Files
      BY DEF Files
    <3> QED
      BY <2>4, <2>6, <3>1
  <2>10. Answered(p, Rest(p), {})
    BY <1>2, <1>5, <2>1, <2>5, <2>6, <2>8, <2>9 DEF Answered, c
  <2>11. Handlers(p)'
    BY <1>1, <1>2, <2>10, HandlerGoesOn
  <2>12. RemovalUnderWay'
    <3>1. CASE c.file = "manifest"
      <4>1. repo'["manifest"] # 0
        BY <2>4, <2>6, <2>7, <3>1
      <4> QED
        BY <4>1 DEF RemovalUnderWay
    <3>2. CASE c.file # "manifest"
      <4>1. c # Put("manifest") /\ abandoned' = abandoned /\ repo'["manifest"] = repo["manifest"]
        BY <1>1, <1>9, <2>4, <2>6, <3>2 DEF Files, TypeOK
      <4>2. Removes(p) => Removes(p)'
        BY <1>1, <1>2, <2>10, <4>1, RemovalGoesOn DEF c
      <4>3. \A q \in Pages \ {p} : Removes(q) => Removes(q)'
        BY <1>2, <2>1 DEF Removes, Busy, Turns
      <4>4. repo["config"] # 0 /\ repo'["config"] = 0 => Removes(p)
        BY <2>3, WritesRepo
      <4> SUFFICES ASSUME used', ~abandoned, repo'["config"] = 0, repo["manifest"] = 0
                   PROVE  \E q \in Pages : Removes(q)'
        BY <4>1 DEF RemovalUnderWay
      <4>5. CASE repo["config"] # 0
        BY <4>2, <4>4, <4>5
      <4>6. CASE repo["config"] = 0
        BY <1>1, <1>2, <4>2, <4>3, <4>6 DEF RemovalUnderWay
      <4> QED
        BY <4>5, <4>6
    <3> QED
      BY <3>1, <3>2
  <2> QED
    BY <2>3, <2>11, <2>12, WritesKeep
<1> QED
  BY <1>3, <1>6, <1>7, <1>8, <1>9

-----------------------------------------------------------------------------
(* The invariant, and what it says. *)

\* The invariant holds at first.
LEMMA InitHolds == Init => PackageInv
<1> SUFFICES ASSUME Init PROVE PackageInv
  OBVIOUS
<1>1. 0 \in Versions /\ MaxOps \in Nat /\ MaxFaults \in Nat
  BY BoundsAssumption DEF Versions
<1>2. /\ sort \in Sorts /\ repo = [f \in Files |-> 0] /\ page = [p \in Pages |-> Idle] /\ ops = 0
      /\ faults = 0 /\ saves = [n \in 1 .. MaxOps |-> None] /\ grouped = {}
      /\ clean = [p \in Pages |-> FALSE] /\ mixed = FALSE /\ abandoned = FALSE /\ used = FALSE
  BY DEF Init
<1>3. Idle \in Windows
  <2>1. Unread \in Versions \cup {Unread} /\ Nothing \in [InFolder -> Versions] /\ <<>> \in Seq(Call)
    BY <1>1 DEF Nothing
  <2> QED
    BY <1>1, <2>1 DEF Idle, Windows
<1>4. TypeOK
  <2>1. page \in [Pages -> Windows]
    BY <1>2, <1>3
  <2>2. saves \in [1 .. MaxOps -> Saves]
    BY <1>2 DEF Saves
  <2>3. repo \in [Files -> Versions]
    BY <1>1, <1>2
  <2>4. clean \in [Pages -> BOOLEAN] /\ {mixed, abandoned, used} \subseteq BOOLEAN
    BY <1>2
  <2>5. sort \in Sorts /\ ops \in 0 .. MaxOps /\ faults \in 0 .. MaxFaults /\ grouped \subseteq 1 .. MaxOps
    BY <1>1, <1>2
  <2> QED
    BY <2>1, <2>2, <2>3, <2>4, <2>5 DEF TypeOK, Windows
<1>5. \A f \in Files : repo[f] = 0
  BY <1>2
<1>6. Trees \subseteq Files /\ {"config", "icon", "install", "uninstall", "manifest", "group", "sidecar"} \subseteq Files
  BY FolderFiles DEF Files
<1>7. \A p \in Pages : page[p] = Idle /\ Idle.status = "idle" /\ Idle.todo = <<>> /\ Idle.op = 0
  BY <1>2 DEF Idle
<1>8. \A p \in Pages : Handlers(p)
  BY <1>2, <1>7 DEF Handlers, Handler, DoneOrPending, GroupOrPending, Busy, Removes
<1>9. CleanUnlessMixed
  BY <1>7 DEF CleanUnlessMixed, Busy
<1>10. RepoInv /\ RemovalUnderWay
  BY <1>2, <1>5, <1>6 DEF RepoInv, Stamped, OwnFiles, SplitStandsAlone, AssignedGroupExists, RemovalUnderWay
<1> QED
  BY <1>4, <1>8, <1>9, <1>10, InvParts

\* Every step keeps the invariant.
LEMMA StepKeeps == PackageInv /\ [Next]_vars => PackageInv'
<1> SUFFICES ASSUME PackageInv, [Next]_vars PROVE PackageInv'
  OBVIOUS
<1>1. ASSUME NEW p \in Pages, SaveApp(p) PROVE PackageInv'
  <2>1. sort # "printer" /\ sort \in {"winget", "chocolatey", "custom"}
    BY <1>1, InvParts DEF SaveApp, TypeOK, Sorts
  <2>2. /\ DeployScripts[sort] \subseteq SUBSET Both
        /\ ManageScripts[sort] \subseteq DeployScripts[sort]
    BY <2>1 DEF DeployScripts, ManageScripts, Both
  <2>3. \A icon \in {"put", "keep", "drop"}, scripts \in DeployScripts[sort] : AppSave(icon, scripts) \in Kinds
    BY <2>1 DEF AppSave, IconOf, Kinds
  <2>4. PICK new \in BOOLEAN :
          \/ \E icon \in {"put", "keep"}, scripts \in DeployScripts[sort] :
               Begin(p, DeployApp(new, icon, scripts), AppSave(icon, scripts), new)
          \/ \E icon \in {"put", "keep", "drop"}, scripts \in ManageScripts[sort] :
               Begin(p, ManageApp(new, icon, scripts), AppSave(icon, scripts), new)
    BY <1>1 DEF SaveApp
  <2>5. CASE \E icon \in {"put", "keep"}, scripts \in DeployScripts[sort] :
               Begin(p, DeployApp(new, icon, scripts), AppSave(icon, scripts), new)
    BY <2>2, <2>3, <2>5, AppPlanned, BeginKeeps
  <2>6. CASE \E icon \in {"put", "keep", "drop"}, scripts \in ManageScripts[sort] :
               Begin(p, ManageApp(new, icon, scripts), AppSave(icon, scripts), new)
    BY <2>2, <2>3, <2>6, AppPlanned, BeginKeeps
  <2> QED
    BY <2>4, <2>5, <2>6
<1>2. ASSUME NEW p \in Pages, SavePrinter(p) PROVE PackageInv'
  <2>1. PICK new \in BOOLEAN, split \in BOOLEAN :
          Begin(p, WritePrinter(new, split), PrinterSave(split), new)
    BY <1>2 DEF SavePrinter
  <2>2. PrinterSave(split) \in Kinds
    BY <1>2 DEF SavePrinter, PrinterSave, Kinds
  <2> QED
    BY <2>1, <2>2, PrinterPlanned, BeginKeeps
<1>3. ASSUME NEW p \in Pages, RemoveFromGit(p) PROVE PackageInv'
  BY <1>3, RemovalPlanned, BeginKeeps DEF RemoveFromGit
<1>4. CASE UNCHANGED vars
  <2>1. \A q \in Pages : Calm(q)
    BY <1>4, InvParts, BoundsAssumption DEF vars, history, Calm, TypeOK
  <2>2. \A q \in Pages : Handlers(q)'
    BY <2>1, InvParts, OthersKeep
  <2>3. TypeOK'
    BY <1>4, InvParts DEF vars, history, TypeOK
  <2>4. CleanUnlessMixed'
    BY <1>4, InvParts DEF vars, history, CleanUnlessMixed, Busy
  <2>5. RepoInv'
    BY <1>4, InvParts DEF vars, history, RepoInv, Stamped, OwnFiles, SplitStandsAlone, AssignedGroupExists, Kinds
  <2>6. RemovalUnderWay'
    BY <1>4, InvParts DEF vars, history, RemovalUnderWay, Removes, Busy
  <2> QED
    BY <2>2, <2>3, <2>4, <2>5, <2>6 DEF PackageInv, Handlers, RepoInv
<1> QED
  BY <1>1, <1>2, <1>3, <1>4, ReadKeeps, ListKeeps, BeginDeletingKeeps, WriteKeeps, RunTakesManifestKeeps DEF Next

\* The inductive invariant is one.
THEOREM PackageInvHolds == Spec => []PackageInv
BY InitHolds, StepKeeps, PTL DEF Spec

\* Every page's handler has only calls, versions and files that there are.
THEOREM TypeCorrect == Spec => []TypeOK
<1>1. PackageInv => TypeOK
  BY DEF PackageInv
<1> QED
  BY <1>1, PackageInvHolds, PTL

\* An undisturbed save or removal that is reported is there as it was reported.
THEOREM ReportsAreTrue == Spec => []ReportedIsThere
<1>1. PackageInv => ReportedIsThere
  <2> SUFFICES ASSUME PackageInv, NEW p \in Pages, page[p].status = "saved", clean[p]
               PROVE  IF What(p) = None THEN \A f \in InFolder : repo[f] = 0
                      ELSE \A f \in InFolder : IF f \in Written(What(p)) THEN repo[f] = page[p].op
                                               ELSE repo[f] = 0 \/ f \in Kept(What(p))
    BY DEF ReportedIsThere, What
  <2>1. Todo(p) = {}
    <3>1. page[p].todo = <<>>
      BY DEF PackageInv, Handler, Busy
    <3> QED
      BY <3>1 DEF Todo, Pending
  <2>2. /\ What(p) = None => RemovedOrPending(p)
        /\ What(p) # None => WrittenOrPending(p) /\ ClearedOrPending(p)
    BY DEF PackageInv, DoneOrPending
  <2> QED
    BY <2>1, <2>2 DEF RemovedOrPending, WrittenOrPending, ClearedOrPending
<1> QED
  BY <1>1, PackageInvHolds, PTL

\* A package that is gone is queued for its removal from Intune.
THEOREM RemovalsAreQueued == Spec => []RemovalQueued
<1>1. PackageInv => RemovalQueued
  <2> SUFFICES ASSUME PackageInv, used, ~abandoned, \A f \in InFolder : repo[f] = 0, \A p \in Pages : ~Busy(p)
               PROVE  repo["manifest"] # 0
    BY DEF RemovalQueued
  <2>1. repo["config"] = 0 /\ ~\E p \in Pages : Removes(p)
    BY FolderFiles DEF Removes
  <2> QED
    BY <2>1 DEF PackageInv, RemovalUnderWay
<1> QED
  BY <1>1, PackageInvHolds, PTL

\* An assigned group that a save created has its files, whichever call failed.
THEOREM GroupsExist == Spec => []AssignedGroupExists
<1>1. PackageInv => AssignedGroupExists
  BY DEF PackageInv
<1> QED
  BY <1>1, PackageInvHolds, PTL

\* A run finds no package of a layout that the configuration does not have.
THEOREM OneLayoutOnly == Spec => []OneLayout
<1>1. PackageInv => OneLayout
  <2> SUFFICES ASSUME PackageInv, sort = "printer", ~mixed, Discovered = "single"
               PROVE  saves[repo["config"]].kind = "single"
    BY DEF OneLayout
  <2>1. repo["config"] # 0 /\ repo["install"] # 0
    BY DEF Discovered, There
  <2>2. saves[repo["config"]].kind \in {"single", "split"}
    <3>1. saves[repo["config"]] \in Kinds /\ sort \in Sorts
      BY <2>1 DEF PackageInv, Stamped, TypeOK
    <3> QED
      BY <3>1, KindsOfSort
  <2>3. saves[repo["config"]].kind # "split"
    BY <2>1 DEF PackageInv, SplitStandsAlone
  <2> QED
    BY <2>2, <2>3
<1> QED
  BY <1>1, PackageInvHolds, PTL
=============================================================================
