---------------------------- MODULE WebDavProofs ----------------------------
(***************************************************************************)
(* Theorems about WebDav, for any number of clients, any paths, any local  *)
(* directory and any number of failures.  First that every call is planned *)
(* well, then that every step is one of four moves of a client, and from   *)
(* the moves the invariants.                                               *)
(***************************************************************************)
EXTENDS WebDavPathProofs, FiniteSetTheorems

(* Local files and directories, and what a call may have to do.            *)
Local == LocalDirs \cup LocalFiles

Items ==
    {x \in [do : {"mkcol", "tree", "file", "delete"}, at : Path, from : Local] :
        x.do = "tree" => x.from \in LocalDirs}

(* What an upload of the local entry e, found below the directory d, adds  *)
(* to the path of d.                                                       *)
Beyond(d, e) == [i \in 1 .. Len(e) - Len(d) |-> <<e[Len(d) + i]>>]

(* What an item leaves when it is done.                                    *)
Cover(item) ==
    IF item.do = "file" THEN {item.at}
    ELSE IF item.do = "tree" THEN {item.at \o Beyond(item.from, e) : e \in {x \in Local : IsPrefix(item.from, x)}}
    ELSE {}

(* A call is planned well when its items leave the things it is meant to   *)
(* leave (but for a SyncUpload that uploads nothing) and nothing else, the *)
(* directories it makes are on the way to them, an upload that ensures its *)
(* directories makes each before it needs it, and a deletion is of what it *)
(* is meant to delete.                                                     *)
Covers(call) ==
    /\ call.kind # "syncBare" =>
          \A q \in call.things : \E i \in 1 .. Len(call.plan) : q \in Cover(call.plan[i])
    /\ \A i \in 1 .. Len(call.plan) : Cover(call.plan[i]) \subseteq call.things

OnTheWay(call) ==
    \A i \in 1 .. Len(call.plan) : call.plan[i].do = "mkcol"
        => \E q \in call.things : IsPrefix(call.plan[i].at, q)

MadeBefore(call) ==
    call.kind \in SyncKinds /\ call.form = "mujin" =>
        \A i \in 1 .. Len(call.plan) :
            \/ Parent(call.plan[i].at) = <<>>
            \/ \E k \in 1 .. i - 1 : call.plan[k].do = "mkcol" /\ call.plan[k].at = Parent(call.plan[i].at)

OnTarget(call) ==
    \A i \in 1 .. Len(call.plan) : call.plan[i].do = "delete" => call.plan[i].at \in call.targets

WellPlanned(call) ==
    /\ call.kind \in Kinds /\ call.plan \in Seq(Items) /\ call.things \in SUBSET Path
    /\ call.targets \in SUBSET Path
    /\ Covers(call) /\ OnTheWay(call) /\ MadeBefore(call) /\ OnTarget(call)

-----------------------------------------------------------------------------
(* A local entry is a sequence of characters, each of them a name.         *)
LEMMA LocalNames ==
    ASSUME NEW e \in Local
    PROVE  e \in Seq(Symbols) /\ Len(e) \in Nat /\ \A i \in 1 .. Len(e) : <<e[i]>> \in Text
<1>1. Seq(Symbols \ {"/"}) \subseteq Seq(Symbols)
  <2> SUFFICES ASSUME NEW s \in Seq(Symbols \ {"/"})
               PROVE  s \in Seq(Symbols)
    OBVIOUS
  <2> QED
    BY SeqMonotonic
<1>2. e \in Seq(Symbols)
  BY <1>1, WebDavAssumption DEF Local
<1> QED
  BY <1>2 DEF Text

(* The upload of the local directory covers its copy.                      *)
LEMMA CoverOfTree ==
    ASSUME NEW p \in Path
    PROVE  /\ Cover(Item("tree", p, <<>>)) = CopiedTo(p)
           /\ p \in CopiedTo(p) /\ CopiedTo(p) \in SUBSET Path
           /\ Item("tree", p, <<>>) \in Items
<1>1. <<>> \in Local /\ <<>> \in LocalDirs
  BY WebDavAssumption DEF Local
<1>2. ASSUME NEW e \in Local
      PROVE  Beyond(<<>>, e) = [i \in DOMAIN e |-> <<e[i]>>] /\ IsPrefix(<<>>, e)
  <2>1. e \in Seq(Symbols)
    BY LocalNames
  <2>2. Len(<<>>) = 0 /\ DOMAIN e = 1 .. Len(e) /\ Len(e) \in Nat
    BY <2>1
  <2>3. SubSeq(<<>>, 1, 0) = <<>> /\ SubSeq(e, 1, 0) = <<>>
    BY SubSeqEmpty
  <2>4. IsPrefix(<<>>, e)
    BY <2>2, <2>3 DEF IsPrefix
  <2> QED
    BY <2>2, <2>4 DEF Beyond
<1>3. Cover(Item("tree", p, <<>>)) = CopiedTo(p)
  BY <1>2 DEF Cover, Item, CopiedTo, Local
<1>4. p \in CopiedTo(p)
  <2>1. [i \in DOMAIN <<>> |-> <<(<<>>)[i]>>] = <<>>
    OBVIOUS
  <2>2. p \o <<>> = p
    BY ConcatEmptySeq DEF Path
  <2> QED
    BY <1>1, <2>1, <2>2 DEF CopiedTo, Local
<1>5. CopiedTo(p) \in SUBSET Path
  <2> SUFFICES ASSUME NEW e \in Local
               PROVE  p \o [i \in DOMAIN e |-> <<e[i]>>] \in Path
    BY DEF CopiedTo, Local
  <2>1. e \in Seq(Symbols) /\ \A i \in 1 .. Len(e) : <<e[i]>> \in Text
    BY LocalNames
  <2>2. [i \in DOMAIN e |-> <<e[i]>>] \in Seq(Text)
    BY <2>1
  <2> QED
    BY <2>2 DEF Path
<1>6. Item("tree", p, <<>>) \in Items
  BY <1>1 DEF Item, Items
<1> QED
  BY <1>3, <1>4, <1>5, <1>6

(* The upload of a file covers the file.                                   *)
LEMMA CoverOfFile ==
    ASSUME NEW p \in Path
    PROVE  Cover(Item("file", p, <<>>)) = {p} /\ Item("file", p, <<>>) \in Items
BY WebDavAssumption DEF Cover, Item, Items, Local

(* A directory that is only made covers nothing.                           *)
LEMMA CoverOfMkCol ==
    ASSUME NEW p \in Path
    PROVE  Cover(Item("mkcol", p, <<>>)) = {} /\ Item("mkcol", p, <<>>) \in Items
BY WebDavAssumption DEF Cover, Item, Items, Local

(* The last items of SyncUpload.                                           *)
SyncTail(kind, p) ==
    CASE kind = "syncFile"    -> <<Item("file", Append(p, <<"s">>), <<>>)>>
      [] kind = "syncTree"    -> <<Item("tree", p, <<>>)>>
      [] kind = "syncProject" -> <<Item("tree", Append(p, <<"p">>), <<>>),
                                   Item("file", Append(p, <<"s">>), <<>>)>>
      [] kind = "syncBare"    -> <<>>

(* SyncUpload makes the directories of its path and then does its last     *)
(* items below the names that the server sees in it.                       *)
LEMMA SyncTailOfPlan ==
    ASSUME NEW j \in Job, j.kind \in SyncKinds
    PROVE  Plan(j) = (IF j.form = "mujin" THEN EnsureWebDAVDirectories(j.path) ELSE <<>>)
                         \o SyncTail(j.kind, Segments(Meant(j)))
<1> DEFINE base == WithSlash(Encoded(j))
           p == Segments(Meant(j))
<1>1. base \in Text /\ EndsInSlash(base) /\ Segments(base) = p /\ Segments(WithoutSlash(base)) = p
  BY EncodedIsMeant, SlashAdded
<1>2. "s" \in Symbols /\ "p" \in Symbols /\ "s" # "/" /\ "p" # "/"
  BY WebDavAssumption
<1>3. Segments(Append(base, "s")) = Append(p, <<"s">>) /\ Segments(Append(base, "p")) = Append(p, <<"p">>)
  <2> HIDE DEF base, p
  <2> QED
    BY <1>1, <1>2, BelowSlash
<1>4. Plan(j) = SyncUpload(j)
  BY DEF Plan, SyncKinds
<1>5. File(Append(base, "s")) = Item("file", Append(p, <<"s">>), <<>>)
  <2>1. Append(base, "s") # <<>>
    <3> HIDE DEF base
    <3> QED
      BY <1>1, <1>2 DEF Text
  <2> HIDE DEF base, p
  <2> QED
    BY <1>3, <2>1 DEF File
<1>6. Tree(Append(base, "p")) = Item("tree", Append(p, <<"p">>), <<>>) /\ Tree(WithoutSlash(base)) = Item("tree", p, <<>>)
  BY <1>1, <1>3 DEF Tree
<1> QED
  BY <1>4, <1>5, <1>6 DEF SyncUpload, SyncTail, SyncKinds

(* The plan of SyncUpload, item by item: the directories of p if they are  *)
(* ensured, then the last items.                                           *)
SyncForm(plan, p, n, tail) ==
    /\ p \in Path /\ n \in 0 .. Len(p) /\ tail \in Seq(Items)
    /\ plan \in Seq(Items) /\ Len(plan) = n + Len(tail)
    /\ \A i \in 1 .. n : plan[i] = Item("mkcol", SubSeq(p, 1, i), <<>>)
    /\ \A i \in 1 .. Len(tail) : plan[n + i] = tail[i]

(* The plan of SyncUpload has that form.                                   *)
LEMMA SyncItems ==
    ASSUME NEW j \in Job, j.kind \in SyncKinds, NEW p, p = Segments(Meant(j)),
           NEW n, n = (IF j.form = "mujin" THEN Len(p) ELSE 0),
           NEW tail, tail = SyncTail(j.kind, p)
    PROVE  SyncForm(Plan(j), p, n, tail)
<1> DEFINE ens == IF j.form = "mujin" THEN EnsureWebDAVDirectories(j.path) ELSE <<>>
<1>1. p \in Path /\ n \in 0 .. Len(p) /\ Len(p) \in Nat
  BY EncodedIsMeant, TextIsPath DEF Path
<1>2. tail \in Seq(Items)
  <2>1. <<"s">> \in Text /\ <<"p">> \in Text
    BY WebDavAssumption DEF Text
  <2>2. Append(p, <<"s">>) \in Path /\ Append(p, <<"p">>) \in Path
    BY <1>1, <2>1, AppendParent
  <2>3. /\ Item("file", Append(p, <<"s">>), <<>>) \in Items
        /\ Item("tree", p, <<>>) \in Items /\ Item("tree", Append(p, <<"p">>), <<>>) \in Items
    BY <1>1, <2>2, CoverOfFile, CoverOfTree
  <2> QED
    BY <2>3 DEF SyncTail, SyncKinds
<1>3. ens \in Seq(Items) /\ Len(ens) = n /\ \A i \in 1 .. n : ens[i] = Item("mkcol", SubSeq(p, 1, i), <<>>)
  <2>1. CASE j.form = "mujin"
    <3>1. ens = [i \in 1 .. n |-> Item("mkcol", SubSeq(p, 1, i), <<>>)]
      BY <2>1, DirectoriesOfPath
    <3>2. \A i \in 1 .. n : Item("mkcol", SubSeq(p, 1, i), <<>>) \in Items
      <4> SUFFICES ASSUME NEW i \in 1 .. n
                   PROVE  Item("mkcol", SubSeq(p, 1, i), <<>>) \in Items
        OBVIOUS
      <4>1. SubSeq(p, 1, i) \in Path
        BY <1>1, <2>1, FirstParent
      <4> QED
        BY <4>1, CoverOfMkCol
    <3>3. n \in Nat
      BY <1>1
    <3> HIDE DEF ens
    <3> QED
      BY <3>1, <3>2, <3>3
  <2>2. CASE j.form # "mujin"
    BY <2>2
  <2> QED
    BY <2>1, <2>2
<1>4. Plan(j) = ens \o tail
  BY SyncTailOfPlan
<1> HIDE DEF ens
<1>5. n \in Nat /\ Len(tail) \in Nat
  BY <1>1, <1>2
<1>6. Plan(j) \in Seq(Items) /\ Len(Plan(j)) = n + Len(tail)
  <2>1. ens \o tail \in Seq(Items) /\ Len(ens \o tail) = Len(ens) + Len(tail)
    BY <1>2, <1>3, ConcatProperties
  <2> QED
    BY <1>3, <1>4, <2>1
<1>7. \A i \in 1 .. n : Plan(j)[i] = ens[i]
  BY <1>2, <1>3, <1>4, <1>5
<1>8. \A i \in 1 .. Len(tail) : Plan(j)[n + i] = tail[i]
  BY <1>2, <1>3, <1>4, <1>5
<1> QED
  BY <1>1, <1>2, <1>3, <1>6, <1>7, <1>8 DEF SyncForm

(* What the last items of SyncUpload are and leave.                        *)
LEMMA SyncTailItems ==
    ASSUME NEW kind \in SyncKinds, NEW p \in Path,
           NEW tail, tail = SyncTail(kind, p), NEW i \in 1 .. Len(tail)
    PROVE  \/ kind = "syncFile" /\ i = 1 /\ tail[i] = Item("file", Append(p, <<"s">>), <<>>)
           \/ kind = "syncTree" /\ i = 1 /\ tail[i] = Item("tree", p, <<>>)
           \/ kind = "syncProject" /\ i = 1 /\ tail[i] = Item("tree", Append(p, <<"p">>), <<>>)
           \/ kind = "syncProject" /\ i = 2 /\ tail[i] = Item("file", Append(p, <<"s">>), <<>>)
<1>1. CASE kind = "syncFile"
  <2>1. tail = <<Item("file", Append(p, <<"s">>), <<>>)>>
    BY <1>1 DEF SyncTail
  <2>2. i = 1 /\ tail[1] = Item("file", Append(p, <<"s">>), <<>>)
    BY <2>1
  <2> QED
    BY <1>1, <2>2
<1>2. CASE kind = "syncTree"
  <2>1. tail = <<Item("tree", p, <<>>)>>
    BY <1>2 DEF SyncTail
  <2>2. i = 1 /\ tail[1] = Item("tree", p, <<>>)
    BY <2>1
  <2> QED
    BY <1>2, <2>2
<1>3. CASE kind = "syncProject"
  <2>1. tail = <<Item("tree", Append(p, <<"p">>), <<>>), Item("file", Append(p, <<"s">>), <<>>)>>
    BY <1>3 DEF SyncTail
  <2>2. Len(tail) = 2
    BY <2>1
  <2>3. i = 1 \/ i = 2
    BY <2>2
  <2> QED
    BY <1>3, <2>1, <2>3
<1>4. CASE kind = "syncBare"
  <2>1. tail = <<>>
    BY <1>4 DEF SyncTail
  <2> QED
    BY <2>1
<1> QED
  BY <1>1, <1>2, <1>3, <1>4 DEF SyncKinds

(* SyncUpload is planned well.                                             *)
LEMMA SyncIsWellPlanned ==
    ASSUME NEW j \in Job, j.kind \in SyncKinds
    PROVE  WellPlanned(CallOf(j))
<1> DEFINE p == Segments(Meant(j))
           n == IF j.form = "mujin" THEN Len(p) ELSE 0
           tail == SyncTail(j.kind, p)
           plan == Plan(j)
           things == Things(j)
           scene == Append(p, <<"s">>)
           project == Append(p, <<"p">>)
           call == [kind |-> j.kind, form |-> j.form, plan |-> plan, things |-> things, targets |-> Targets(j)]
<1>1. /\ p \in Path /\ n \in 0 .. Len(p) /\ tail \in Seq(Items)
      /\ plan \in Seq(Items) /\ Len(plan) = n + Len(tail)
      /\ \A i \in 1 .. n : plan[i] = Item("mkcol", SubSeq(p, 1, i), <<>>)
      /\ \A i \in 1 .. Len(tail) : plan[n + i] = tail[i]
  <2>1. /\ p = Segments(Meant(j)) /\ n = (IF j.form = "mujin" THEN Len(p) ELSE 0)
        /\ tail = SyncTail(j.kind, p)
    OBVIOUS
  <2> HIDE DEF p, n, tail
  <2>2. SyncForm(plan, p, n, tail)
    BY <2>1, SyncItems
  <2> QED
    BY <2>2 DEF SyncForm
<1>2. scene \in Path /\ project \in Path /\ Parent(scene) = p /\ Parent(project) = p
  <2>1. <<"s">> \in Text /\ <<"p">> \in Text
    BY WebDavAssumption DEF Text
  <2> QED
    BY <1>1, <2>1, AppendParent
<1>3. things = CASE j.kind = "syncFile"    -> {scene}
                 [] j.kind \in {"syncTree", "syncBare"} -> CopiedTo(p)
                 [] j.kind = "syncProject" -> CopiedTo(project) \cup {scene}
  BY DEF Things, SyncKinds
<1>4. \A i \in 1 .. Len(tail) :
         \/ j.kind = "syncFile" /\ i = 1 /\ tail[i] = Item("file", scene, <<>>)
         \/ j.kind = "syncTree" /\ i = 1 /\ tail[i] = Item("tree", p, <<>>)
         \/ j.kind = "syncProject" /\ i = 1 /\ tail[i] = Item("tree", project, <<>>)
         \/ j.kind = "syncProject" /\ i = 2 /\ tail[i] = Item("file", scene, <<>>)
  BY <1>1, SyncTailItems
<1>5. \/ j.kind = "syncFile" /\ tail = <<Item("file", scene, <<>>)>>
      \/ j.kind = "syncTree" /\ tail = <<Item("tree", p, <<>>)>>
      \/ j.kind = "syncProject" /\ tail = <<Item("tree", project, <<>>), Item("file", scene, <<>>)>>
      \/ j.kind = "syncBare" /\ tail = <<>>
  BY DEF SyncTail, SyncKinds
<1>6. Len(p) \in Nat /\ n \in Nat /\ (j.form = "mujin" => n = Len(p))
  BY <1>1 DEF Path
<1> HIDE DEF p, n, tail, plan, things, scene, project
<1>7. /\ Cover(Item("file", scene, <<>>)) = {scene}
      /\ Cover(Item("tree", p, <<>>)) = CopiedTo(p)
      /\ Cover(Item("tree", project, <<>>)) = CopiedTo(project)
      /\ p \in CopiedTo(p) /\ CopiedTo(p) \in SUBSET Path /\ CopiedTo(project) \in SUBSET Path
  BY <1>1, <1>2, CoverOfFile, CoverOfTree
<1>8. \A i \in 1 .. Len(plan) : i \in 1 .. n \/ (i - n \in 1 .. Len(tail) /\ plan[i] = tail[i - n])
  <2> SUFFICES ASSUME NEW i \in 1 .. Len(plan), i \notin 1 .. n
               PROVE  i - n \in 1 .. Len(tail) /\ plan[i] = tail[i - n]
    OBVIOUS
  <2>1. Len(tail) \in Nat
    BY <1>1
  <2>2. i - n \in 1 .. Len(tail) /\ n + (i - n) = i
    BY <1>1, <1>6, <2>1
  <2> QED
    BY <1>1, <2>2
<1>9. things \in SUBSET Path
  BY <1>2, <1>3, <1>7 DEF SyncKinds
<1>10. \A i \in 1 .. Len(tail) : Cover(tail[i]) \subseteq things
  BY <1>3, <1>4, <1>7
<1>11. j.kind # "syncBare" => \A q \in things : \E i \in 1 .. Len(tail) : q \in Cover(tail[i])
  <2>1. CASE j.kind = "syncFile"
    <3>1. 1 \in 1 .. Len(tail) /\ tail[1] = Item("file", scene, <<>>)
      <4>1. tail = <<Item("file", scene, <<>>)>>
        BY <1>5, <2>1
      <4> QED
        BY <4>1
    <3> QED
      BY <1>3, <1>7, <2>1, <3>1
  <2>2. CASE j.kind = "syncTree"
    <3>1. 1 \in 1 .. Len(tail) /\ tail[1] = Item("tree", p, <<>>)
      <4>1. tail = <<Item("tree", p, <<>>)>>
        BY <1>5, <2>2
      <4> QED
        BY <4>1
    <3> QED
      BY <1>3, <1>7, <2>2, <3>1
  <2>3. CASE j.kind = "syncProject"
    <3>1. /\ 1 \in 1 .. Len(tail) /\ tail[1] = Item("tree", project, <<>>)
          /\ 2 \in 1 .. Len(tail) /\ tail[2] = Item("file", scene, <<>>)
      BY <1>5, <2>3
    <3> QED
      BY <1>3, <1>7, <2>3, <3>1
  <2> QED
    BY <2>1, <2>2, <2>3 DEF SyncKinds
<1>12. Covers(call)
  <2>1. ASSUME j.kind # "syncBare", NEW q \in things
        PROVE  \E i \in 1 .. Len(plan) : q \in Cover(plan[i])
    <3>1. PICK i \in 1 .. Len(tail) : q \in Cover(tail[i])
      BY <1>11, <2>1
    <3>2. n + i \in 1 .. Len(plan) /\ plan[n + i] = tail[i]
      BY <1>1, <1>6
    <3> QED
      BY <3>1, <3>2
  <2>2. ASSUME NEW i \in 1 .. Len(plan)
        PROVE  Cover(plan[i]) \subseteq things
    <3>1. CASE i \in 1 .. n
      <4>1. SubSeq(p, 1, i) \in Path
        BY <1>1, <1>6, <3>1, FirstParent
      <4> QED
        BY <1>1, <3>1, <4>1, CoverOfMkCol
    <3>2. CASE i \notin 1 .. n
      BY <1>8, <1>10, <3>2
    <3> QED
      BY <3>1, <3>2
  <2> QED
    BY <2>1, <2>2 DEF Covers
<1>13. OnTheWay(call)
  <2>1. ASSUME NEW i \in 1 .. Len(plan), plan[i].do = "mkcol"
        PROVE  \E q \in things : IsPrefix(plan[i].at, q)
    <3>1. i \in 1 .. n
      <4>1. \A k \in 1 .. Len(tail) : tail[k].do # "mkcol"
        BY <1>4 DEF Item
      <4> QED
        BY <1>8, <2>1, <4>1
    <3>2. plan[i].at = SubSeq(p, 1, i)
      <4> DEFINE first == SubSeq(p, 1, i)
      <4>1. plan[i] = Item("mkcol", first, <<>>)
        BY <1>1, <3>1
      <4> HIDE DEF first
      <4>2. plan[i].at = first
        BY <4>1 DEF Item
      <4> QED
        BY <4>2 DEF first
    <3>3. i \in 0 .. Len(p)
      BY <1>1, <1>6, <3>1
    <3>4. IsPrefix(SubSeq(p, 1, i), p) /\ IsPrefix(SubSeq(p, 1, i), scene)
      <4>1. <<"s">> \in Text
        BY WebDavAssumption DEF Text
      <4> QED
        BY <1>1, <3>3, <4>1, FirstIsPrefix DEF scene
    <3>5. scene \in things \/ p \in things
      BY <1>3, <1>7 DEF SyncKinds
    <3> QED
      BY <3>2, <3>4, <3>5
  <2> QED
    BY <2>1 DEF OnTheWay
<1>14. MadeBefore(call)
  <2> SUFFICES ASSUME j.form = "mujin", NEW i \in 1 .. Len(plan)
               PROVE  \/ Parent(plan[i].at) = <<>>
                      \/ \E k \in 1 .. i - 1 : plan[k].do = "mkcol" /\ plan[k].at = Parent(plan[i].at)
    BY DEF MadeBefore
  <2>1. n = Len(p)
    BY <1>6
  <2>2. SubSeq(p, 1, 0) = <<>> /\ SubSeq(p, 1, n) = p
    BY <1>1, <2>1, SubSeqEmpty, SubSeqFull DEF Path
  <2>3. \A k \in 1 .. n : plan[k].do = "mkcol" /\ plan[k].at = SubSeq(p, 1, k)
    <3> SUFFICES ASSUME NEW k \in 1 .. n
                 PROVE  plan[k].do = "mkcol" /\ plan[k].at = SubSeq(p, 1, k)
      OBVIOUS
    <3> DEFINE first == SubSeq(p, 1, k)
    <3>1. plan[k] = Item("mkcol", first, <<>>)
      BY <1>1
    <3> HIDE DEF first
    <3>2. plan[k].do = "mkcol" /\ plan[k].at = first
      BY <3>1 DEF Item
    <3> QED
      BY <3>2 DEF first
  <2>4. ASSUME NEW m \in 0 .. n, m < i, Parent(plan[i].at) = SubSeq(p, 1, m)
        PROVE  \/ Parent(plan[i].at) = <<>>
               \/ \E k \in 1 .. i - 1 : plan[k].do = "mkcol" /\ plan[k].at = Parent(plan[i].at)
    <3>1. CASE m = 0
      BY <2>2, <2>4, <3>1
    <3>2. CASE m # 0
      <4>1. m \in 1 .. n /\ m \in 1 .. i - 1
        BY <1>6, <2>4, <3>2
      <4> QED
        BY <2>3, <2>4, <4>1
    <3> QED
      BY <3>1, <3>2
  <2>5. CASE i \in 1 .. n
    <3>1. Parent(plan[i].at) = SubSeq(p, 1, i - 1)
      BY <1>1, <2>1, <2>3, <2>5, FirstParent
    <3>2. i - 1 \in 0 .. n /\ i - 1 < i
      BY <2>5, <1>6
    <3> QED
      BY <2>4, <3>1, <3>2
  <2>6. CASE i \notin 1 .. n
    <3>1. i - n \in 1 .. Len(tail) /\ plan[i] = tail[i - n]
      BY <1>8, <2>6
    <3>2. plan[i].at \in {scene, project, p}
      BY <1>4, <3>1 DEF Item
    <3>3. n < i /\ n \in 0 .. n
      BY <1>6, <2>6
    <3>4. CASE plan[i].at \in {scene, project}
      <4>1. Parent(plan[i].at) = SubSeq(p, 1, n)
        BY <1>2, <2>2, <3>4
      <4> QED
        BY <2>4, <3>3, <4>1
    <3>5. CASE plan[i].at = p
      <4>1. CASE p = <<>>
        BY <3>5, <4>1 DEF Parent
      <4>2. CASE p # <<>>
        <5>1. n \in 1 .. Len(p)
          BY <1>1, <1>6, <2>1, <4>2 DEF Path
        <5>2. Parent(plan[i].at) = SubSeq(p, 1, n - 1)
          BY <1>1, <2>2, <3>5, <5>1, FirstParent
        <5>3. n - 1 \in 0 .. n /\ n - 1 < i
          BY <1>6, <3>3, <5>1
        <5> QED
          BY <2>4, <5>2, <5>3
      <4> QED
        BY <4>1, <4>2
    <3> QED
      BY <3>2, <3>4, <3>5
  <2> QED
    BY <2>5, <2>6
<1>15. call.kind \in Kinds /\ call.plan \in Seq(Items) /\ call.things \in SUBSET Path
  BY <1>1, <1>9 DEF Kinds
<1>16. call.targets = {} /\ OnTarget(call)
  <2>1. call.targets = {}
    BY DEF Targets, SyncKinds
  <2>2. ASSUME NEW i \in 1 .. Len(plan)
        PROVE  plan[i].do # "delete"
    <3>1. CASE i \in 1 .. n
      <4>1. plan[i] = Item("mkcol", SubSeq(p, 1, i), <<>>)
        BY <1>1, <3>1
      <4> QED
        BY <4>1 DEF Item
    <3>2. CASE i \notin 1 .. n
      <4>1. i - n \in 1 .. Len(tail) /\ plan[i] = tail[i - n]
        BY <1>8, <3>2
      <4> QED
        BY <1>4, <4>1 DEF Item
    <3> QED
      BY <3>1, <3>2
  <2> QED
    BY <2>1, <2>2 DEF OnTarget
<1>17. WellPlanned(call)
  <2> HIDE DEF call
  <2> QED
    BY <1>12, <1>13, <1>14, <1>15, <1>16 DEF WellPlanned
<1> QED
  BY <1>17 DEF plan, things, CallOf

(* So is every other call.                                                 *)
LEMMA OtherIsWellPlanned ==
    ASSUME NEW j \in Job, j.kind \notin SyncKinds
    PROVE  WellPlanned(CallOf(j))
<1> DEFINE uri == Encoded(j)
           p == Segments(Meant(j))
           call == [kind |-> j.kind, form |-> j.form, plan |-> Plan(j), things |-> Things(j), targets |-> Targets(j)]
<1>1. uri \in Text /\ Segments(uri) = p /\ p \in Path /\ (EndsInSlash(uri) <=> EndsInSlash(Meant(j)))
  BY EncodedIsMeant, TextIsPath
<1>2. j.kind \in {"file", "directory", "deleteFile", "deleteDirectory"}
  BY DEF Job, Kinds
<1>3. ASSUME NEW x \in Items, Plan(j) = <<x>>, x.do # "mkcol", Things(j) = Cover(x), Things(j) \in SUBSET Path,
             x.do = "delete" => Targets(j) = {x.at}
      PROVE  WellPlanned(CallOf(j))
  <2>1. Plan(j) \in Seq(Items) /\ Len(Plan(j)) = 1 /\ Plan(j)[1] = x
    BY <1>3
  <2>2. Covers(call)
    BY <1>3, <2>1 DEF Covers
  <2>3. OnTheWay(call)
    BY <1>3, <2>1 DEF OnTheWay
  <2>4. MadeBefore(call)
    BY DEF MadeBefore
  <2>5. Targets(j) \in SUBSET Path
    BY <1>1 DEF Targets
  <2>6. OnTarget(call)
    BY <1>3, <2>1 DEF OnTarget
  <2> QED
    BY <1>2, <1>3, <2>1, <2>2, <2>3, <2>4, <2>5, <2>6 DEF WellPlanned, Kinds, CallOf
<1>4. CASE j.kind = "file"
  <2> DEFINE q == IF j.path = <<>> THEN <<Unused>> ELSE p
  <2>1. uri = <<>> <=> j.path = <<>>
    <3>1. j.path \in Text
      BY DEF Job, Text
    <3> QED
      BY <3>1, EncodedEmpty DEF Encoded
  <2>2. q \in Path
    <3>1. Unused \in Text
      BY WebDavAssumption DEF Unused, Text
    <3> QED
      BY <1>1, <3>1 DEF Path
  <2>3. Plan(j) = <<Item("file", q, <<>>)>> /\ Things(j) = {q}
    BY <1>1, <1>4, <2>1 DEF Plan, Things, File, SyncKinds
  <2> HIDE DEF p, q
  <2>4. Cover(Item("file", q, <<>>)) = {q} /\ Item("file", q, <<>>) \in Items /\ Item("file", q, <<>>).do = "file"
    BY <2>2, CoverOfFile DEF Item
  <2> QED
    BY <1>3, <2>2, <2>3, <2>4
<1>5. CASE j.kind = "directory"
  <2> DEFINE u == IF EndsInSlash(uri) THEN Append(uri, "c") ELSE uri
             q == IF EndsInSlash(Meant(j)) THEN Append(p, <<"c">>) ELSE p
  <2>1. Plan(j) = <<Tree(u)>> /\ Things(j) = CopiedTo(q)
    BY <1>5 DEF Plan, Things, SyncKinds
  <2>2. Segments(u) = q /\ q \in Path
    <3>1. <<"c">> \in Text /\ "c" \in Symbols /\ "c" # "/"
      BY WebDavAssumption DEF Text
    <3>2. CASE EndsInSlash(uri)
      <4>1. Segments(Append(uri, "c")) = Append(p, <<"c">>)
        BY <1>1, <3>1, <3>2, BelowSlash
      <4>2. Append(p, <<"c">>) \in Path
        BY <1>1, <3>1, AppendParent
      <4> QED
        BY <1>1, <3>2, <4>1, <4>2
    <3>3. CASE ~EndsInSlash(uri)
      BY <1>1, <3>3
    <3> QED
      BY <3>2, <3>3
  <2> HIDE DEF u, q, p
  <2>3. /\ Cover(Item("tree", q, <<>>)) = CopiedTo(q) /\ Item("tree", q, <<>>) \in Items
        /\ CopiedTo(q) \in SUBSET Path /\ Item("tree", q, <<>>).do = "tree"
    BY <2>2, CoverOfTree DEF Item
  <2>4. Plan(j) = <<Item("tree", q, <<>>)>>
    BY <2>1, <2>2 DEF Tree
  <2> QED
    BY <1>3, <2>1, <2>3, <2>4
<1>6. CASE j.kind \in {"deleteFile", "deleteDirectory"}
  <2>1. Plan(j) = <<Item("delete", p, <<>>)>> /\ Things(j) = {} /\ Targets(j) = {p}
    BY <1>1, <1>6 DEF Plan, Things, Targets, Delete, SyncKinds
  <2>2. /\ Cover(Item("delete", p, <<>>)) = {} /\ Item("delete", p, <<>>) \in Items
        /\ Item("delete", p, <<>>).do = "delete" /\ Item("delete", p, <<>>).at = p
    BY <1>1, WebDavAssumption DEF Item, Items, Cover, Local
  <2> HIDE DEF p
  <2> QED
    BY <1>3, <2>1, <2>2
<1> QED
  BY <1>2, <1>4, <1>5, <1>6

(* Whatever its path and the local directory, the requests of a call leave *)
(* all of its things and nothing else (none for a SyncUpload that uploads  *)
(* nothing, lines 681-686), make directories on the way to them only, and  *)
(* delete what it names; SyncUpload makes each directory before it uses it.*)
THEOREM CallsAreWellPlanned == \A call \in Calls : WellPlanned(call)
<1>1. \A j \in Jobs : j \in Job
  BY WebDavAssumption
<1> QED
  BY <1>1, SyncIsWellPlanned, OtherIsWellPlanned DEF Calls

-----------------------------------------------------------------------------
(* A local directory, entry by entry                                       *)

(* What a local entry is in is a local directory.                          *)
LEMMA AboveAreDirs ==
    ASSUME NEW e \in Local, NEW n \in 0 .. Len(e) - 1
    PROVE  SubSeq(e, 1, n) \in LocalDirs
<1> DEFINE m == Len(e)
           S == {k \in 0 .. m : k = 0 \/ SubSeq(e, 1, m - k) \in LocalDirs}
<1>1. e \in Seq(Symbols) /\ m \in Nat
  BY LocalNames
<1>2. 0 \in S
  BY <1>1
<1>3. ASSUME NEW k \in 0 .. m - 1, k \in S
      PROVE  k + 1 \in S
  <2> DEFINE i == m - (k + 1)
  <2>1. i \in 0 .. m - 1 /\ m - k = i + 1 /\ k + 1 \in 0 .. m
    BY <1>1
  <2> HIDE DEF i
  <2>2. SubSeq(e, 1, i + 1) \in Local
    <3>1. CASE k = 0
      <4>1. i + 1 = Len(e)
        BY <1>1, <2>1, <3>1
      <4>2. SubSeq(e, 1, Len(e)) = e
        BY <1>1, SubSeqFull
      <4> QED
        BY <4>1, <4>2
    <3>2. CASE k # 0
      BY <1>3, <2>1, <3>2 DEF Local
    <3> QED
      BY <3>1, <3>2
  <2>3. SubSeq(e, 1, i + 1) # <<>> /\ Front(SubSeq(e, 1, i + 1)) = SubSeq(e, 1, i)
    BY <1>1, <2>1, FrontOfFirst
  <2>4. SubSeq(e, 1, i) \in LocalDirs
    BY <2>2, <2>3, WebDavAssumption DEF Local
  <2> QED
    BY <2>1, <2>4 DEF i
<1> HIDE DEF S
<1>4. 0 .. m \subseteq S
  BY <1>1, <1>2, <1>3, BoundedInduction
<1>5. m - n \in 0 .. m /\ m - n # 0 /\ m - (m - n) = n
  BY <1>1
<1> QED
  BY <1>4, <1>5 DEF S

(* The directory found below a with the name of the entry e continues as   *)
(* the directory it is in does.                                            *)
LEMMA BeyondStep ==
    ASSUME NEW a \in Path, NEW d \in Local, NEW e \in Local, NEW x \in Local,
           e # <<>>, Front(e) = d, IsPrefix(e, x)
    PROVE  /\ Append(a, <<Last(e)>>) \o Beyond(e, x) = a \o Beyond(d, x)
           /\ IsPrefix(d, x) /\ Append(a, <<Last(e)>>) \in Path
           /\ a \o Beyond(d, x) \in Path
<1> DEFINE n == Len(d)
           b == Append(a, <<Last(e)>>)
           u == Beyond(e, x)
           v == Beyond(d, x)
<1>1. /\ d \in Seq(Symbols) /\ n \in Nat /\ e \in Seq(Symbols) /\ Len(e) \in Nat
      /\ x \in Seq(Symbols) /\ Len(x) \in Nat /\ \A i \in 1 .. Len(x) : <<x[i]>> \in Text
  BY LocalNames
<1>2. Len(e) = n + 1 /\ \A i \in 1 .. n : d[i] = e[i]
  <2>1. Len(e) # 0
    BY <1>1
  <2>2. Len(e) - 1 \in 0 .. Len(e)
    BY <1>1, <2>1
  <2>3. d = SubSeq(e, 1, Len(e) - 1)
    BY DEF Front
  <2> HIDE DEF n
  <2>4. Len(d) = Len(e) - 1 /\ \A i \in 1 .. Len(e) - 1 : d[i] = e[i]
    BY <1>1, <2>2, <2>3, FirstPart
  <2> QED
    BY <1>1, <2>4 DEF n
<1>3. Len(e) <= Len(x) /\ \A i \in 1 .. Len(e) : e[i] = x[i]
  BY <1>1, PrefixByElement
<1>4. Last(e) = x[n + 1] /\ <<Last(e)>> \in Text
  BY <1>1, <1>2, <1>3 DEF Last
<1>5. IsPrefix(d, x)
  BY <1>1, <1>2, <1>3, PrefixByElement
<1>6. /\ u \in Seq(Text) /\ Len(u) = Len(x) - n - 1 /\ \A i \in 1 .. Len(x) - n - 1 : u[i] = <<x[n + 1 + i]>>
  <2> DEFINE k == Len(x) - Len(e)
  <2>1. k \in Nat /\ k = Len(x) - n - 1 /\ \A i \in 1 .. k : <<x[Len(e) + i]>> \in Text
    BY <1>1, <1>2, <1>3
  <2>2. u = [i \in 1 .. k |-> <<x[Len(e) + i]>>]
    BY DEF Beyond
  <2> HIDE DEF k, u
  <2>3. u \in [1 .. k -> Text] /\ \A i \in 1 .. k : u[i] = <<x[Len(e) + i]>>
    BY <2>1, <2>2
  <2>4. u \in Seq(Text) /\ Len(u) = k
    BY <2>1, <2>3, FunctionIsSeq
  <2> QED
    BY <1>2, <2>1, <2>3, <2>4
<1>7. /\ v \in Seq(Text) /\ Len(v) = Len(x) - n /\ \A i \in 1 .. Len(x) - n : v[i] = <<x[n + i]>>
  <2> DEFINE k == Len(x) - n
  <2>1. k \in Nat /\ \A i \in 1 .. k : <<x[n + i]>> \in Text
    BY <1>1, <1>2, <1>3
  <2>2. v = [i \in 1 .. k |-> <<x[n + i]>>]
    BY DEF Beyond
  <2> HIDE DEF k, v
  <2>3. v \in [1 .. k -> Text] /\ \A i \in 1 .. k : v[i] = <<x[n + i]>>
    BY <2>1, <2>2
  <2>4. v \in Seq(Text) /\ Len(v) = k
    BY <2>1, <2>3, FunctionIsSeq
  <2> QED
    BY <2>3, <2>4 DEF k
<1>8. /\ b \in Seq(Text) /\ Len(b) = Len(a) + 1 /\ Len(a) \in Nat /\ b[Len(a) + 1] = <<Last(e)>>
      /\ a \in Seq(Text) /\ \A i \in 1 .. Len(a) : b[i] = a[i]
  BY <1>4 DEF Path
<1> DEFINE l == b \o u
           r == a \o v
<1> HIDE DEF b, u, v, n, l, r
<1>9. /\ l \in Seq(Text) /\ Len(l) = Len(b) + Len(u)
      /\ \A i \in 1 .. Len(l) : l[i] = IF i <= Len(b) THEN b[i] ELSE u[i - Len(b)]
  <2>1. b \in Seq(Text) /\ u \in Seq(Text)
    BY <1>6, <1>8
  <2> QED
    BY <2>1, ConcatProperties DEF l
<1>10. /\ r \in Seq(Text) /\ Len(r) = Len(a) + Len(v)
       /\ \A i \in 1 .. Len(r) : r[i] = IF i <= Len(a) THEN a[i] ELSE v[i - Len(a)]
  <2>1. a \in Seq(Text) /\ v \in Seq(Text)
    BY <1>7, <1>8
  <2> QED
    BY <2>1, ConcatProperties DEF r
<1>11. Len(l) = Len(r)
  BY <1>1, <1>6, <1>7, <1>8, <1>9, <1>10
<1>12. ASSUME NEW i \in 1 .. Len(l)
       PROVE  l[i] = r[i]
  <2>1. CASE i <= Len(a)
    <3>1. i \in 1 .. Len(a) /\ i <= Len(b)
      BY <1>8, <2>1
    <3> QED
      BY <1>8, <1>9, <1>10, <1>11, <2>1, <3>1
  <2>2. CASE i = Len(a) + 1
    <3>1. l[i] = <<Last(e)>>
      BY <1>8, <1>9, <2>2
    <3>2. r[i] = v[1] /\ 1 \in 1 .. Len(x) - n
      <4>1. i - Len(a) = 1 /\ ~(i <= Len(a))
        BY <1>8, <2>2
      <4>2. 1 \in 1 .. Len(x) - n
        BY <1>1, <1>2, <1>3
      <4> QED
        BY <1>10, <1>11, <4>1, <4>2
    <3> QED
      BY <1>4, <1>7, <3>1, <3>2
  <2>3. CASE i > Len(a) + 1
    <3> DEFINE k == i - Len(a)
    <3>1. k \in 2 .. Len(x) - n /\ k - 1 \in 1 .. Len(x) - n - 1 /\ i - Len(b) = k - 1 /\ ~(i <= Len(b)) /\ ~(i <= Len(a))
      BY <1>1, <1>6, <1>8, <1>9, <2>3
    <3>2. l[i] = u[k - 1] /\ r[i] = v[k]
      BY <1>9, <1>10, <1>11, <3>1
    <3>3. n + 1 + (k - 1) = n + k
      BY <1>1, <3>1
    <3> HIDE DEF k
    <3>4. u[k - 1] = <<x[n + 1 + (k - 1)]>>
      BY <1>6, <3>1
    <3>5. v[k] = <<x[n + k]>>
      <4>1. k \in 1 .. Len(x) - n
        BY <3>1
      <4> QED
        BY <1>7, <4>1
    <3> QED
      BY <3>2, <3>3, <3>4, <3>5
  <2> QED
    BY <1>8, <2>1, <2>2, <2>3
<1>13. l = r
  BY <1>9, <1>10, <1>11, <1>12, SeqEqual
<1> QED
  BY <1>5, <1>8, <1>10, <1>13 DEF l, r, b, u, v, Path

(* A directory iterator names every entry.                                 *)
LEMMA ListingsAreFull ==
    ASSUME NEW d \in LocalDirs, NEW s \in Listings[d]
    PROVE  /\ Cardinality(Entries(d)) \in Nat
           /\ s \in [1 .. Cardinality(Entries(d)) -> Entries(d)]
           /\ \A e \in Entries(d) : \E i \in 1 .. Cardinality(Entries(d)) : s[i] = e
<1> DEFINE E == Entries(d)
           n == Cardinality(E)
<1>1. IsFiniteSet(E)
  <2>1. IsFiniteSet(LocalDirs \cup LocalFiles)
    BY WebDavAssumption, FS_Union
  <2>2. E \in SUBSET (LocalDirs \cup LocalFiles)
    BY DEF Entries
  <2> QED
    BY <2>1, <2>2, FS_Subset
<1>2. n \in Nat
  BY <1>1, FS_CardinalityType
<1>3. s \in SetToSeqs(E)
  BY DEF Listings
<1> HIDE DEF E
<1>4. s \in [1 .. n -> E] /\ \A i, k \in 1 .. n : i # k => s[i] # s[k]
  BY <1>3 DEF SetToSeqs
<1>5. s \in Injection(1 .. n, E)
  BY <1>4 DEF Injection, IsInjective
<1>6. Cardinality(1 .. n) = n
  <2>1. 1 \in Int /\ n \in Int /\ (IF 1 > n THEN 0 ELSE n - 1 + 1) = n
    BY <1>2
  <2> QED
    BY <2>1, FS_Interval
<1>7. s \in Surjection(1 .. n, E)
  BY <1>1, <1>5, <1>6, FS_Injection
<1> QED
  BY <1>2, <1>4, <1>7 DEF Surjection, E

(* A directory is found below itself without further names.                *)
LEMMA BeyondItself ==
    ASSUME NEW a \in Path, NEW d \in Local
    PROVE  a \o Beyond(d, d) = a /\ IsPrefix(d, d)
<1>1. d \in Seq(Symbols) /\ Len(d) \in Nat
  BY LocalNames
<1>2. Beyond(d, d) = <<>>
  <2>1. 1 .. Len(d) - Len(d) = {}
    BY <1>1
  <2> QED
    BY <2>1 DEF Beyond
<1>3. a \o <<>> = a
  BY ConcatEmptySeq DEF Path
<1>4. IsPrefix(d, d)
  BY <1>1, PrefixByElement
<1> QED
  BY <1>2, <1>3, <1>4

(* What an item leaves has its own URI in front.                           *)
LEMMA ItemAndCover ==
    ASSUME NEW x \in Items
    PROVE  /\ Cover(x) \in SUBSET Path
           /\ x.do \in {"tree", "file"} => x.at \in Cover(x)
<1>1. x.at \in Path /\ x.from \in Local /\ (x.do = "tree" => x.from \in LocalDirs)
  BY DEF Items
<1>2. ASSUME x.do = "tree", NEW e \in Local, IsPrefix(x.from, e)
      PROVE  x.at \o Beyond(x.from, e) \in Path
  <2>1. x.from \in Seq(Symbols) /\ e \in Seq(Symbols) /\ \A i \in 1 .. Len(e) : <<e[i]>> \in Text
    BY <1>1, LocalNames
  <2>2. Len(x.from) <= Len(e)
    BY <1>2 DEF IsPrefix
  <2> DEFINE k == Len(e) - Len(x.from)
  <2>3. k \in Nat /\ \A i \in 1 .. k : <<e[Len(x.from) + i]>> \in Text
    BY <2>1, <2>2
  <2>4. Beyond(x.from, e) \in [1 .. k -> Text]
    <3>1. Beyond(x.from, e) = [i \in 1 .. k |-> <<e[Len(x.from) + i]>>]
      BY DEF Beyond
    <3> HIDE DEF k
    <3> QED
      BY <2>3, <3>1
  <2>5. Beyond(x.from, e) \in Seq(Text)
    BY <2>3, <2>4, FunctionIsSeq
  <2> HIDE DEF k
  <2> QED
    BY <1>1, <2>5, ConcatProperties DEF Path
<1>3. x.do = "tree" => x.at \in Cover(x)
  <2> SUFFICES ASSUME x.do = "tree" PROVE x.at \in Cover(x)
    OBVIOUS
  <2>1. x.at \o Beyond(x.from, x.from) = x.at /\ IsPrefix(x.from, x.from)
    BY <1>1, BeyondItself
  <2> QED
    BY <1>1, <2>1 DEF Cover
<1>4. x.do = "file" => x.at \in Cover(x)
  BY DEF Cover
<1>5. Cover(x) \in SUBSET Path
  BY <1>1, <1>2 DEF Cover
<1> QED
  BY <1>3, <1>4, <1>5

(* The items of a directory's entries, and what they leave.                *)
Unfolds(x, items) ==
    /\ items \in Seq(Items)
    /\ \A i \in 1 .. Len(items) :
          /\ items[i].do \in {"tree", "file"} /\ Parent(items[i].at) = x.at
          /\ Cover(items[i]) \subseteq Cover(x)
    /\ \A q \in Cover(x) : q = x.at \/ \E i \in 1 .. Len(items) : q \in Cover(items[i])

(* What a directory leaves is the directory itself and what its entries    *)
(* leave.                                                                  *)
LEMMA ContentsUnfold ==
    ASSUME NEW x \in Items, x.do = "tree", NEW items \in Contents(x)
    PROVE  Unfolds(x, items)
<1> DEFINE a == x.at
           d == x.from
           n == Cardinality(Entries(d))
<1>1. a \in Path /\ d \in LocalDirs /\ d \in Local
  BY DEF Items, Local
<1>2. PICK s \in Listings[d] : items = [i \in DOMAIN s |-> Upload(a, s[i])]
  BY DEF Contents
<1> HIDE DEF a, d
<1>3. /\ n \in Nat /\ s \in [1 .. n -> Entries(d)]
      /\ \A e \in Entries(d) : \E i \in 1 .. n : s[i] = e
  BY <1>1, ListingsAreFull
<1>4. \A i \in 1 .. n : s[i] \in Local /\ s[i] # <<>> /\ Front(s[i]) = d
  BY <1>3 DEF Entries, Local
<1> HIDE DEF n
<1>5. items = [i \in 1 .. n |-> Upload(a, s[i])]
  BY <1>2, <1>3
<1>6. ASSUME NEW e \in Local, e # <<>>, Front(e) = d
      PROVE  /\ Upload(a, e) \in Items
             /\ Upload(a, e).do \in {"tree", "file"} /\ Parent(Upload(a, e).at) = a
             /\ Cover(Upload(a, e)) \subseteq Cover(x)
             /\ Append(a, <<Last(e)>>) = a \o Beyond(d, e)
  <2>1. e \in Seq(Symbols) /\ Len(e) \in Nat /\ \A i \in 1 .. Len(e) : <<e[i]>> \in Text
    BY LocalNames
  <2>2. <<Last(e)>> \in Text
    <3>1. Len(e) # 0
      BY <1>6, <2>1
    <3> QED
      BY <2>1, <3>1 DEF Last
  <2> DEFINE b == Append(a, <<Last(e)>>)
  <2>3. b \in Path /\ Parent(b) = a
    BY <1>1, <2>2, AppendParent
  <2>4. Beyond(e, e) = Beyond(e, e) /\ b \o Beyond(e, e) = b /\ IsPrefix(e, e)
    BY <2>3, BeyondItself
  <2>5. b \o Beyond(e, e) = a \o Beyond(d, e) /\ IsPrefix(d, e)
    BY <1>1, <1>6, <2>4, BeyondStep
  <2>6. Upload(a, e) = Item(IF e \in LocalDirs THEN "tree" ELSE "file", b, e)
    BY DEF Upload
  <2>7. \A y \in Local : IsPrefix(e, y) => b \o Beyond(e, y) = a \o Beyond(d, y) /\ IsPrefix(d, y)
    BY <1>1, <1>6, BeyondStep
  <2>8. Cover(x) = {a \o Beyond(d, y) : y \in {z \in Local : IsPrefix(d, z)}}
    BY DEF Cover, a, d
  <2> HIDE DEF b
  <2>9. Upload(a, e) \in Items /\ Upload(a, e).do \in {"tree", "file"} /\ Upload(a, e).at = b
    BY <2>3, <2>6 DEF Items, Item, Local
  <2>10. Cover(Upload(a, e)) \subseteq Cover(x)
    <3>1. CASE e \in LocalDirs
      <4>1. Cover(Upload(a, e)) = {b \o Beyond(e, y) : y \in {z \in Local : IsPrefix(e, z)}}
        BY <2>6, <3>1 DEF Cover, Item
      <4> QED
        BY <2>7, <2>8, <4>1
    <3>2. CASE e \notin LocalDirs
      <4>1. Cover(Upload(a, e)) = {b}
        BY <2>6, <3>2 DEF Cover, Item
      <4> QED
        BY <2>4, <2>5, <2>8, <4>1
    <3> QED
      BY <3>1, <3>2
  <2>11. b = a \o Beyond(d, e)
    BY <2>4, <2>5
  <2> QED
    BY <2>3, <2>9, <2>10, <2>11 DEF b
<1>7. items \in Seq(Items) /\ Len(items) = n
  <2>1. items \in [1 .. n -> Items]
    BY <1>4, <1>5, <1>6
  <2> QED
    BY <1>3, <2>1, FunctionIsSeq
<1>8. \A i \in 1 .. n :
         /\ items[i].do \in {"tree", "file"} /\ Parent(items[i].at) = a
         /\ Cover(items[i]) \subseteq Cover(x)
  BY <1>4, <1>5, <1>6
<1>9. ASSUME NEW q \in Cover(x), q # a
      PROVE  \E i \in 1 .. n : q \in Cover(items[i])
  <2>1. PICK y \in Local : IsPrefix(d, y) /\ q = a \o Beyond(d, y)
    BY <1>9 DEF Cover, a, d
  <2> DEFINE m == Len(d)
  <2>2. d \in Seq(Symbols) /\ m \in Nat /\ y \in Seq(Symbols) /\ Len(y) \in Nat
    BY <1>1, LocalNames
  <2>3. m <= Len(y) /\ \A i \in 1 .. m : d[i] = y[i]
    BY <2>1, <2>2, PrefixByElement
  <2>4. m # Len(y)
    <3> SUFFICES ASSUME m = Len(y) PROVE FALSE
      OBVIOUS
    <3>1. d = y
      BY <2>2, <2>3, SeqEqual
    <3> QED
      BY <1>1, <1>9, <2>1, <3>1, BeyondItself
  <2>5. m \in 0 .. Len(y) - 1 /\ m \in 0 .. Len(y) /\ m + 1 \in 0 .. Len(y)
    BY <2>2, <2>3, <2>4
  <2> DEFINE e == SubSeq(y, 1, m + 1)
             f == SubSeq(y, 1, m)
  <2> HIDE DEF m
  <2>6. f = d
    <3>1. f \in Seq(Symbols) /\ Len(f) = m /\ \A i \in 1 .. m : f[i] = y[i]
      BY <2>2, <2>5, FirstPart
    <3> HIDE DEF f
    <3>2. Len(d) = m
      BY DEF m
    <3> QED
      BY <2>2, <2>3, <3>1, <3>2, SeqEqual
  <2>7. e # <<>> /\ Front(e) = d /\ Last(e) = y[m + 1]
    BY <2>2, <2>5, <2>6, FrontOfFirst
  <2>8. e \in Seq(Symbols) /\ Len(e) = m + 1 /\ \A i \in 1 .. m + 1 : e[i] = y[i]
    BY <2>2, <2>5, FirstPart
  <2>9. (m + 1 = Len(y) => e = y) /\ (m + 1 # Len(y) => e \in LocalDirs)
    <3>1. m + 1 # Len(y) => m + 1 \in 0 .. Len(y) - 1
      BY <2>2, <2>5
    <3>2. SubSeq(y, 1, Len(y)) = y
      BY <2>2, SubSeqFull
    <3> QED
      BY <3>1, <3>2, AboveAreDirs
  <2>10. e \in Local
    BY <2>9 DEF Local
  <2> HIDE DEF e
  <2>11. IsPrefix(e, y)
    BY <2>2, <2>5, <2>8, PrefixByElement
  <2>12. PICK i \in 1 .. n : s[i] = e
    BY <1>3, <2>7, <2>10 DEF Entries, Local
  <2>13. items[i] = Upload(a, e)
    BY <1>5, <2>12
  <2>14. CASE e \in LocalDirs
    <3>1. Cover(Upload(a, e)) = {Append(a, <<Last(e)>>) \o Beyond(e, z) : z \in {z \in Local : IsPrefix(e, z)}}
      BY <2>14 DEF Cover, Upload, Item
    <3>2. Append(a, <<Last(e)>>) \o Beyond(e, y) = q
      BY <1>1, <2>1, <2>7, <2>10, <2>11, BeyondStep
    <3> QED
      BY <2>11, <2>13, <3>1, <3>2
  <2>15. CASE e \notin LocalDirs
    <3>1. e = y
      BY <2>9, <2>15
    <3>2. Append(a, <<Last(e)>>) = q
      BY <1>6, <2>1, <2>7, <2>10, <3>1
    <3>3. Cover(Upload(a, e)) = {Append(a, <<Last(e)>>)}
      BY <2>15 DEF Cover, Upload, Item
    <3> QED
      BY <2>13, <3>2, <3>3
  <2> QED
    BY <2>14, <2>15
<1> QED
  BY <1>7, <1>8, <1>9 DEF Unfolds, a

-----------------------------------------------------------------------------
(* The steps                                                               *)

(* The types, said of the paths and items a call can have.                *)
Typed ==
    /\ dirs \in SUBSET Path /\ <<>> \in dirs /\ files \in SUBSET Path
    /\ job \in [Clients -> Calls]
    /\ status \in [Clients -> {"idle", "busy", "done", "thrown"}]
    /\ work \in [Clients -> Seq(Items)] /\ redirected \in SUBSET Clients
    /\ refusal \in [Clients -> Codes \cup {"none"}]
    /\ removed \in BOOLEAN /\ faults \in 0 .. MaxFaults

(* The file system after a request of c: something was removed, or what is *)
(* new is the thing c asked for or what that is in.                        *)
Shrunk ==
    removed' /\ dirs' \in SUBSET dirs /\ files' \in SUBSET files /\ <<>> \in dirs'

Grown(c) ==
    /\ removed' = removed /\ dirs \subseteq dirs' /\ files \subseteq files'
    /\ \A p \in dirs' \cup files' :
          \/ p \in dirs \cup files
          \/ ~Outside(c) /\ Head(work[c]).do # "delete" /\ p \in Path /\ IsPrefix(p, Here(c))

(* The moves: a call begins, is thrown out of, replaces its first item,    *)
(* returns, and asks again at another location.                            *)
Begun(c) ==
    /\ status[c] \in {"idle", "thrown"}
    /\ status'[c] = "busy" /\ work'[c] = job[c].plan /\ refusal'[c] = "none"
    /\ UNCHANGED <<dirs, files, removed>>

Thrown(c) ==
    /\ status[c] = "busy" /\ work[c] # <<>>
    /\ status'[c] = "thrown" /\ work'[c] = <<>> /\ refusal'[c] \in Codes \cup {"none"}
    /\ refusal'[c] = "409" => Outside(c) \/ "409" \in Existing \cup AtLocation \/ Parent(Here(c)) \notin dirs
    /\ Shrunk \/ Grown(c)

Replaced(c, items) ==
    IF Head(work[c]).do = "tree" THEN Unfolds(Head(work[c]), items) ELSE items = <<>>

Went(c, items) ==
    /\ status[c] = "busy" /\ work[c] # <<>>
    /\ status'[c] = "busy" /\ work'[c] = items \o Tail(work[c]) /\ refusal'[c] = refusal[c]
    /\ Replaced(c, items)
    /\ Shrunk \/ Grown(c)
    /\ Head(work[c]).do \in {"mkcol", "tree"} => Outside(c) \/ Here(c) \in dirs'
    /\ Head(work[c]).do = "file" => Outside(c) \/ Here(c) \in files'

Finished(c) ==
    /\ status[c] = "busy" /\ work[c] = <<>>
    /\ status'[c] = "done" /\ work'[c] = <<>> /\ refusal'[c] = refusal[c]
    /\ UNCHANGED <<dirs, files, removed>>

Stayed(c) ==
    status'[c] = status[c] /\ work'[c] = work[c] /\ refusal'[c] = refusal[c]
    /\ UNCHANGED <<dirs, files, removed>>

(* No other client is changed.                                             *)
Alone(c) ==
    /\ status' = [status EXCEPT ![c] = status'[c]]
    /\ work' = [work EXCEPT ![c] = work'[c]]
    /\ refusal' = [refusal EXCEPT ![c] = refusal'[c]]
    /\ UNCHANGED job /\ faults' \in 0 .. MaxFaults /\ redirected' \in SUBSET Clients

Moved(c) ==
    /\ Alone(c)
    /\ Begun(c) \/ Thrown(c) \/ (\E items \in Seq(Items) : Went(c, items)) \/ Finished(c) \/ Stayed(c)

-----------------------------------------------------------------------------
(* The URI of the next item and the directories above it.                  *)
LEMMA HeadIsItem ==
    ASSUME Typed, NEW c \in Clients, work[c] # <<>>
    PROVE  /\ Head(work[c]) \in Items /\ Here(c) \in Path /\ IsPrefix(Here(c), Here(c))
           /\ \A p \in Above(Here(c)) : p \in Path /\ IsPrefix(p, Here(c))
<1>1. work[c] \in Seq(Items) /\ Head(work[c]) \in Items
  BY DEF Typed
<1>2. Here(c) \in Path
  BY <1>1 DEF Here, Items
<1> DEFINE h == Here(c)
<1> HIDE DEF h
<1>3. h \in Path /\ Len(h) \in Nat
  BY <1>2 DEF h, Path
<1>4. IsPrefix(h, h)
  BY <1>3, PrefixByElement DEF Path
<1>5. ASSUME NEW n \in 0 .. Len(h) - 1
      PROVE  SubSeq(h, 1, n) \in Path /\ IsPrefix(SubSeq(h, 1, n), h)
  <2>1. n \in 0 .. Len(h)
    BY <1>3
  <2> QED
    BY <1>3, <2>1, FirstPart, FirstIsPrefix DEF Path
<1>6. \A p \in Above(h) : p \in Path /\ IsPrefix(p, h)
  BY <1>5 DEF Above
<1> QED
  BY <1>1, <1>2, <1>4, <1>6 DEF h

(* MKCOL, answered or not, makes at most the directory it names.           *)
LEMMA MkColGrows ==
    ASSUME Typed, NEW c \in Clients, work[c] # <<>>, Head(work[c]).do \in {"mkcol", "tree"},
           NEW code \in MkColAnswers(c), dirs' = MkColDone(c, code),
           UNCHANGED <<files, removed>>
    PROVE  /\ Grown(c) /\ (code # "redirect" => code \in Codes)
           /\ code = "409" => Outside(c) \/ "409" \in Existing \cup AtLocation \/ Parent(Here(c)) \notin dirs
           /\ Accepts(code) => Outside(c) \/ Here(c) \in dirs'
<1>1. Here(c) \in Path /\ IsPrefix(Here(c), Here(c))
  BY HeadIsItem
<1>2. Grown(c)
  <2>1. Head(work[c]).do # "delete"
    OBVIOUS
  <2>2. dirs' = dirs \/ (~Outside(c) /\ dirs' = dirs \cup {Here(c)})
    BY Zenon DEF MkColDone
  <2> QED
    BY <1>1, <2>1, <2>2, Zenon DEF Grown
<1>3. Existing \subseteq Codes \cup {"redirect"} /\ AtLocation \subseteq Codes
  BY WebDavAssumption
<1>4. code # "redirect" => code \in Codes
  BY <1>3 DEF MkColAnswers, Codes
<1>5. code = "409" => Outside(c) \/ "409" \in Existing \cup AtLocation \/ Parent(Here(c)) \notin dirs
  BY DEF MkColAnswers
<1>6. Accepts(code) => Outside(c) \/ Here(c) \in dirs'
  BY DEF MkColAnswers, Accepts, MkColDone
<1> QED
  BY <1>2, <1>4, <1>5, <1>6

(* The upload of a file makes the file and the directories it is in.       *)
LEMMA PutGrows ==
    ASSUME Typed, NEW c \in Clients, work[c] # <<>>, Head(work[c]).do = "file", FileMade(c)
    PROVE  Grown(c) /\ Here(c) \in files'
<1>1. /\ Here(c) \in Path /\ IsPrefix(Here(c), Here(c))
      /\ \A p \in Above(Here(c)) : p \in Path /\ IsPrefix(p, Here(c))
  BY HeadIsItem
<1>2. /\ Head(work[c]).do # "delete" /\ ~Outside(c) /\ removed' = removed
      /\ files' = files \cup {Here(c)} /\ dirs' = dirs \cup Above(Here(c))
  BY DEF FileMade
<1> QED
  BY <1>1, <1>2, Zenon DEF Grown

(* A deletion takes away, and never the root.                              *)
LEMMA DeletionShrinks ==
    ASSUME Typed, NEW c \in Clients, work[c] # <<>>, DirectoryDeleted(c) \/ FileDeleted(c)
    PROVE  Shrunk
<1>1. <<>> \in dirs
  BY DEF Typed
<1>2. CASE DirectoryDeleted(c)
  <2>1. Here(c) \in Seq(Text) /\ Here(c) # <<>>
    BY <1>2, HeadIsItem DEF Path, DirectoryDeleted
  <2>2. Len(Here(c)) > 0 /\ Len(<<>>) = 0
    BY <2>1
  <2>3. ~Below(Here(c), <<>>)
    BY <2>2 DEF Below, IsPrefix
  <2> QED
    BY <1>1, <1>2, <2>3 DEF Shrunk, DirectoryDeleted
<1>3. CASE FileDeleted(c)
  BY <1>1, <1>3 DEF Shrunk, FileDeleted
<1> QED
  BY <1>2, <1>3

(* A request that the server did not do.                                   *)
LEMMA NothingGrows ==
    ASSUME NEW c \in Clients, UNCHANGED <<dirs, files, removed>>
    PROVE  Grown(c)
<1>1. removed' = removed /\ dirs' = dirs /\ files' = files
  OBVIOUS
<1> QED
  BY <1>1, Zenon DEF Grown

(* Every action of a client is one of its moves.                           *)
LEMMA ActionIsMove ==
    ASSUME Typed, NEW c \in Clients,
           Begin(c) \/ Proceed(c) \/ PutRefused(c) \/ FileFails(c) \/ RequestLost(c)
    PROVE  Moved(c)
<1>2. /\ job[c] \in Calls /\ work[c] \in Seq(Items) /\ DOMAIN work = Clients /\ DOMAIN status = Clients
      /\ DOMAIN refusal = Clients /\ faults \in 0 .. MaxFaults /\ MaxFaults \in Nat
      /\ refusal[c] \in Codes \cup {"none"} /\ <<>> \in dirs
      /\ status = [status EXCEPT ![c] = status[c]] /\ refusal = [refusal EXCEPT ![c] = refusal[c]]
      /\ work = [work EXCEPT ![c] = work[c]] /\ redirected \in SUBSET Clients
  BY WebDavAssumption DEF Typed
<1>3. \A code \in Codes \cup {"none"} : Throw(c, code) =>
         /\ status'[c] = "thrown" /\ work'[c] = <<>> /\ refusal'[c] = code
         /\ status' = [status EXCEPT ![c] = status'[c]] /\ work' = [work EXCEPT ![c] = work'[c]]
         /\ refusal' = [refusal EXCEPT ![c] = refusal'[c]] /\ redirected' \in SUBSET Clients
  BY <1>2 DEF Throw
<1>4. \A items \in Seq(Items) : Continue(c, items) =>
         /\ status'[c] = status[c] /\ work'[c] = items \o Tail(work[c]) /\ refusal'[c] = refusal[c]
         /\ status' = [status EXCEPT ![c] = status'[c]] /\ work' = [work EXCEPT ![c] = work'[c]]
         /\ refusal' = [refusal EXCEPT ![c] = refusal'[c]] /\ redirected' \in SUBSET Clients
  BY <1>2 DEF Continue
<1>5. "none" # "409" /\ {"409", "405", "403"} \subseteq Codes /\ <<>> \in Seq(Items)
  BY DEF Codes
<1>6. CASE Begin(c)
  <2>1. Begun(c) /\ Alone(c)
    BY <1>2, <1>6 DEF Begin, Begun, Alone
  <2> QED
    BY <2>1 DEF Moved
<1>7. CASE MakeDirectory(c)
  <2>1. /\ status[c] = "busy" /\ work[c] # <<>> /\ Head(work[c]).do \in {"mkcol", "tree"}
        /\ UNCHANGED <<files, removed>> /\ job' = job /\ faults' \in 0 .. MaxFaults
    BY <1>2, <1>7 DEF MakeDirectory, Doing
  <2>2. PICK code \in MkColAnswers(c) \ {"redirect"} :
           /\ dirs' = MkColDone(c, code)
           /\ IF ~Accepts(code) THEN Throw(c, code)
              ELSE IF Doing(c, "mkcol") THEN Continue(c, <<>>)
              ELSE \E items \in Contents(Head(work[c])) : Continue(c, items)
    BY <1>7 DEF MakeDirectory
  <2>3. /\ Grown(c) /\ code \in Codes
        /\ code = "409" => Outside(c) \/ "409" \in Existing \cup AtLocation \/ Parent(Here(c)) \notin dirs
        /\ Accepts(code) => Outside(c) \/ Here(c) \in dirs'
    BY <2>1, <2>2, MkColGrows
  <2>4. CASE ~Accepts(code)
    <3>1. Thrown(c) /\ Alone(c)
      BY <1>3, <2>1, <2>2, <2>3, <2>4 DEF Thrown, Alone
    <3> QED
      BY <3>1 DEF Moved
  <2>5. CASE Accepts(code) /\ Head(work[c]).do = "mkcol"
    <3>1. Continue(c, <<>>)
      BY <2>1, <2>2, <2>5 DEF Doing
    <3>2. Went(c, <<>>) /\ Alone(c)
      BY <1>4, <1>5, <2>1, <2>3, <2>5, <3>1 DEF Went, Alone, Replaced
    <3> QED
      BY <1>5, <3>2 DEF Moved
  <2>6. CASE Accepts(code) /\ Head(work[c]).do = "tree"
    <3>1. PICK items \in Contents(Head(work[c])) : Continue(c, items)
      BY <2>1, <2>2, <2>6 DEF Doing
    <3>2. Unfolds(Head(work[c]), items)
      BY <2>1, <2>6, HeadIsItem, ContentsUnfold
    <3>3. items \in Seq(Items)
      BY <3>2 DEF Unfolds
    <3>4. Went(c, items) /\ Alone(c)
      BY <1>4, <2>1, <2>3, <2>6, <3>1, <3>2, <3>3 DEF Went, Alone, Replaced
    <3> QED
      BY <3>3, <3>4 DEF Moved
  <2> QED
    BY <2>1, <2>4, <2>5, <2>6
<1>8. CASE PutFile(c)
  <2>1. /\ status[c] = "busy" /\ work[c] # <<>> /\ Head(work[c]).do = "file" /\ FileMade(c)
        /\ Continue(c, <<>>) /\ job' = job /\ faults' \in 0 .. MaxFaults
    BY <1>2, <1>8 DEF PutFile, Doing
  <2>2. Grown(c) /\ Here(c) \in files'
    BY <2>1, PutGrows
  <2>3. Went(c, <<>>) /\ Alone(c)
    BY <1>4, <1>5, <2>1, <2>2 DEF Went, Alone, Replaced
  <2> QED
    BY <1>5, <2>3 DEF Moved
<1>9. CASE DeleteDirectory(c)
  <2>1. /\ status[c] = "busy" /\ work[c] # <<>> /\ Head(work[c]).do = "delete"
        /\ Continue(c, <<>>) /\ job' = job /\ faults' \in 0 .. MaxFaults
    BY <1>2, <1>9 DEF DeleteDirectory, Deletes, Doing
  <2>2. Shrunk \/ Grown(c)
    BY <1>9, <2>1, NothingGrows, DeletionShrinks DEF DeleteDirectory
  <2>3. Went(c, <<>>) /\ Alone(c)
    BY <1>4, <1>5, <2>1, <2>2 DEF Went, Alone, Replaced
  <2> QED
    BY <1>5, <2>3 DEF Moved
<1>10. CASE DeleteFile(c)
  <2>1. /\ status[c] = "busy" /\ work[c] # <<>> /\ Head(work[c]).do = "delete"
        /\ job' = job /\ faults' \in 0 .. MaxFaults
    BY <1>2, <1>10 DEF DeleteFile, Deletes, Doing
  <2>2. CASE ~Outside(c) /\ Here(c) \in files
    <3>1. Continue(c, <<>>) /\ FileDeleted(c)
      BY <1>10, <2>2 DEF DeleteFile
    <3>2. Shrunk
      BY <2>1, <3>1, DeletionShrinks
    <3>3. Went(c, <<>>) /\ Alone(c)
      BY <1>4, <1>5, <2>1, <3>1, <3>2 DEF Went, Alone, Replaced
    <3> QED
      BY <1>5, <3>3 DEF Moved
  <2>3. CASE ~(~Outside(c) /\ Here(c) \in files)
    <3>1. PICK code \in {"none", "403"} : Throw(c, code) /\ UNCHANGED <<dirs, files, removed>>
      BY <1>10, <2>3 DEF DeleteFile
    <3>2. Grown(c)
      BY <2>1, <3>1, NothingGrows
    <3>3. Thrown(c) /\ Alone(c)
      BY <1>3, <1>5, <2>1, <3>1, <3>2 DEF Thrown, Alone
    <3> QED
      BY <3>3 DEF Moved
  <2> QED
    BY <2>2, <2>3
<1>11. CASE Finish(c)
  <2>1. Finished(c) /\ Alone(c)
    BY <1>2, <1>11 DEF Finish, Finished, Alone
  <2> QED
    BY <2>1 DEF Moved
<1>12. CASE PutRefused(c)
  <2>1. /\ status[c] = "busy" /\ work[c] # <<>>
        /\ UNCHANGED <<dirs, files, removed>> /\ job' = job /\ faults' \in 0 .. MaxFaults
    BY <1>2, <1>12 DEF PutRefused, Doing
  <2>2. PICK code \in {"409", "405", "403"} : Throw(c, code) /\ (code = "409" => Parent(Here(c)) \notin dirs)
    BY <1>12 DEF PutRefused
  <2>3. Thrown(c) /\ Alone(c)
    BY <1>3, <1>5, <2>1, <2>2, NothingGrows DEF Thrown, Alone
  <2> QED
    BY <2>3 DEF Moved
<1>13. CASE FileFails(c)
  <2>1. /\ status[c] = "busy" /\ work[c] # <<>> /\ Throw(c, "none")
        /\ UNCHANGED <<dirs, files, removed>> /\ job' = job
    BY <1>13 DEF FileFails, Doing
  <2>2. faults' \in 0 .. MaxFaults
    BY <1>2, <1>13 DEF FileFails, Fault
  <2>3. Thrown(c) /\ Alone(c)
    BY <1>3, <1>5, <2>1, <2>2, NothingGrows DEF Thrown, Alone
  <2> QED
    BY <2>3 DEF Moved
<1>14. CASE RequestLost(c)
  <2>1. status[c] = "busy" /\ work[c] # <<>> /\ Throw(c, "none") /\ job' = job
    BY <1>14 DEF RequestLost
  <2>2. faults' \in 0 .. MaxFaults
    BY <1>2, <1>14 DEF RequestLost, Fault
  <2>3. Shrunk \/ Grown(c)
    <3>1. CASE UNCHANGED <<dirs, files, removed>>
      BY <3>1, NothingGrows
    <3>2. CASE /\ Doing(c, "mkcol") \/ Doing(c, "tree")
               /\ \E code \in MkColAnswers(c) : dirs' = MkColDone(c, code)
               /\ UNCHANGED <<files, removed>>
      <4>1. Head(work[c]).do \in {"mkcol", "tree"}
        BY <3>2 DEF Doing
      <4>2. PICK code \in MkColAnswers(c) : dirs' = MkColDone(c, code)
        BY <3>2
      <4> QED
        BY <2>1, <3>2, <4>1, <4>2, MkColGrows
    <3>3. CASE Doing(c, "file") /\ FileMade(c)
      BY <2>1, <3>3, PutGrows DEF Doing
    <3>4. CASE DirectoryDeleted(c) \/ FileDeleted(c)
      BY <2>1, <3>4, DeletionShrinks
    <3> QED
      BY <1>14, <3>1, <3>2, <3>3, <3>4 DEF RequestLost
  <2>4. Thrown(c) /\ Alone(c)
    BY <1>3, <1>5, <2>1, <2>2, <2>3 DEF Thrown, Alone
  <2> QED
    BY <2>4 DEF Moved
<1>15. CASE FollowRedirect(c)
  <2>1. /\ redirected' = redirected \cup {c} /\ job' = job /\ faults' \in 0 .. MaxFaults
        /\ UNCHANGED <<dirs, files, removed, status, work, refusal>>
    BY <1>2, <1>15 DEF FollowRedirect
  <2>2. Stayed(c) /\ Alone(c)
    BY <1>2, <2>1 DEF Stayed, Alone
  <2> QED
    BY <2>2 DEF Moved
<1> QED
  BY <1>6, <1>7, <1>8, <1>9, <1>10, <1>11, <1>12, <1>13, <1>14, <1>15 DEF Proceed

(* So every step is a move of one client.                                  *)
LEMMA StepIsMove ==
    ASSUME Typed, Next
    PROVE  \E c \in Clients : Moved(c)
BY ActionIsMove DEF Next

(* v is items and then all of w but its first.                             *)
Followed(w, items, v) ==
    /\ v \in Seq(Items) /\ Len(v) = Len(items) + Len(w) - 1
    /\ \A i \in 1 .. Len(items) : i \in 1 .. Len(v) /\ v[i] = items[i]
    /\ \A i \in 2 .. Len(w) : Len(items) + i - 1 \in 1 .. Len(v) /\ v[Len(items) + i - 1] = w[i]
    /\ \A i \in 1 .. Len(v) : i \in 1 .. Len(items) \/ i - Len(items) + 1 \in 2 .. Len(w)

(* What is left to do after the first item is done: the items that replace *)
(* it, then the others in their order.                                     *)
LEMMA NextWork ==
    ASSUME NEW w \in Seq(Items), w # <<>>, NEW items \in Seq(Items)
    PROVE  Followed(w, items, items \o Tail(w))
<1> DEFINE t == Tail(w)
           v == items \o t
<1>1. t \in Seq(Items) /\ Len(t) = Len(w) - 1 /\ \A i \in 1 .. Len(w) - 1 : t[i] = w[i + 1]
  OBVIOUS
<1>2. Len(items) \in Nat /\ Len(w) \in Nat \ {0}
  OBVIOUS
<1> HIDE DEF t
<1>3. /\ v \in Seq(Items) /\ Len(v) = Len(items) + Len(t)
      /\ \A i \in 1 .. Len(items) + Len(t) : v[i] = IF i <= Len(items) THEN items[i] ELSE t[i - Len(items)]
  BY <1>1, ConcatProperties
<1> HIDE DEF v
<1>4. \A i \in 1 .. Len(items) : i \in 1 .. Len(v) /\ v[i] = items[i]
  BY <1>1, <1>2, <1>3
<1>5. ASSUME NEW i \in 2 .. Len(w)
      PROVE  Len(items) + i - 1 \in 1 .. Len(v) /\ v[Len(items) + i - 1] = w[i]
  <2> DEFINE k == Len(items) + i - 1
  <2>1. k \in 1 .. Len(items) + Len(t) /\ ~(k <= Len(items)) /\ k - Len(items) = i - 1 /\ i - 1 \in 1 .. Len(w) - 1
    BY <1>1, <1>2
  <2> HIDE DEF k
  <2>2. v[k] = t[i - 1]
    BY <1>3, <2>1
  <2>3. t[i - 1] = w[(i - 1) + 1] /\ (i - 1) + 1 = i
    BY <1>1, <2>1
  <2> QED
    BY <1>3, <2>1, <2>2, <2>3 DEF k
<1>6. ASSUME NEW i \in 1 .. Len(v)
      PROVE  i \in 1 .. Len(items) \/ i - Len(items) + 1 \in 2 .. Len(w)
  BY <1>1, <1>2, <1>3
<1> QED
  BY <1>1, <1>3, <1>4, <1>5, <1>6 DEF Followed, v, t

(* The call of each client is planned well.                                *)
LEMMA PlannedWell ==
    ASSUME Typed, NEW c \in Clients
    PROVE  WellPlanned(job[c])
BY CallsAreWellPlanned DEF Typed

-----------------------------------------------------------------------------
(* The types hold at first.                                                *)
LEMMA TypedInit == Init => Typed
<1> SUFFICES ASSUME Init PROVE Typed
  OBVIOUS
<1>1. <<>> \in Path /\ <<>> \in Seq(Items)
  BY DEF Path
<1>2. 0 \in 0 .. MaxFaults
  BY WebDavAssumption
<1> QED
  BY <1>1, <1>2 DEF Init, Typed

(* Every step keeps the types.                                             *)
LEMMA TypedStep == Typed /\ [Next]_vars => Typed'
<1> SUFFICES ASSUME Typed, [Next]_vars PROVE Typed'
  OBVIOUS
<1>1. CASE UNCHANGED vars
  BY <1>1 DEF Typed, vars
<1>2. CASE Next
  <2>1. PICK c \in Clients : Moved(c)
    BY <1>2, StepIsMove
  <2>2. Alone(c)
    BY <2>1 DEF Moved
  <2>3. job' \in [Clients -> Calls] /\ faults' \in 0 .. MaxFaults /\ redirected' \in SUBSET Clients
    BY <2>2 DEF Alone, Typed
  <2>4. /\ status'[c] \in {"idle", "busy", "done", "thrown"}
        /\ work'[c] \in Seq(Items) /\ refusal'[c] \in Codes \cup {"none"}
    <3>1. CASE Begun(c)
      <4>1. job[c].plan \in Seq(Items)
        BY PlannedWell DEF WellPlanned
      <4> QED
        BY <3>1, <4>1 DEF Begun
    <3>2. CASE Thrown(c)
      BY <3>2 DEF Thrown
    <3>3. CASE \E items \in Seq(Items) : Went(c, items)
      <4>1. PICK items \in Seq(Items) : Went(c, items)
        BY <3>3
      <4>2. work[c] \in Seq(Items) /\ work[c] # <<>> /\ refusal[c] \in Codes \cup {"none"}
        BY <4>1 DEF Went, Typed
      <4>3. items \o Tail(work[c]) \in Seq(Items)
        BY <4>2, NextWork DEF Followed
      <4> QED
        BY <4>1, <4>2, <4>3 DEF Went
    <3>4. CASE Finished(c) \/ Stayed(c)
      BY <3>4 DEF Finished, Stayed, Typed
    <3> QED
      BY <2>1, <3>1, <3>2, <3>3, <3>4 DEF Moved
  <2>5. /\ status' \in [Clients -> {"idle", "busy", "done", "thrown"}]
        /\ work' \in [Clients -> Seq(Items)] /\ refusal' \in [Clients -> Codes \cup {"none"}]
    BY <2>2, <2>4 DEF Alone, Typed
  <2>6. (Shrunk \/ Grown(c)) \/ UNCHANGED <<dirs, files, removed>>
    BY <2>1 DEF Moved, Begun, Thrown, Went, Finished, Stayed
  <2>7. dirs' \in SUBSET Path /\ <<>> \in dirs' /\ files' \in SUBSET Path /\ removed' \in BOOLEAN
    <3>1. CASE Shrunk
      BY <3>1 DEF Shrunk, Typed
    <3>2. CASE Grown(c)
      BY <3>2 DEF Grown, Typed
    <3>3. CASE UNCHANGED <<dirs, files, removed>>
      BY <3>3 DEF Typed
    <3> QED
      BY <2>6, <3>1, <3>2, <3>3
  <2> QED
    BY <2>3, <2>5, <2>7 DEF Typed
<1> QED
  BY <1>1, <1>2

(* They say more than TypeOK does.                                         *)
LEMMA TypedImpliesTypeOK == Typed => TypeOK
<1> SUFFICES ASSUME Typed PROVE TypeOK
  OBVIOUS
<1>1. Path = Seq(Seq(Symbols))
  BY DEF Path, Text
<1>2. ASSUME NEW c \in Clients
      PROVE  job[c].kind \in Kinds /\ job[c].things \subseteq Seq(Seq(Symbols))
  BY <1>1, PlannedWell DEF WellPlanned
<1>3. ASSUME NEW c \in Clients, NEW i \in DOMAIN work[c]
      PROVE  /\ work[c][i].do \in {"mkcol", "tree", "file", "delete"}
             /\ work[c][i].from \in LocalDirs \cup LocalFiles
  <2>1. work[c] \in Seq(Items)
    BY DEF Typed
  <2>2. work[c][i] \in Items
    BY <2>1
  <2> QED
    BY <2>2 DEF Items, Local
<1> QED
  BY <1>1, <1>2, <1>3 DEF Typed, TypeOK

(* The state of the controller and of its clients is well formed.          *)
THEOREM TypeCorrect == Spec => []TypeOK
<1>1. Spec => []Typed
  BY TypedInit, TypedStep, PTL DEF Spec
<1> QED
  BY <1>1, TypedImpliesTypeOK, PTL

-----------------------------------------------------------------------------
(* Every thing of a call is on the controller or will be left by an item   *)
(* that is still to do.                                                    *)
Held(c) ==
    /\ status[c] # "busy" => work[c] = <<>>
    /\ status[c] \in {"busy", "done"} /\ ~Outside(c) /\ ~UploadsNothing(c) /\ ~removed =>
          \A q \in job[c].things :
             q \in dirs \cup files \/ \E i \in 1 .. Len(work[c]) : q \in Cover(work[c][i])

Holds == \A c \in Clients : Held(c)

(* No step of another client takes away what an upload counts on.          *)
LEMMA HeldByOthers ==
    ASSUME Typed, Holds, NEW c \in Clients, Moved(c), NEW b \in Clients, b # c
    PROVE  Held(b)'
<1>1. /\ status'[b] = status[b] /\ work'[b] = work[b] /\ job' = job
  BY DEF Moved, Alone, Typed
<1>2. removed' \/ (removed' = removed /\ dirs \subseteq dirs' /\ files \subseteq files')
  BY DEF Moved, Begun, Thrown, Went, Finished, Stayed, Shrunk, Grown
<1>3. Outside(b)' = Outside(b) /\ UploadsNothing(b)' = UploadsNothing(b)
  BY <1>1 DEF Outside, UploadsNothing
<1>4. Held(b)
  BY DEF Holds
<1> QED
  BY <1>1, <1>2, <1>3, <1>4 DEF Held

(* Each step of an upload keeps what is done and what is left in balance.  *)
LEMMA HeldByMover ==
    ASSUME Typed, Holds, NEW c \in Clients, Moved(c)
    PROVE  Held(c)'
<1>1. job' = job /\ Outside(c)' = Outside(c) /\ UploadsNothing(c)' = UploadsNothing(c) /\ Held(c)
  BY DEF Moved, Alone, Outside, UploadsNothing, Holds
<1>2. CASE Begun(c)
  <2>1. ~UploadsNothing(c) =>
           \A q \in job[c].things : \E i \in 1 .. Len(job[c].plan) : q \in Cover(job[c].plan[i])
    BY PlannedWell DEF WellPlanned, Covers, UploadsNothing
  <2> QED
    BY <1>1, <1>2, <2>1 DEF Begun, Held
<1>3. CASE Thrown(c)
  BY <1>3 DEF Thrown, Held
<1>4. ASSUME NEW items \in Seq(Items), Went(c, items)
      PROVE  Held(c)'
  <2> DEFINE w == work[c]
             v == items \o Tail(w)
  <2>1. w \in Seq(Items) /\ w # <<>> /\ work'[c] = v /\ status'[c] = "busy" /\ status[c] = "busy"
    BY <1>4 DEF Went, Typed
  <2>2. Followed(w, items, v)
    BY <2>1, NextWork
  <2> HIDE DEF v
  <2> SUFFICES ASSUME ~Outside(c), ~UploadsNothing(c), ~removed', NEW q \in job[c].things, q \notin dirs' \cup files'
               PROVE  \E i \in 1 .. Len(v) : q \in Cover(v[i])
    BY <1>1, <2>1 DEF Held
  <2>3. removed' = removed /\ dirs \subseteq dirs' /\ files \subseteq files'
    BY <1>4 DEF Went, Shrunk, Grown
  <2>4. PICK i \in 1 .. Len(w) : q \in Cover(w[i])
    BY <1>1, <2>1, <2>3 DEF Held
  <2>5. CASE i = 1
    <3>1. q \in Cover(Head(w))
      BY <2>1, <2>4, <2>5
    <3>2. Head(w).do # "file"
      <4> SUFFICES ASSUME Head(w).do = "file" PROVE FALSE
        OBVIOUS
      <4>1. q = Here(c)
        BY <3>1 DEF Cover, Here
      <4> QED
        BY <1>4, <4>1 DEF Went
    <3>3. Head(w).do = "tree"
      BY <3>1, <3>2 DEF Cover
    <3>4. Unfolds(Head(w), items) /\ Here(c) \in dirs'
      BY <1>4, <3>3 DEF Went, Replaced
    <3>5. PICK k \in 1 .. Len(items) : q \in Cover(items[k])
      BY <3>1, <3>4 DEF Unfolds, Here
    <3> QED
      BY <2>2, <3>5 DEF Followed
  <2>6. CASE i # 1
    <3>1. i \in 2 .. Len(w)
      BY <2>1, <2>6
    <3> QED
      BY <2>2, <2>4, <3>1 DEF Followed
  <2> QED
    BY <2>5, <2>6
<1>5. CASE Finished(c)
  BY <1>1, <1>5 DEF Finished, Held
<1>6. CASE Stayed(c)
  BY <1>1, <1>6 DEF Stayed, Held
<1> QED
  BY <1>2, <1>3, <1>4, <1>5, <1>6 DEF Moved

LEMMA HoldsInit == Init => Holds
BY DEF Init, Holds, Held

LEMMA HoldsStep == Typed /\ Holds /\ [Next]_vars => Holds'
<1> SUFFICES ASSUME Typed, Holds, [Next]_vars PROVE Holds'
  OBVIOUS
<1>1. CASE UNCHANGED vars
  BY <1>1 DEF Holds, Held, Outside, UploadsNothing, vars
<1>2. CASE Next
  <2>1. PICK c \in Clients : Moved(c)
    BY <1>2, StepIsMove
  <2>2. \A b \in Clients : Held(b)'
    BY <2>1, HeldByMover, HeldByOthers
  <2> QED
    BY <2>2 DEF Holds
<1> QED
  BY <1>1, <1>2

(* An upload that returns has put all its things on the controller, if     *)
(* nothing was ever deleted: after any number of failed attempts and       *)
(* whatever other clients upload.  It says nothing of the SyncUpload that  *)
(* returns without uploading (lines 681-686).                              *)
THEOREM StoredOnSuccess == Spec => []SuccessMeansStored
<1>1. Holds => SuccessMeansStored
  BY DEF Holds, Held, SuccessMeansStored
<1> QED
  BY <1>1, HoldsInit, HoldsStep, TypedInit, TypedStep, PTL DEF Spec

-----------------------------------------------------------------------------
(* What an item may leave is on the way to one of the things of its call.  *)
Aims(x, call) ==
    /\ Cover(x) \subseteq call.things
    /\ x.do = "mkcol" => \E q \in call.things : IsPrefix(x.at, q)
    /\ x.do = "delete" => x.at \in call.targets

Aimed == \A c \in Clients : \A i \in 1 .. Len(work[c]) : Aims(work[c][i], job[c])

(* The URI of the next item is on the way to a thing of its call.          *)
LEMMA HeadAims ==
    ASSUME Typed, Aimed, NEW c \in Clients, work[c] # <<>>, Head(work[c]).do # "delete"
    PROVE  \E q \in job[c].things : q \in Path /\ IsPrefix(Here(c), q)
<1>1. work[c] \in Seq(Items) /\ 1 \in 1 .. Len(work[c]) /\ work[c][1] = Head(work[c])
  BY DEF Typed
<1>2. Aims(Head(work[c]), job[c])
  BY <1>1 DEF Aimed
<1>3. Head(work[c]) \in Items /\ IsPrefix(Here(c), Here(c)) /\ Here(c) \in Path
  BY HeadIsItem
<1>4. job[c].things \in SUBSET Path
  BY PlannedWell DEF WellPlanned
<1>5. CASE Head(work[c]).do = "mkcol"
  BY <1>2, <1>4, <1>5 DEF Aims, Here
<1>6. CASE Head(work[c]).do # "mkcol"
  <2>1. Head(work[c]).do \in {"tree", "file"}
    BY <1>3, <1>6 DEF Items
  <2>2. Here(c) \in Cover(Head(work[c]))
    BY <1>3, <2>1, ItemAndCover DEF Here
  <2> QED
    BY <1>2, <1>3, <2>2 DEF Aims
<1> QED
  BY <1>5, <1>6

(* Every step keeps the aims, the listing of a directory among them.       *)
LEMMA AimedStep == Typed /\ Aimed /\ [Next]_vars => Aimed'
<1> SUFFICES ASSUME Typed, Aimed, [Next]_vars PROVE Aimed'
  OBVIOUS
<1>1. CASE UNCHANGED vars
  BY <1>1 DEF Aimed, vars
<1>2. CASE Next
  <2>1. PICK c \in Clients : Moved(c)
    BY <1>2, StepIsMove
  <2>2. job' = job
    BY <2>1 DEF Moved, Alone
  <2>3. ASSUME NEW b \in Clients, b # c
        PROVE  \A i \in 1 .. Len(work'[b]) : Aims(work'[b][i], job[b])
    <3>1. work'[b] = work[b]
      BY <2>1, <2>3 DEF Moved, Alone, Typed
    <3> QED
      BY <3>1 DEF Aimed
  <2>4. \A i \in 1 .. Len(work'[c]) : Aims(work'[c][i], job[c])
    <3>1. CASE Begun(c)
      <4>1. WellPlanned(job[c])
        BY PlannedWell
      <4> QED
        BY <3>1, <4>1 DEF Begun, WellPlanned, Covers, OnTheWay, OnTarget, Aims
    <3>2. CASE Thrown(c) \/ Finished(c)
      BY <3>2 DEF Thrown, Finished
    <3>3. ASSUME NEW items \in Seq(Items), Went(c, items)
          PROVE  \A i \in 1 .. Len(work'[c]) : Aims(work'[c][i], job[c])
      <4> DEFINE w == work[c]
                 v == items \o Tail(w)
      <4>1. w \in Seq(Items) /\ w # <<>> /\ work'[c] = v
        BY <3>3 DEF Went, Typed
      <4>2. Followed(w, items, v)
        BY <4>1, NextWork
      <4>3. \A i \in 1 .. Len(w) : Aims(w[i], job[c])
        BY DEF Aimed
      <4>4. \A i \in 1 .. Len(items) : Aims(items[i], job[c])
        <5>1. CASE Head(w).do = "tree"
          <6>1. Unfolds(Head(w), items)
            BY <3>3, <5>1 DEF Went, Replaced
          <6>2. Aims(Head(w), job[c])
            <7>1. 1 \in 1 .. Len(w) /\ w[1] = Head(w)
              BY <4>1
            <7> QED
              BY <4>3, <7>1
          <6> QED
            BY <6>1, <6>2 DEF Unfolds, Aims
        <5>2. CASE Head(w).do # "tree"
          BY <3>3, <5>2 DEF Went, Replaced
        <5> QED
          BY <5>1, <5>2
      <4> HIDE DEF v, w
      <4>5. ASSUME NEW i \in 1 .. Len(v)
            PROVE  Aims(v[i], job[c])
        <5>1. CASE i \in 1 .. Len(items)
          BY <4>2, <4>4, <5>1 DEF Followed
        <5>2. CASE i \notin 1 .. Len(items)
          <6> DEFINE k == i - Len(items) + 1
          <6>1. k \in 2 .. Len(w) /\ Len(items) + k - 1 = i
            BY <4>2, <5>2 DEF Followed
          <6>2. v[i] = w[k] /\ k \in 1 .. Len(w)
            BY <4>2, <6>1 DEF Followed
          <6> QED
            BY <4>3, <6>2
        <5> QED
          BY <5>1, <5>2
      <4> QED
        BY <4>1, <4>5
    <3>4. CASE Stayed(c)
      BY <3>4 DEF Stayed, Aimed
    <3> QED
      BY <2>1, <3>1, <3>2, <3>3, <3>4 DEF Moved
  <2> QED
    BY <2>2, <2>3, <2>4 DEF Aimed
<1> QED
  BY <1>1, <1>2

(* No step leaves anything else.                                           *)
LEMMA NothingElsewhereStep ==
    Typed /\ Aimed /\ NothingElsewhere /\ [Next]_vars => NothingElsewhere'
<1> SUFFICES ASSUME Typed, Aimed, NothingElsewhere, [Next]_vars PROVE NothingElsewhere'
  OBVIOUS
<1>1. CASE UNCHANGED vars
  BY <1>1 DEF NothingElsewhere, Outside, vars
<1>2. CASE Next
  <2>1. PICK c \in Clients : Moved(c)
    BY <1>2, StepIsMove
  <2>2. job' = job
    BY <2>1 DEF Moved, Alone
  <2> SUFFICES ASSUME NEW p \in dirs' \cup files', p # <<>>
               PROVE  \E b \in Clients : ~Outside(b) /\ \E q \in job[b].things : IsPrefix(p, q)
    BY <2>2 DEF NothingElsewhere, Outside
  <2>3. CASE p \in dirs \cup files
    BY <2>3 DEF NothingElsewhere
  <2>4. CASE p \notin dirs \cup files
    <3>1. /\ work[c] # <<>> /\ ~Outside(c) /\ Head(work[c]).do # "delete"
          /\ p \in Path /\ IsPrefix(p, Here(c))
      BY <2>1, <2>4 DEF Moved, Begun, Thrown, Went, Finished, Stayed, Shrunk, Grown
    <3>2. PICK q \in job[c].things : q \in Path /\ IsPrefix(Here(c), q)
      BY <3>1, HeadAims
    <3>3. IsPrefix(p, q)
      BY <3>1, <3>2, HeadIsItem, PrefixOfPrefix
    <3> QED
      BY <3>1, <3>3
  <2> QED
    BY <2>3, <2>4
<1> QED
  BY <1>1, <1>2

LEMMA AimedInit == Init => Aimed
BY DEF Init, Aimed

(* Whatever is on the controller is a thing of some call or a directory on *)
(* the way to one, even after uploads that failed half-way.  The thing of  *)
(* an upload to the endpoint itself is the file "unused" (line 1972).      *)
THEOREM OnlyOwnThings == Spec => []NothingElsewhere
<1>1. Init => NothingElsewhere
  BY DEF Init, NothingElsewhere
<1> QED
  BY <1>1, AimedInit, AimedStep, NothingElsewhereStep, TypedInit, TypedStep, PTL DEF Spec

-----------------------------------------------------------------------------
(* The directory an item goes in is there, or an item before it makes it.  *)
MadeFor(w, i) ==
    \/ Parent(w[i].at) \in dirs
    \/ \E k \in 1 .. i - 1 : w[k].do \in {"mkcol", "tree"} /\ w[k].at = Parent(w[i].at)

Prepared(c) ==
    Ensures(c) /\ ~removed =>
        /\ refusal[c] # "409"
        /\ \A i \in 1 .. Len(work[c]) : MadeFor(work[c], i)

AllPrepared == \A c \in Clients : Prepared(c)

(* Every step keeps the order of the directories.                          *)
LEMMA PreparedStep ==
    ASSUME "409" \notin Existing \cup AtLocation, Typed, AllPrepared, [Next]_vars
    PROVE  AllPrepared'
<1>1. CASE UNCHANGED vars
  BY <1>1 DEF AllPrepared, Prepared, MadeFor, Ensures, vars
<1>2. CASE Next
  <2>1. PICK c \in Clients : Moved(c)
    BY <1>2, StepIsMove
  <2>2. job' = job
    BY <2>1 DEF Moved, Alone
  <2>3. removed' \/ (removed' = removed /\ dirs \subseteq dirs')
    BY <2>1 DEF Moved, Begun, Thrown, Went, Finished, Stayed, Shrunk, Grown
  <2>4. ASSUME NEW b \in Clients, b # c
        PROVE  Prepared(b)'
    <3>1. work'[b] = work[b] /\ refusal'[b] = refusal[b] /\ Ensures(b)' = Ensures(b)
      BY <2>1, <2>2, <2>4 DEF Moved, Alone, Typed, Ensures
    <3>2. Prepared(b)
      BY DEF AllPrepared
    <3> QED
      BY <2>3, <3>1, <3>2 DEF Prepared, MadeFor
  <2>5. Prepared(c)'
    <3>1. Ensures(c)' = Ensures(c) /\ Prepared(c)
      BY <2>2 DEF Ensures, AllPrepared
    <3> SUFFICES ASSUME Ensures(c), ~removed'
                 PROVE  /\ refusal'[c] # "409"
                        /\ \A i \in 1 .. Len(work'[c]) : MadeFor(work[c], i)'
      BY <3>1 DEF Prepared
    <3>2. removed' = removed /\ dirs \subseteq dirs'
      BY <2>3
    <3>3. refusal[c] # "409" /\ \A i \in 1 .. Len(work[c]) : MadeFor(work[c], i)
      BY <3>1, <3>2 DEF Prepared
    <3>4. ~Outside(c) /\ job[c].kind \in SyncKinds /\ job[c].form = "mujin"
      BY DEF Ensures, Outside
    <3>5. CASE Begun(c)
      <4>1. WellPlanned(job[c]) /\ <<>> \in dirs
        BY PlannedWell DEF Typed
      <4> QED
        BY <3>2, <3>4, <3>5, <4>1 DEF Begun, WellPlanned, MadeBefore, MadeFor
    <3>6. CASE Thrown(c)
      <4>1. work[c] \in Seq(Items) /\ work[c] # <<>>
        BY <3>6 DEF Thrown, Typed
      <4>2. Parent(Here(c)) \in dirs
        <5>1. 1 \in 1 .. Len(work[c]) /\ work[c][1] = Head(work[c]) /\ 1 .. 1 - 1 = {}
          BY <4>1
        <5>2. MadeFor(work[c], 1)
          BY <3>3, <5>1
        <5> QED
          BY <5>1, <5>2 DEF MadeFor, Here
      <4> QED
        BY <3>4, <3>6, <4>2 DEF Thrown
    <3>7. ASSUME NEW items \in Seq(Items), Went(c, items)
          PROVE  /\ refusal'[c] # "409"
                 /\ \A i \in 1 .. Len(work'[c]) : MadeFor(work[c], i)'
      <4> DEFINE w == work[c]
                 v == items \o Tail(w)
                 n == Len(items)
      <4>1. w \in Seq(Items) /\ w # <<>> /\ work'[c] = v /\ refusal'[c] = refusal[c]
        BY <3>7 DEF Went, Typed
      <4>2. Followed(w, items, v) /\ n \in Nat /\ Head(w) = w[1] /\ Len(w) \in Nat
        BY <4>1, NextWork
      <4>3. \A i \in 1 .. Len(w) : MadeFor(w, i)
        BY <3>3
      <4>4. Head(w).do \in {"mkcol", "tree"} => w[1].at \in dirs'
        BY <3>4, <3>7, <4>2 DEF Went, Here
      <4>5. \A i \in 1 .. n : Parent(items[i].at) = w[1].at /\ w[1].at \in dirs'
        <5>1. CASE Head(w).do = "tree"
          <6>1. Unfolds(Head(w), items)
            BY <3>7, <5>1 DEF Went, Replaced
          <6> QED
            BY <4>2, <4>4, <5>1, <6>1 DEF Unfolds
        <5>2. CASE Head(w).do # "tree"
          BY <3>7, <5>2 DEF Went, Replaced
        <5> QED
          BY <5>1, <5>2
      <4> HIDE DEF v, w, n
      <4>6. ASSUME NEW i \in 1 .. Len(v)
            PROVE  \/ Parent(v[i].at) \in dirs'
                   \/ \E k \in 1 .. i - 1 : v[k].do \in {"mkcol", "tree"} /\ v[k].at = Parent(v[i].at)
        <5>1. CASE i \in 1 .. n
          BY <4>2, <4>5, <5>1 DEF Followed, n
        <5>2. CASE i \notin 1 .. n
          <6> DEFINE m == i - n + 1
          <6>1. m \in 2 .. Len(w) /\ n + m - 1 = i /\ m \in 1 .. Len(w)
            BY <4>2, <5>2 DEF Followed, n
          <6> HIDE DEF m
          <6>2. v[i] = w[m]
            BY <4>2, <6>1 DEF Followed, n
          <6>3. CASE Parent(w[m].at) \in dirs
            BY <3>2, <6>2, <6>3
          <6>4. CASE \E k \in 1 .. m - 1 : w[k].do \in {"mkcol", "tree"} /\ w[k].at = Parent(w[m].at)
            <7>1. PICK k \in 1 .. m - 1 : w[k].do \in {"mkcol", "tree"} /\ w[k].at = Parent(w[m].at)
              BY <6>4
            <7>2. CASE k = 1
              <8>1. w[1].do \in {"mkcol", "tree"} /\ w[1].at = Parent(v[i].at)
                BY <6>2, <7>1, <7>2
              <8> QED
                BY <4>2, <4>4, <8>1
            <7>3. CASE k # 1
              <8>0. k \in 2 .. Len(w)
                BY <4>2, <6>1, <7>1, <7>3
              <8>1. k \in 2 .. Len(w) /\ n + k - 1 \in 1 .. i - 1
                BY <4>2, <6>1, <7>1, <8>0
              <8>2. v[n + k - 1] = w[k]
                BY <4>2, <8>1 DEF Followed, n
              <8> QED
                BY <6>2, <7>1, <8>1, <8>2
            <7> QED
              BY <7>2, <7>3
          <6> QED
            BY <4>3, <6>1, <6>3, <6>4 DEF MadeFor
        <5> QED
          BY <5>1, <5>2
      <4> QED
        BY <3>3, <4>1, <4>6 DEF MadeFor
    <3>8. CASE Finished(c)
      BY <3>3, <3>8 DEF Finished
    <3>9. CASE Stayed(c)
      <4>1. work'[c] = work[c] /\ dirs' = dirs /\ refusal'[c] = refusal[c]
        BY <3>9 DEF Stayed
      <4> QED
        BY <3>3, <4>1 DEF MadeFor
    <3> QED
      BY <2>1, <3>5, <3>6, <3>7, <3>8, <3>9 DEF Moved
  <2> QED
    BY <2>4, <2>5 DEF AllPrepared
<1> QED
  BY <1>1, <1>2

(* SyncUpload is never told that a directory is missing (409), unless      *)
(* something was deleted: it makes each under the very name it then uses.  *)
(* A server that answers 409 to MKCOL of what exists, at once or where it  *)
(* redirects, would say so without one missing; the theorem leaves it out. *)
THEOREM DirectoriesAreEnsured ==
    ASSUME "409" \notin Existing \cup AtLocation
    PROVE  Spec => []EnsuredDirectoriesAreUsed
<1>1. Init => AllPrepared
  BY DEF Init, AllPrepared, Prepared
<1>2. Typed /\ AllPrepared /\ [Next]_vars => AllPrepared'
  BY PreparedStep
<1>3. AllPrepared => EnsuredDirectoriesAreUsed
  BY DEF AllPrepared, Prepared, EnsuredDirectoriesAreUsed
<1> QED
  BY <1>1, <1>2, <1>3, TypedInit, TypedStep, PTL DEF Spec

-----------------------------------------------------------------------------
(* The tree                                                                *)

(* The directories above a path are the paths it begins with.              *)
LEMMA AboveIs ==
    ASSUME NEW p \in Path, NEW q
    PROVE  q \in Above(p) <=> q \in Path /\ IsPrefix(q, p) /\ q # p
<1>1. p \in Seq(Text) /\ Len(p) \in Nat
  BY DEF Path
<1>2. ASSUME q \in Above(p)
      PROVE  q \in Path /\ IsPrefix(q, p) /\ q # p
  <2>1. PICK n \in 0 .. Len(p) - 1 : q = SubSeq(p, 1, n)
    BY <1>2 DEF Above
  <2>2. n \in 0 .. Len(p) /\ n # Len(p)
    BY <1>1
  <2>3. q \in Seq(Text) /\ Len(q) = n
    BY <1>1, <2>1, <2>2, FirstPart
  <2>4. IsPrefix(q, p)
    BY <2>1, <2>2, FirstIsPrefix
  <2> QED
    BY <2>2, <2>3, <2>4 DEF Path
<1>3. ASSUME q \in Path, IsPrefix(q, p), q # p
      PROVE  q \in Above(p)
  <2>1. q \in Seq(Text) /\ Len(q) \in Nat
    BY <1>3 DEF Path
  <2>2. Len(q) <= Len(p) /\ \A i \in 1 .. Len(q) : q[i] = p[i]
    BY <1>1, <1>3, <2>1, PrefixByElement
  <2>3. Len(q) # Len(p)
    BY <1>1, <1>3, <2>1, <2>2, SeqEqual
  <2>4. Len(q) \in 0 .. Len(p) /\ Len(q) \in 0 .. Len(p) - 1
    BY <1>1, <2>1, <2>2, <2>3
  <2> DEFINE f == SubSeq(p, 1, Len(q))
  <2>5. f \in Seq(Text) /\ Len(f) = Len(q) /\ \A i \in 1 .. Len(q) : f[i] = p[i]
    BY <1>1, <2>4, FirstPart
  <2> HIDE DEF f
  <2>6. q = f
    BY <2>1, <2>2, <2>5, SeqEqual
  <2> QED
    BY <2>4, <2>6 DEF Above, f
<1> QED
  BY <1>2, <1>3

LEMMA SamePrefix ==
    ASSUME NEW p \in Path, NEW q \in Path, IsPrefix(p, q), IsPrefix(q, p)
    PROVE  p = q
<1>1. p \in Seq(Text) /\ q \in Seq(Text) /\ Len(p) \in Nat /\ Len(q) \in Nat
  BY DEF Path
<1>2. Len(p) <= Len(q) /\ Len(q) <= Len(p) /\ \A i \in 1 .. Len(p) : p[i] = q[i]
  BY <1>1, PrefixByElement
<1>3. Len(p) = Len(q)
  BY <1>1, <1>2
<1> QED
  BY <1>1, <1>2, <1>3, SeqEqual

LEMMA AboveAbove ==
    ASSUME NEW p \in Path, NEW q \in Above(p)
    PROVE  Above(q) \subseteq Above(p)
<1>1. q \in Path /\ IsPrefix(q, p) /\ q # p
  BY AboveIs
<1> SUFFICES ASSUME NEW r \in Above(q)
             PROVE  r \in Above(p)
  OBVIOUS
<1>2. r \in Path /\ IsPrefix(r, q)
  BY <1>1, AboveIs
<1>3. IsPrefix(r, p)
  BY <1>1, <1>2, PrefixOfPrefix
<1>4. r # p
  BY <1>1, <1>2, SamePrefix
<1> QED
  BY <1>2, <1>3, <1>4, AboveIs

LEMMA AboveParent ==
    ASSUME NEW p \in Path, p # <<>>
    PROVE  Above(p) \subseteq Above(Parent(p)) \cup {Parent(p)}
<1> DEFINE m == Len(p) - 1
<1>1. p \in Seq(Text) /\ Len(p) \in Nat /\ m \in 0 .. Len(p) /\ m + 1 = Len(p) /\ Len(p) \in 1 .. Len(p)
  BY DEF Path
<1>2. SubSeq(p, 1, Len(p)) = p
  BY <1>1, SubSeqFull
<1>3. Parent(p) = SubSeq(p, 1, m)
  BY <1>1, <1>2, FirstParent
<1>4. /\ Parent(p) \in Seq(Text) /\ Len(Parent(p)) = m
      /\ \A i \in 1 .. m : Parent(p)[i] = p[i]
  BY <1>1, <1>3, FirstPart
<1> HIDE DEF m
<1> SUFFICES ASSUME NEW q \in Above(p), q # Parent(p)
             PROVE  q \in Above(Parent(p))
  OBVIOUS
<1>5. q \in Path /\ IsPrefix(q, p) /\ q # p
  BY AboveIs
<1>6. q \in Seq(Text) /\ Len(q) \in Nat
  BY <1>5 DEF Path
<1>7. Len(q) <= Len(p) /\ \A i \in 1 .. Len(q) : q[i] = p[i]
  BY <1>1, <1>5, <1>6, PrefixByElement
<1>8. Len(q) # Len(p)
  BY <1>1, <1>5, <1>6, <1>7, SeqEqual
<1>9. Len(q) <= m /\ \A i \in 1 .. Len(q) : i \in 1 .. m
  BY <1>1, <1>6, <1>7, <1>8
<1>10. IsPrefix(q, Parent(p))
  BY <1>4, <1>6, <1>7, <1>9, PrefixByElement
<1> QED
  BY <1>4, <1>5, <1>10, AboveIs DEF Path

(* The file system is a tree of directories, with files in them.           *)
Treelike == dirs \cap files = {} /\ \A p \in dirs \cup files : Above(p) \subseteq dirs

(* What a step does to it: nothing, or what one request of c asks for.     *)
Made(c) ==
    /\ work[c] # <<>> /\ Head(work[c]).do \in {"mkcol", "tree"} /\ ~Outside(c)
    /\ Here(c) \notin dirs \cup files /\ Parent(Here(c)) \in dirs
    /\ dirs' = dirs \cup {Here(c)} /\ UNCHANGED <<files, removed>>

Changed(c) ==
    \/ UNCHANGED <<dirs, files, removed>>
    \/ Made(c)
    \/ work[c] # <<>> /\ Head(work[c]).do = "file" /\ FileMade(c)
    \/ work[c] # <<>> /\ Head(work[c]).do = "delete" /\ (DirectoryDeleted(c) \/ FileDeleted(c))

LEMMA MkColChanges ==
    ASSUME NEW c \in Clients, Doing(c, "mkcol") \/ Doing(c, "tree"),
           NEW code \in MkColAnswers(c), dirs' = MkColDone(c, code), UNCHANGED <<files, removed>>
    PROVE  Changed(c)
<1>1. CASE code = "201" /\ ~Outside(c) /\ Here(c) \notin dirs
  <2>1. Here(c) \notin files /\ Parent(Here(c)) \in dirs
    BY <1>1 DEF MkColAnswers
  <2>2. dirs' = dirs \cup {Here(c)}
    BY <1>1 DEF MkColDone
  <2>3. Made(c)
    BY <1>1, <2>1, <2>2 DEF Made, Doing
  <2> QED
    BY <2>3 DEF Changed
<1>2. CASE ~(code = "201" /\ ~Outside(c) /\ Here(c) \notin dirs)
  <2>1. dirs' = dirs
    BY <1>2 DEF MkColDone
  <2> QED
    BY <2>1 DEF Changed
<1> QED
  BY <1>1, <1>2

LEMMA StepChanges ==
    ASSUME NEW c \in Clients,
           Begin(c) \/ Proceed(c) \/ PutRefused(c) \/ FileFails(c) \/ RequestLost(c)
    PROVE  Changed(c)
<1>1. CASE Begin(c) \/ Finish(c) \/ FollowRedirect(c) \/ PutRefused(c) \/ FileFails(c)
  BY <1>1 DEF Begin, Finish, FollowRedirect, PutRefused, FileFails, Changed
<1>2. CASE MakeDirectory(c)
  <2>1. PICK code \in MkColAnswers(c) : dirs' = MkColDone(c, code)
    BY <1>2 DEF MakeDirectory
  <2> QED
    BY <1>2, <2>1, MkColChanges DEF MakeDirectory
<1>3. CASE PutFile(c)
  BY <1>3 DEF PutFile, Doing, Changed
<1>4. CASE DeleteDirectory(c)
  BY <1>4 DEF DeleteDirectory, Deletes, Doing, Changed
<1>5. CASE DeleteFile(c)
  BY <1>5 DEF DeleteFile, Deletes, Doing, Changed
<1>6. CASE RequestLost(c)
  <2>1. CASE UNCHANGED <<dirs, files, removed>>
    BY <2>1 DEF Changed
  <2>2. CASE /\ Doing(c, "mkcol") \/ Doing(c, "tree")
             /\ \E code \in MkColAnswers(c) : dirs' = MkColDone(c, code)
             /\ UNCHANGED <<files, removed>>
    BY <2>2, MkColChanges
  <2>3. CASE Doing(c, "file") /\ FileMade(c)
    BY <2>3 DEF Doing, Changed
  <2>4. CASE \/ Deletes(c, "deleteDirectory") /\ DirectoryDeleted(c)
             \/ Deletes(c, "deleteFile") /\ FileDeleted(c)
    BY <2>4 DEF Deletes, Doing, Changed
  <2> QED
    BY <1>6, <2>1, <2>2, <2>3, <2>4 DEF RequestLost
<1> QED
  BY <1>1, <1>2, <1>3, <1>4, <1>5, <1>6 DEF Proceed

(* It stays a tree, whatever is made, put, or deleted with what is below.  *)
LEMMA TreeKept ==
    ASSUME Typed, Treelike, NEW c \in Clients, Changed(c)
    PROVE  Treelike'
<1>1. CASE UNCHANGED <<dirs, files, removed>>
  BY <1>1 DEF Treelike
<1>2. CASE Made(c)
  <2>1. Here(c) \in Path /\ Here(c) # <<>>
    BY <1>2, HeadIsItem DEF Made, Typed
  <2>2. Above(Here(c)) \subseteq dirs
    <3>1. Above(Parent(Here(c))) \subseteq dirs /\ Parent(Here(c)) \in dirs
      BY <1>2 DEF Made, Treelike
    <3> QED
      BY <2>1, <3>1, AboveParent
  <2> QED
    BY <1>2, <2>2 DEF Made, Treelike
<1>3. CASE work[c] # <<>> /\ FileMade(c)
  <2>1. Here(c) \in Path
    BY <1>3, HeadIsItem
  <2>2. \A q \in Above(Here(c)) : Above(q) \subseteq Above(Here(c)) /\ q # Here(c)
    BY <2>1, AboveAbove, AboveIs
  <2>3. dirs' \cap files' = {}
    BY <1>3, <2>2 DEF FileMade, Treelike
  <2>4. ASSUME NEW p \in dirs' \cup files'
        PROVE  Above(p) \subseteq dirs'
    <3>1. p \in dirs \cup files \/ p = Here(c) \/ p \in Above(Here(c))
      BY <1>3, <2>4 DEF FileMade
    <3> QED
      BY <1>3, <2>2, <3>1 DEF FileMade, Treelike
  <2> QED
    BY <2>3, <2>4 DEF Treelike
<1>4. CASE work[c] # <<>> /\ DirectoryDeleted(c)
  <2>1. Here(c) \in Path
    BY <1>4, HeadIsItem
  <2>2. ASSUME NEW p \in dirs' \cup files', NEW q \in Above(p)
        PROVE  q \in dirs'
    <3>1. p \in dirs \cup files /\ ~IsPrefix(Here(c), p)
      BY <1>4, <2>2 DEF DirectoryDeleted, Below
    <3>2. p \in Path /\ q \in dirs /\ q \in Path /\ IsPrefix(q, p)
      BY <2>2, <3>1, AboveIs DEF Typed, Treelike
    <3>3. ~IsPrefix(Here(c), q)
      BY <2>1, <3>1, <3>2, PrefixOfPrefix
    <3> QED
      BY <1>4, <3>2, <3>3 DEF DirectoryDeleted, Below
  <2>3. dirs' \cap files' = {}
    BY <1>4 DEF DirectoryDeleted, Treelike
  <2> QED
    BY <2>2, <2>3 DEF Treelike
<1>5. CASE FileDeleted(c)
  BY <1>5 DEF FileDeleted, Treelike
<1> QED
  BY <1>1, <1>2, <1>3, <1>4, <1>5 DEF Changed

LEMMA TreeInit == Init => Treelike
<1> SUFFICES ASSUME Init PROVE Treelike
  OBVIOUS
<1>1. <<>> \in Path /\ dirs = {<<>>} /\ files = {}
  BY DEF Init, Path
<1>2. Above(<<>>) = {}
  BY DEF Above
<1> QED
  BY <1>1, <1>2 DEF Treelike

LEMMA TreeStep == Typed /\ Treelike /\ [Next]_vars => Treelike'
<1> SUFFICES ASSUME Typed, Treelike, [Next]_vars PROVE Treelike'
  OBVIOUS
<1>1. CASE UNCHANGED vars
  BY <1>1 DEF Treelike, vars
<1>2. CASE Next
  <2>1. PICK c \in Clients : Begin(c) \/ Proceed(c) \/ PutRefused(c) \/ FileFails(c) \/ RequestLost(c)
    BY <1>2 DEF Next
  <2> QED
    BY <2>1, StepChanges, TreeKept
<1> QED
  BY <1>1, <1>2

-----------------------------------------------------------------------------
(* The tree of FileStore                                                   *)

(* The first names of the first names.                                     *)
LEMMA FirstOfFirst ==
    ASSUME NEW p \in Path, NEW n \in 0 .. Len(p), NEW k \in 0 .. n
    PROVE  SubSeq(SubSeq(p, 1, n), 1, k) = SubSeq(p, 1, k)
<1> DEFINE h == SubSeq(p, 1, n)
<1>1. p \in Seq(Text) /\ Len(p) \in Nat /\ k \in 0 .. Len(p) /\ \A i \in 1 .. k : i \in 1 .. n
  BY DEF Path
<1>2. h \in Seq(Text) /\ Len(h) = n /\ \A i \in 1 .. n : h[i] = p[i]
  BY <1>1, FirstPart
<1> HIDE DEF h
<1>3. SubSeq(h, 1, k) \in Seq(Text) /\ Len(SubSeq(h, 1, k)) = k /\ \A i \in 1 .. k : SubSeq(h, 1, k)[i] = h[i]
  BY <1>2, FirstPart
<1>4. SubSeq(p, 1, k) \in Seq(Text) /\ Len(SubSeq(p, 1, k)) = k /\ \A i \in 1 .. k : SubSeq(p, 1, k)[i] = p[i]
  BY <1>1, FirstPart
<1>5. SubSeq(h, 1, k) = SubSeq(p, 1, k)
  BY <1>1, <1>2, <1>3, <1>4, SeqEqual
<1> QED
  BY <1>5 DEF h

(* What is on the way to the first n names of p.                           *)
LEMMA WayTo ==
    ASSUME NEW p \in Path, NEW n \in 0 .. Len(p)
    PROVE  {SubSeq(p, 1, k) : k \in 0 .. n} = Above(SubSeq(p, 1, n)) \cup {SubSeq(p, 1, n)}
<1> DEFINE h == SubSeq(p, 1, n)
<1>1. Len(p) \in Nat /\ n \in Nat /\ Len(h) = n
  BY FirstPart DEF Path
<1>2. \A k \in 0 .. n : SubSeq(h, 1, k) = SubSeq(p, 1, k)
  BY FirstOfFirst
<1> HIDE DEF h
<1>3. Above(h) = {SubSeq(p, 1, k) : k \in 0 .. n - 1}
  BY <1>1, <1>2 DEF Above
<1>4. \A k : k \in 0 .. n <=> k \in 0 .. n - 1 \/ k = n
  BY <1>1
<1> QED
  BY <1>3, <1>4 DEF h

(* What a request does to the paths that are there.                        *)
Extended(c) ==
    /\ work[c] # <<>> /\ Head(work[c]).do # "delete" /\ ~Outside(c) /\ removed' = removed
    /\ dirs' \cup files' = (dirs \cup files) \cup (Above(Here(c)) \cup {Here(c)})

Pruned(c) ==
    /\ work[c] # <<>> /\ Head(work[c]).do = "delete" /\ ~Outside(c) /\ removed' = TRUE
    /\ Here(c) # <<>> /\ dirs' \cup files' = {q \in dirs \cup files : ~IsPrefix(Here(c), q)}

LEMMA StoreChanges ==
    ASSUME Typed, Treelike, NEW c \in Clients, Changed(c)
    PROVE  UNCHANGED <<dirs, files, removed>> \/ Extended(c) \/ Pruned(c)
<1>1. CASE Made(c)
  <2>1. Here(c) \in Path /\ Here(c) # <<>>
    BY <1>1, HeadIsItem DEF Made, Typed
  <2>2. Above(Here(c)) \subseteq dirs
    <3>1. Above(Parent(Here(c))) \subseteq dirs /\ Parent(Here(c)) \in dirs
      BY <1>1 DEF Made, Treelike
    <3> QED
      BY <2>1, <3>1, AboveParent
  <2> QED
    BY <1>1, <2>2 DEF Made, Extended
<1>2. CASE work[c] # <<>> /\ Head(work[c]).do = "file" /\ FileMade(c)
  BY <1>2 DEF FileMade, Extended
<1>3. CASE work[c] # <<>> /\ Head(work[c]).do = "delete" /\ DirectoryDeleted(c)
  BY <1>3 DEF DirectoryDeleted, Below, Pruned
<1>4. CASE work[c] # <<>> /\ Head(work[c]).do = "delete" /\ FileDeleted(c)
  <2>1. Here(c) \in Path /\ IsPrefix(Here(c), Here(c)) /\ Here(c) \in files /\ Here(c) # <<>>
    BY <1>4, HeadIsItem DEF FileDeleted, Typed, Treelike
  <2>2. ASSUME NEW q \in dirs \cup files, q # Here(c)
        PROVE  ~IsPrefix(Here(c), q)
    <3>1. q \in Path /\ Above(q) \subseteq dirs /\ Here(c) \notin dirs
      BY <2>1 DEF Typed, Treelike
    <3> QED
      BY <2>1, <2>2, <3>1, AboveIs
  <2>3. dirs' \cup files' = {q \in dirs \cup files : ~IsPrefix(Here(c), q)}
    BY <1>4, <2>1, <2>2 DEF FileDeleted, Treelike
  <2> QED
    BY <1>4, <2>1, <2>3 DEF FileDeleted, Pruned
<1> QED
  BY <1>1, <1>2, <1>3, <1>4 DEF Changed

(* What is put is on the way to a thing of the call, and what is deleted   *)
(* is what the call is meant to delete.                                    *)
LEMMA WantedOnWay ==
    ASSUME Typed, Aimed, NEW c \in Clients, Extended(c)
    PROVE  \E p \in job[c].things : \E n \in 0 .. Len(p) :
              dirs' \cup files' = (dirs \cup files) \cup {SubSeq(p, 1, k) : k \in 0 .. n}
<1>1. PICK p \in job[c].things : p \in Path /\ IsPrefix(Here(c), p)
  BY HeadAims DEF Extended
<1>2. Here(c) \in Path
  BY HeadIsItem DEF Extended
<1>3. PICK n \in 0 .. Len(p) : Here(c) = SubSeq(p, 1, n)
  <2>1. Len(p) \in Nat /\ p \in Seq(Text)
    BY <1>1 DEF Path
  <2>2. CASE Here(c) = p
    <3>1. SubSeq(p, 1, Len(p)) = p /\ Len(p) \in 0 .. Len(p)
      BY <2>1, SubSeqFull
    <3> QED
      BY <2>2, <3>1
  <2>3. CASE Here(c) # p
    <3>1. PICK n \in 0 .. Len(p) - 1 : Here(c) = SubSeq(p, 1, n)
      BY <1>1, <1>2, <2>3, AboveIs DEF Above
    <3>2. n \in 0 .. Len(p)
      BY <2>1
    <3> QED
      BY <3>1, <3>2
  <2> QED
    BY <2>2, <2>3
<1>4. {SubSeq(p, 1, k) : k \in 0 .. n} = Above(Here(c)) \cup {Here(c)}
  BY <1>1, <1>3, WayTo
<1> QED
  BY <1>4 DEF Extended

LEMMA UnwantedGoes ==
    ASSUME Typed, Aimed, NEW c \in Clients, Pruned(c)
    PROVE  Here(c) \in job[c].targets
<1>1. work[c] \in Seq(Items) /\ 1 \in 1 .. Len(work[c]) /\ work[c][1] = Head(work[c])
  BY DEF Typed, Pruned
<1> QED
  BY <1>1 DEF Aimed, Aims, Here, Pruned

(* Every step is one of FileStore, or none.                                *)
LEMMA StoreInit == Init => FS!StoreInit
<1> SUFFICES ASSUME Init PROVE FS!StoreInit
  OBVIOUS
<1>1. Typed
  BY TypedInit
<1>2. Path = Seq(Seq(Symbols))
  BY DEF Path, Text
<1>3. ASSUME NEW c \in Clients
      PROVE  job[c].things \in SUBSET Path /\ job[c].targets \in SUBSET Path
  BY <1>1, PlannedWell DEF WellPlanned
<1>4. /\ Wanted \in [Clients -> SUBSET Path] /\ Unwanted \in [Clients -> SUBSET Path]
      /\ Promised \in [Clients -> SUBSET Path] /\ \A c \in Clients : Promised[c] \subseteq Wanted[c]
  BY <1>3 DEF Wanted, Promised, Unwanted
<1> QED
  BY <1>2, <1>4 DEF FS!StoreInit, Init

LEMMA StoreStep == Typed /\ Treelike /\ Holds /\ Aimed /\ [Next]_vars => [FS!StoreNext]_(FS!storeVars)
<1> SUFFICES ASSUME Typed, Treelike, Holds, Aimed, [Next]_vars
             PROVE  [FS!StoreNext]_(FS!storeVars)
  OBVIOUS
<1>1. CASE UNCHANGED vars
  BY <1>1 DEF vars, FS!storeVars, Wanted, Promised, Unwanted, Outside, UploadsNothing
<1>2. CASE Next
  <2>1. PICK c \in Clients : Begin(c) \/ Proceed(c) \/ PutRefused(c) \/ FileFails(c) \/ RequestLost(c)
    BY <1>2 DEF Next
  <2>2. Moved(c) /\ Changed(c)
    BY <2>1, ActionIsMove, StepChanges
  <2>3. Wanted' = Wanted /\ Promised' = Promised /\ Unwanted' = Unwanted
    BY <2>2 DEF Moved, Alone, Wanted, Promised, Unwanted, Outside, UploadsNothing
  <2>4. status' = [status EXCEPT ![c] = status'[c]] /\ status \in [Clients -> {"idle", "busy", "done", "thrown"}]
    BY <2>2 DEF Moved, Alone, Typed
  <2>5. CASE Begun(c)
    <3>1. FS!Begin(c)
      BY <2>3, <2>4, <2>5 DEF FS!Begin, Begun
    <3> QED
      BY <3>1 DEF FS!StoreNext
  <2>6. CASE Finished(c)
    <3>1. Promised[c] \subseteq dirs \cup files \/ removed
      <4>1. Held(c) /\ removed \in BOOLEAN
        BY DEF Holds, Typed
      <4> QED
        BY <2>6, <4>1 DEF Finished, Held, Wanted, Promised
    <3>2. FS!Return(c)
      BY <2>3, <2>4, <2>6, <3>1 DEF FS!Return, Finished
    <3> QED
      BY <3>2 DEF FS!StoreNext
  <2>7. CASE Thrown(c) \/ \E items \in Seq(Items) : Went(c, items)
    <3>1. FS!Step(c)
      <4>1. status[c] = "busy" /\ status'[c] \in {"busy", "thrown"}
        BY <2>7 DEF Thrown, Went
      <4> QED
        BY <2>3, <2>4, <4>1 DEF FS!Step
    <3>2. CASE UNCHANGED <<dirs, files, removed>>
      <4>1. FS!Fail(c)
        BY <3>1, <3>2 DEF FS!Fail
      <4> QED
        BY <4>1 DEF FS!StoreNext
    <3>3. CASE Extended(c)
      <4>1. Wanted[c] = job[c].things /\ removed' = removed
        BY <3>3 DEF Wanted, Extended
      <4>2. PICK p \in job[c].things : \E n \in 0 .. Len(p) :
               dirs' \cup files' = (dirs \cup files) \cup {SubSeq(p, 1, k) : k \in 0 .. n}
        BY <3>3, WantedOnWay
      <4>3. PICK n \in 0 .. Len(p) :
               dirs' \cup files' = (dirs \cup files) \cup {SubSeq(p, 1, k) : k \in 0 .. n}
        BY <4>2
      <4>4. FS!Store(c, p, n)
        BY <3>1, <4>1, <4>3 DEF FS!Store
      <4> QED
        BY <4>1, <4>4 DEF FS!StoreNext
    <3>4. CASE Pruned(c)
      <4>1. Unwanted[c] = job[c].targets
        BY <3>4 DEF Unwanted, Pruned
      <4>2. Here(c) \in Unwanted[c]
        BY <3>4, <4>1, UnwantedGoes
      <4>3. \A q : FS!IsPrefix(Here(c), q) <=> IsPrefix(Here(c), q)
        BY DEF FS!IsPrefix, IsPrefix
      <4>4. dirs' \cup files' = {q \in dirs \cup files : ~FS!IsPrefix(Here(c), q)}
        BY <3>4, <4>3 DEF Pruned
      <4>5. Here(c) # <<>> /\ removed' = TRUE
        BY <3>4 DEF Pruned
      <4>6. FS!TakeAway(c, Here(c))
        BY <3>1, <4>2, <4>4, <4>5 DEF FS!TakeAway
      <4> QED
        BY <4>2, <4>6 DEF FS!StoreNext
    <3> QED
      BY <2>2, <3>2, <3>3, <3>4, StoreChanges
  <2>8. CASE Stayed(c)
    <3>1. status' = status
      BY <2>4, <2>8 DEF Stayed
    <3> QED
      BY <2>3, <2>8, <3>1 DEF Stayed, FS!storeVars
  <2> QED
    BY <2>2, <2>5, <2>6, <2>7, <2>8 DEF Moved
<1> QED
  BY <1>1, <1>2

(* The controller's files are a tree to which calls add only their own     *)
(* things and the way to them, and from which they take only what they are *)
(* meant to delete, with what is below it; calls that return have their    *)
(* things there.                                                           *)
THEOREM RefinesFileStore == Spec => ImplementsFileStore
<1>1. Init /\ [][Next]_vars => [](Typed /\ Treelike /\ Holds /\ Aimed)
  BY TypedInit, TypedStep, TreeInit, TreeStep, HoldsInit, HoldsStep, AimedInit, AimedStep, PTL
<1> QED
  BY <1>1, StoreInit, StoreStep, PTL DEF Spec, ImplementsFileStore, FS!StoreSpec
=============================================================================
