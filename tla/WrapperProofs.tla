---------------------------- MODULE WrapperProofs ---------------------------
(***************************************************************************)
(* What holds of xnbd-wrapper for every value of its constants: its        *)
(* inductive invariants, the steps of the manager threads, saving, the     *)
(* children and the main thread.                                           *)
(***************************************************************************)
EXTENDS Wrapper, FiniteSetTheorems, TLAPS

USE Zenon

(* The state by thread, client and export name.                            *)
Pc(t) == thread[t].pc
Cmd(t) == thread[t].line.cmd
Arg(t) == thread[t].line.arg
Copy(t) == thread[t].copy
Child(c) == child[c].pc
Known == DOMAIN p_disk_dict
Entry(n) == p_disk_dict[n]
Index(n) == p_disk_dict[n].index
Host(n) == p_disk_dict[n].image.host
Bitmap(n) == p_disk_dict[n].image.bitmap

ThreadFields == {"pc", "line", "arg", "copy"}
ChildFields == {"pc", "dict", "locked", "copy"}
ImageFields == {"file", "host", "bitmap"}

ThreadsFormed ==
  DOMAIN thread = Threads /\ \A t \in Threads : DOMAIN thread[t] = ThreadFields

ChildrenFormed ==
  DOMAIN child = Clients /\ \A c \in Clients : DOMAIN child[c] = ChildFields

IsImage(image) == DOMAIN image = ImageFields /\ image.bitmap \in BOOLEAN

TableFormed ==
  /\ p_disk_dict = [n \in Known |-> p_disk_dict[n]] /\ IsFiniteSet(Known)
  /\ images_added_ever \in Nat
  /\ \A n \in Known : /\ DOMAIN Entry(n) = {"index", "image"} /\ IsImage(Entry(n).image)
                      /\ Index(n) \in Nat

DatabaseFormed ==
  /\ DOMAIN database = {"state", "images"}
  /\ database.images = [n \in DOMAIN database.images |-> database.images[n]]
  /\ IsFiniteSet(DOMAIN database.images)
  /\ \A n \in DOMAIN database.images : IsImage(database.images[n])

-----------------------------------------------------------------------------
(* The invariants                                                          *)

\* A server is counted, by main, after it was forked; the place for it was free
\* when its client was accepted, and only main forks servers.
ServersInv ==
  /\ p_server_pid_set \subseteq Clients
  /\ \A c \in p_server_pid_set : Child(c) # "none"
  /\ main = "fork" => /\ accepted \in Clients /\ Child(accepted) = "none"
                      /\ Cardinality(p_server_pid_set) < MAX_NSRVS
  /\ CountExact
  /\ ServersBounded

\* A command that switches or reconnects a proxy runs alone, so the entry it has
\* copied is still the one it looks up again at the end.
AloneInv ==
  OneAtATime =>
    /\ \A t, u \in Threads : t # u /\ Busy(t) /\ Busy(u) => {Cmd(t), Cmd(u)} \cap Changing = {}
    /\ \A t \in Threads :
         Pc(t) \in {"bgctl", "settle"} /\ Cmd(t) \in Changing /\ Arg(t) \in Known =>
           Copy(t) = Index(Arg(t)) /\ Bitmap(Arg(t))
    /\ \A t \in Threads : Pc(t) = "settle" => Cmd(t) \in Changing

\* An image with a host has a bitmap, in the table and in a database that is whole.
LoadableInv ==
  OneAtATime => /\ \A n \in Known : Host(n) # None => Bitmap(n)
                /\ database.state # "partial" => Loadable(database.images)

FormInv ==
  /\ ThreadsFormed /\ ChildrenFormed /\ TableFormed /\ DatabaseFormed
  /\ main \in {"exited", "failed"} => Known = {} /\ \A t \in Threads : Pc(t) = "none"

TableInv ==
  AloneInv /\ LoadableInv /\ IndexUnique /\ DatabaseCurrent /\ (OneAtATime => StartsAgain)

IInv == FormInv /\ ServersInv /\ TableInv

LEMMA InitInv == Init => IInv
  <1> SUFFICES ASSUME Init PROVE IInv
    OBVIOUS
  <1>1. PICK old \in OldImages : database = [state |-> "whole", images |-> old]
    BY DEF Init
  <1>2. FormInv
    <2>1. IsFiniteSet({}) /\ IsFiniteSet(DOMAIN old)
      BY OldImagesAssumption, SetsAssumption, FS_EmptySet, FS_Subset
    <2> QED
      BY <1>1, <2>1, OldImagesAssumption
         DEF Init, FormInv, ThreadsFormed, ChildrenFormed, TableFormed, DatabaseFormed, Known,
             Empty, NoThread, NoChild, ThreadFields, ChildFields, ImageFields, IsImage, Image, Pc
  <1>3. ServersInv
    <2>1. Waiting = {}
      BY DEF Init, Waiting, NoThread
    <2> QED
      BY <2>1, FS_EmptySet, BoundsAssumption, SMTT(40) DEF Init, ServersInv, CountExact, ServersBounded
  <1>4. TableInv
    BY <1>1, OldImagesAssumption
       DEF Init, TableInv, AloneInv, LoadableInv, IndexUnique, DatabaseCurrent, StartsAgain,
           NoThread, Known, Empty, Pc, Busy
  <1> QED BY <1>2, <1>3, <1>4 DEF IInv

-----------------------------------------------------------------------------
(* What a step of a thread does                                            *)

Idle(t) == Pc(t) \in {"none", "prompt"}
Same(t) == Pc(t)' = Pc(t) /\ Cmd(t)' = Cmd(t) /\ Arg(t)' = Arg(t) /\ Copy(t)' = Copy(t)
Others(t) == \A u \in Threads : u # t => Same(u)
Goes(t, p) ==
  /\ ThreadsFormed' /\ Others(t)
  /\ Pc(t)' = p /\ Cmd(t)' = Cmd(t) /\ Arg(t)' = Arg(t) /\ Copy(t)' = Copy(t)
Rests(t) == ThreadsFormed' /\ Others(t) /\ Idle(t)'

LEMMA GotoGoes ==
  ASSUME ThreadsFormed, NEW t \in Threads, NEW p, Goto(t, p)
  PROVE  Goes(t, p)
  BY DEF Goto, Goes, Others, Same, ThreadsFormed, ThreadFields, Pc, Cmd, Arg, Copy

LEMMA ReportRests ==
  ASSUME ThreadsFormed, NEW t \in Threads, Report(t)
  PROVE  Rests(t)
  BY DEF Report, Rests, Others, Same, Idle, ThreadsFormed, ThreadFields, Pc, Cmd, Arg, Copy

LEMMA ThreadsSame ==
  ASSUME ThreadsFormed, UNCHANGED thread
  PROVE  ThreadsFormed' /\ \A u \in Threads : Same(u)
  BY DEF Same, ThreadsFormed, Pc, Cmd, Arg, Copy

\* Nobody starts or ends an xnbd-bgctl.
LEMMA WaitingSame ==
  ASSUME \A u \in Threads : Pc(u)' = "bgctl" <=> Pc(u) = "bgctl"
  PROVE  Waiting' = Waiting
  BY DEF Waiting, Pc

-----------------------------------------------------------------------------
(* Steps that leave an invariant alone                                     *)

LEMMA ServersKept ==
  ASSUME ServersInv, Waiting' = Waiting, UNCHANGED <<p_server_pid_set, child_process_count>>,
         main' = "count" <=> main = "count",
         main' = "fork" => main = "fork" /\ accepted' = accepted,
         \A c \in Clients : Child(c)' = "none" <=> Child(c) = "none"
  PROVE  ServersInv'
  BY DEF ServersInv, CountExact, ServersBounded

LEMMA FormKept ==
  ASSUME FormInv, UNCHANGED <<p_disk_dict, images_added_ever, database>>, ThreadsFormed',
         ChildrenFormed', main' \notin {"exited", "failed"}
  PROVE  FormInv'
  BY DEF FormInv, TableFormed, DatabaseFormed, Known, Entry, Index

\* A thread starts nothing new with a proxy.
Harmless(u) ==
  \/ Same(u)
  \/ Idle(u)'
  \/ ~Idle(u) /\ Cmd(u)' = Cmd(u) /\ Pc(u)' \notin {"bgctl", "settle"}

LEMMA AloneKept ==
  ASSUME AloneInv, \A u \in Threads : Harmless(u),
         Known' \subseteq Known, \A n \in Known' : Index(n)' = Index(n) /\ Bitmap(n)' = Bitmap(n)
  PROVE  AloneInv'
  BY DEF AloneInv, Harmless, Same, Idle, Busy, Pc

SameTable ==
  /\ Known' = Known
  /\ \A n \in Known : Index(n)' = Index(n) /\ Bitmap(n)' = Bitmap(n) /\ Host(n)' = Host(n)

LEMMA TableSame ==
  ASSUME UNCHANGED p_disk_dict
  PROVE  SameTable
  BY DEF SameTable, Known, Index, Bitmap, Host

\* Main stays, ends its loop, or goes on in it.
MainGoesOn ==
  \/ main' = main
  \/ main' \in {"save", "exit"}
  \/ main \in {"wait", "fork", "count"} /\ main' \in {"wait", "fork", "count"}

\* No save ends.
SavesGoOn == \A u \in Threads : Pc(u) \in Unsaved => Pc(u)' \in Unsaved

\* What is said of the table alone.
ContentsInv == LoadableInv /\ IndexUnique /\ DatabaseCurrent /\ (OneAtATime => StartsAgain)

LEMMA Contents == TableInv <=> AloneInv /\ ContentsInv
  BY DEF TableInv, ContentsInv

LEMMA ContentsKept ==
  ASSUME ContentsInv, UNCHANGED <<p_disk_dict, images_added_ever, database, failed>>, SavesGoOn,
         MainGoesOn
  PROVE  ContentsInv'
  <1> USE DEF ContentsInv
  <1>1. LoadableInv' /\ IndexUnique'
    BY TableSame DEF SameTable, LoadableInv, IndexUnique
  <1>2. DatabaseCurrent'
    BY DEF DatabaseCurrent, SavesGoOn, MainGoesOn, Pc
  <1>3. OneAtATime => StartsAgain'
    BY DEF StartsAgain, MainGoesOn
  <1> QED BY <1>1, <1>2, <1>3

LEMMA TableKept ==
  ASSUME TableInv, UNCHANGED <<p_disk_dict, images_added_ever, database, failed>>,
         \A u \in Threads : Harmless(u), SavesGoOn, MainGoesOn
  PROVE  TableInv'
  <1>1. AloneInv /\ ContentsInv
    BY Contents
  <1>2. AloneInv'
    BY <1>1, AloneKept, TableSame DEF SameTable
  <1>3. ContentsInv'
    BY <1>1, ContentsKept
  <1> QED BY <1>2, <1>3 DEF TableInv, ContentsInv

-----------------------------------------------------------------------------
(* The steps of a manager thread                                           *)

MainSame == UNCHANGED <<main, accepted, p_server_pid_set>>
TableVarsSame == UNCHANGED <<p_disk_dict, images_added_ever, database, failed>>

\* What all steps share that change neither the children nor the main thread.
LEMMA ServersOfThread ==
  ASSUME FormInv, ServersInv, NEW t \in Threads, Others(t), Pc(t)' = "bgctl" <=> Pc(t) = "bgctl",
         MainSame, UNCHANGED <<child, child_process_count>>
  PROVE  ServersInv' /\ ChildrenFormed'
  <1>1. Waiting' = Waiting
    BY WaitingSame DEF Others, Same
  <1>2. ServersInv'
    BY <1>1, ServersKept DEF Child, MainSame
  <1> QED BY <1>2 DEF FormInv, ChildrenFormed

\* A thread that neither saved nor waited gives up or ends its command, or goes on.
LEMMA Quietly ==
  ASSUME IInv, Up, NEW t \in Threads, Pc(t) \notin Unsaved, Pc(t) # "bgctl",
         Rests(t) \/ (Goes(t, "listing") /\ ~Idle(t)),
         MainSame, TableVarsSame, UNCHANGED <<child, child_process_count>>
  PROVE  IInv'
  <1>1. FormInv /\ ServersInv /\ TableInv
    BY DEF IInv
  <1>2. Others(t) /\ ThreadsFormed' /\ Pc(t)' # "bgctl"
    BY DEF Rests, Goes, Idle
  <1>3. ServersInv' /\ ChildrenFormed'
    BY <1>1, <1>2, ServersOfThread
  <1>4. FormInv'
    BY <1>1, <1>2, <1>3, FormKept DEF Up, MainSame, TableVarsSame
  <1>5. SavesGoOn /\ \A u \in Threads : Harmless(u)
    BY <1>2 DEF SavesGoOn, Harmless, Others, Same, Rests, Goes
  <1>6. TableInv'
    BY <1>1, <1>5, TableKept DEF MainGoesOn, MainSame, TableVarsSame
  <1> QED BY <1>3, <1>4, <1>6 DEF IInv

LEMMA QuitInv == ASSUME IInv, NEW t \in Threads, Quit(t) PROVE IInv'
  <1>1. /\ Pc(t) = "prompt" /\ Up /\ thread' = [thread EXCEPT ![t] = NoThread]
        /\ MainSame /\ TableVarsSame /\ UNCHANGED <<child, child_process_count>>
    BY DEF Quit, tableVars, fileVars, mainVars, childVars, Pc, MainSame, TableVarsSame
  <1>2. Rests(t)
    BY <1>1 DEF IInv, FormInv, Rests, Others, Same, Idle, ThreadsFormed, ThreadFields, NoThread,
                Pc, Cmd, Arg, Copy
  <1>3. Pc(t) \notin Unsaved /\ Pc(t) # "bgctl"
    BY <1>1 DEF Unsaved
  <1> QED BY <1>1, <1>2, <1>3, Quietly

LEMMA ListInv == ASSUME IInv, NEW t \in Threads, list_diskimg(t) PROVE IInv'
  <1>1. /\ Up /\ Pc(t) \in {"list", "listing"} /\ (Goto(t, "listing") \/ Report(t))
        /\ MainSame /\ TableVarsSame /\ UNCHANGED <<child, child_process_count>>
    BY DEF list_diskimg, tableVars, fileVars, mainVars, childVars, Pc, MainSame, TableVarsSame
  <1>2. Goes(t, "listing") \/ Rests(t)
    BY <1>1, GotoGoes, ReportRests DEF IInv, FormInv
  <1>3. Pc(t) \notin Unsaved /\ Pc(t) # "bgctl" /\ ~Idle(t)
    BY <1>1 DEF Unsaved, Idle
  <1> QED BY <1>1, <1>2, <1>3, Quietly

LEMMA CommandInv ==
  ASSUME IInv, NEW t \in Threads, NEW line, Command(t, line)
  PROVE  IInv'
  <1>0. FormInv /\ ServersInv /\ AloneInv /\ ContentsInv /\ ThreadsFormed
    BY Contents DEF IInv, FormInv
  <1>1. /\ Idle(t) /\ Up /\ MayRun(t, line)
        /\ MainSame /\ TableVarsSame /\ UNCHANGED <<child, child_process_count>>
    BY DEF Command, tableVars, fileVars, mainVars, childVars, Pc, Idle, MainSame, TableVarsSame
  <1>2. /\ ThreadsFormed' /\ Others(t)
        /\ Pc(t)' \in {"save", "list", "lookup", "run"} /\ Cmd(t)' = line.cmd
    <2>1. FirstStep(line) \in {"save", "list", "lookup", "run"}
      BY DEF FirstStep
    <2>2. thread' = [thread EXCEPT ![t] =
                       [pc |-> FirstStep(line), line |-> line,
                        arg |-> IF line.arg = None THEN thread[t].arg ELSE line.arg, copy |-> None]]
      BY DEF Command
    <2> QED
      BY <1>0, <2>1, <2>2 DEF Others, Same, ThreadsFormed, ThreadFields, Pc, Cmd, Arg, Copy
  <1>3. ServersInv' /\ ChildrenFormed'
    BY <1>0, <1>1, <1>2, ServersOfThread DEF Idle
  <1>4. FormInv'
    BY <1>0, <1>1, <1>2, <1>3, FormKept DEF Up, MainSame, TableVarsSame
  <1>5. AloneInv'
    <2>1. OneAtATime => \A u \in Threads : u # t /\ Busy(u) => {line.cmd, Cmd(u)} \cap Changing = {}
      BY <1>1 DEF MayRun, Cmd
    <2>2. SameTable
      BY <1>1, TableSame DEF TableVarsSame
    <2> QED BY <1>0, <1>2, <2>1, <2>2, SMTT(40) DEF AloneInv, SameTable, Others, Same, Busy, Pc
  <1>6. ContentsInv'
    <2>1. SavesGoOn
      BY <1>1, <1>2 DEF SavesGoOn, Others, Same, Idle, Unsaved
    <2> QED BY <1>0, <1>1, <2>1, ContentsKept DEF MainGoesOn, MainSame, TableVarsSame
  <1> QED BY <1>3, <1>4, <1>5, <1>6 DEF IInv, TableInv, ContentsInv

LEMMA ShutdownInv == ASSUME IInv, NEW t \in Threads, perform_shutdown(t) PROVE IInv'
  <1>0. FormInv /\ ServersInv /\ TableInv /\ ThreadsFormed /\ ChildrenFormed
    BY DEF IInv, FormInv
  <1>1. /\ Up /\ Pc(t) = "run" /\ Report(t)
        /\ MainSame /\ TableVarsSame /\ UNCHANGED child_process_count
    BY DEF perform_shutdown, tableVars, fileVars, Pc, MainSame, TableVarsSame
  <1>2. Rests(t)
    BY <1>0, <1>1, ReportRests
  <1>3. ChildrenFormed' /\ \A c \in Clients : Child(c)' = "none" <=> Child(c) = "none"
    BY <1>0 DEF perform_shutdown, ChildrenFormed, ChildFields, NoChild, Child
  <1>4. ServersInv'
    <2>1. Waiting' = Waiting
      BY <1>1, <1>2, WaitingSame DEF Rests, Others, Same, Idle
    <2> QED BY <1>0, <1>1, <1>3, <2>1, ServersKept DEF MainSame
  <1>5. FormInv'
    BY <1>0, <1>1, <1>2, <1>3, FormKept DEF Rests, Up, MainSame, TableVarsSame
  <1>6. SavesGoOn /\ \A u \in Threads : Harmless(u)
    BY <1>1, <1>2 DEF SavesGoOn, Harmless, Rests, Others, Same, Unsaved
  <1>7. TableInv'
    BY <1>0, <1>1, <1>6, TableKept DEF MainGoesOn, MainSame, TableVarsSame
  <1> QED BY <1>4, <1>5, <1>7 DEF IInv

LEMMA DatabasesSame ==
  ASSUME DatabaseFormed, UNCHANGED database
  PROVE  DatabaseFormed'
  BY DEF DatabaseFormed

\* The table may change while no command that switches or reconnects is running,
\* and the change is followed by a save.
LEMMA SaveFollows ==
  ASSUME IInv, Up, NEW t \in Threads, ~Idle(t), Goto(t, "save"), Pc(t) # "bgctl",
         MainSame, UNCHANGED <<database, child, child_process_count>>,
         TableFormed', LoadableInv', IndexUnique'
  PROVE  IInv'
  <1>0. FormInv /\ ServersInv /\ AloneInv /\ ThreadsFormed /\ DatabaseFormed
    BY DEF IInv, FormInv, TableInv
  <1>1. Goes(t, "save")
    BY <1>0, GotoGoes
  <1>2. ServersInv' /\ ChildrenFormed'
    BY <1>0, <1>1, ServersOfThread DEF Goes
  <1>3. FormInv'
    BY <1>0, <1>1, <1>2, DatabasesSame DEF FormInv, Goes, Up, MainSame
  <1>4. AloneInv'
    BY <1>0, <1>1, SMTT(40) DEF AloneInv, Goes, Others, Same, Idle, Busy, Pc
  <1>5. DatabaseCurrent'
    BY <1>1 DEF DatabaseCurrent, Goes, Unsaved, Pc
  <1>6. OneAtATime => StartsAgain'
    BY DEF Up, MainSame, StartsAgain
  <1> QED BY <1>2, <1>3, <1>4, <1>5, <1>6 DEF IInv, TableInv

LEMMA AddInv == ASSUME IInv, NEW t \in Threads, add_diskimg(t) PROVE IInv'
  <1>0. PICK l : l = thread[t].line
    OBVIOUS
  <1> DEFINE n == l.arg
             new == [index |-> images_added_ever, image |-> NewImage(l)]
  <1>1. /\ Up /\ Pc(t) = "run" /\ MainSame
        /\ UNCHANGED <<database, failed, child, child_process_count>>
    BY DEF add_diskimg, fileVars, mainVars, childVars, Pc, MainSame
  <1>2. ThreadsFormed /\ TableFormed /\ LoadableInv /\ IndexUnique
    BY DEF IInv, FormInv, TableInv
  <1>3. Pc(t) \notin Unsaved /\ Pc(t) # "bgctl" /\ ~Idle(t)
    BY <1>1 DEF Unsaved, Idle
  <1>4. CASE Report(t) /\ UNCHANGED tableVars
    BY <1>1, <1>2, <1>3, <1>4, ReportRests, Quietly DEF tableVars, TableVarsSame
  <1>5. CASE /\ n \notin DOMAIN p_disk_dict
             /\ p_disk_dict' = [m \in DOMAIN p_disk_dict \cup {n} |-> IF m = n THEN new ELSE p_disk_dict[m]]
             /\ images_added_ever' = images_added_ever + 1
             /\ Goto(t, "save")
    <2>1. /\ Known' = Known \cup {n} /\ n \notin Known
          /\ Entry(n)' = new /\ \A m \in Known : Entry(m)' = Entry(m)
      BY <1>5 DEF Known, Entry
    <2>2. /\ Index(n)' = images_added_ever /\ Host(n)' = NewImage(l).host
          /\ Bitmap(n)' = NewImage(l).bitmap
          /\ \A m \in Known : Index(m)' = Index(m) /\ Host(m)' = Host(m) /\ Bitmap(m)' = Bitmap(m)
      BY <2>1, SMTT(40) DEF Entry, Index, Host, Bitmap
    <2>3. IsImage(NewImage(l)) /\ (NewImage(l).host # None => NewImage(l).bitmap)
      BY DEF NewImage, proxied, target, IsImage, ImageFields
    <2>4. TableFormed'
      <3>1. IsFiniteSet(Known')
        BY <1>2, <2>1, FS_AddElement DEF TableFormed
      <3>2. DOMAIN Entry(n)' = {"index", "image"} /\ IsImage(Entry(n)'.image)
        BY <2>1, <2>3, SMTT(40)
      <3>3. p_disk_dict' = [m \in Known' |-> p_disk_dict'[m]]
        BY <1>5 DEF Known
      <3> QED BY <1>2, <1>5, <2>1, <2>2, <3>1, <3>2, <3>3, SMTT(40) DEF TableFormed
    <2>5. LoadableInv'
      BY <1>1, <1>2, <2>1, <2>2, <2>3 DEF LoadableInv
    <2>6. IndexUnique'
      BY <1>2, <1>5, <2>1, <2>2, SMTT(40) DEF TableFormed, IndexUnique, Known, Index
    <2> QED BY <1>1, <1>3, <1>5, <2>4, <2>5, <2>6, SaveFollows
  <1> QED BY <1>0, <1>4, <1>5 DEF add_diskimg

LEMMA DelInv == ASSUME IInv, NEW t \in Threads, del_diskimg(t) PROVE IInv'
  <1>0. PICK deleted : deleted = Deleted(t)
    OBVIOUS
  <1>1. /\ Up /\ Pc(t) = "run" /\ MainSame
        /\ UNCHANGED <<images_added_ever, database, failed, child, child_process_count>>
    BY DEF del_diskimg, fileVars, mainVars, childVars, Pc, MainSame
  <1>2. /\ p_disk_dict' = [n \in Known \ deleted |-> p_disk_dict[n]]
        /\ IF deleted = {} THEN Report(t) ELSE Goto(t, "save")
    BY <1>0 DEF del_diskimg, Restrict, Known
  <1>3. ThreadsFormed /\ TableFormed /\ LoadableInv /\ IndexUnique
    BY DEF IInv, FormInv, TableInv
  <1>4. Pc(t) \notin Unsaved /\ Pc(t) # "bgctl" /\ ~Idle(t)
    BY <1>1 DEF Unsaved, Idle
  <1>5. CASE deleted = {}
    <2>1. Rests(t) /\ UNCHANGED p_disk_dict
      BY <1>2, <1>3, <1>5, ReportRests DEF TableFormed
    <2> QED BY <1>1, <1>4, <2>1, Quietly DEF TableVarsSame
  <1>6. CASE deleted # {}
    <2>1. Known' = Known \ deleted /\ \A m \in Known' : Entry(m)' = Entry(m)
      BY <1>2 DEF Known, Entry
    <2>2. \A m \in Known' : Index(m)' = Index(m) /\ Host(m)' = Host(m) /\ Bitmap(m)' = Bitmap(m)
      BY <2>1 DEF Entry, Index, Host, Bitmap
    <2>3. TableFormed'
      <3>1. IsFiniteSet(Known)
        BY <1>3 DEF TableFormed
      <3>2. IsFiniteSet(Known')
        BY <2>1, <3>1, FS_Difference
      <3>3. p_disk_dict' = [m \in Known' |-> p_disk_dict'[m]]
        BY <1>2 DEF Known
      <3> QED BY <1>1, <1>3, <2>1, <2>2, <3>2, <3>3 DEF TableFormed
    <2>4. LoadableInv'
      BY <1>1, <1>3, <2>1, <2>2 DEF LoadableInv
    <2>5. IndexUnique'
      BY <1>1, <1>3, <2>1, <2>2 DEF IndexUnique, Known, Index
    <2> QED BY <1>1, <1>2, <1>4, <1>6, <2>3, <2>4, <2>5, SaveFollows
  <1> QED BY <1>5, <1>6

\* The threads that wait for an xnbd-bgctl are finitely many.
LEMMA WaitingFinite == IsFiniteSet(Waiting) /\ Cardinality(Waiting) \in Nat
  <1>1. Waiting \subseteq Threads
    BY DEF Waiting
  <1> QED BY <1>1, SetsAssumption, FS_Subset, FS_CardinalityType

LEMMA ServersFinite ==
  ASSUME ServersInv
  PROVE  IsFiniteSet(p_server_pid_set) /\ Cardinality(p_server_pid_set) \in Nat
  BY SetsAssumption, FS_Subset, FS_CardinalityType DEF ServersInv

\* An xnbd-bgctl more, or less, and one counted.
LEMMA ServersRecounted ==
  ASSUME ServersInv, MainSame, \A c \in Clients : Child(c)' = Child(c),
         \/ /\ Cardinality(Waiting') = Cardinality(Waiting) + 1
            /\ child_process_count' = child_process_count + 1
         \/ /\ Cardinality(Waiting') = Cardinality(Waiting) - 1
            /\ child_process_count' = child_process_count - 1
  PROVE  ServersInv'
  BY WaitingFinite, ServersFinite, SMTT(40) DEF MainSame, ServersInv, CountExact, ServersBounded

LEMMA LookupInv == ASSUME IInv, NEW t \in Threads, handle_bgctl_command(t) PROVE IInv'
  <1>0. PICK n : n = thread[t].line.arg
    OBVIOUS
  <1>1. Up /\ Pc(t) = "lookup" /\ MainSame /\ TableVarsSame /\ UNCHANGED child
    BY DEF handle_bgctl_command, tableVars, fileVars, mainVars, childVars, Pc, MainSame, TableVarsSame
  <1>2. FormInv /\ ServersInv /\ AloneInv /\ ContentsInv /\ ThreadsFormed /\ ChildrenFormed
    BY Contents DEF IInv, FormInv
  <1>3. CASE Report(t) /\ UNCHANGED child_process_count
    BY <1>1, <1>2, <1>3, ReportRests, Quietly DEF Unsaved
  <1>4. CASE /\ n \in Known /\ Host(n) # None
             /\ thread' = [thread EXCEPT ![t] = [@ EXCEPT !.pc = "bgctl", !.copy = Index(n)]]
             /\ child_process_count' = child_process_count + 1
    <2>1. /\ ThreadsFormed' /\ Others(t) /\ ~Idle(t) /\ Pc(t)' = "bgctl" /\ Copy(t)' = Index(n)
          /\ Cmd(t)' = Cmd(t) /\ Arg(t)' = n
      BY <1>0, <1>1, <1>2, <1>4
         DEF ThreadsFormed, ThreadFields, Others, Same, Pc, Cmd, Arg, Copy, Idle
    <2>2. ChildrenFormed' /\ \A c \in Clients : Child(c)' = Child(c)
      BY <1>1, <1>2 DEF ChildrenFormed, Child
    <2>3. ServersInv'
      <3>1. Waiting' = Waiting \cup {t} /\ t \notin Waiting
        BY <1>1, <2>1 DEF Waiting, Others, Same, Pc
      <3>2. Cardinality(Waiting') = Cardinality(Waiting) + 1
        BY <3>1, WaitingFinite, FS_AddElement
      <3> QED BY <1>1, <1>2, <1>4, <2>2, <3>2, ServersRecounted
    <2>4. FormInv'
      BY <1>1, <1>2, <2>1, <2>2, FormKept DEF Up, MainSame, TableVarsSame
    <2>5. AloneInv'
      <3>1. OneAtATime => Bitmap(n)
        BY <1>2, <1>4 DEF ContentsInv, LoadableInv
      <3>2. SameTable
        BY <1>1, TableSame DEF TableVarsSame
      <3> QED BY <1>1, <1>2, <2>1, <3>1, <3>2, SMTT(40) DEF AloneInv, SameTable, Others, Same, Busy, Idle, Pc
    <2>6. ContentsInv'
      <3>1. SavesGoOn
        BY <1>1, <2>1 DEF SavesGoOn, Others, Same, Unsaved
      <3> QED BY <1>1, <1>2, <3>1, ContentsKept DEF MainGoesOn, MainSame, TableVarsSame
    <2> QED BY <2>3, <2>4, <2>5, <2>6 DEF IInv, TableInv, ContentsInv
  <1> QED
    BY <1>0, <1>3, <1>4 DEF handle_bgctl_command, Known, Host, Index

LEMMA BgctlInv == ASSUME IInv, NEW t \in Threads, waitpid_bgctl(t) PROVE IInv'
  <1>1. /\ Up /\ Pc(t) = "bgctl" /\ child_process_count' = child_process_count - 1
        /\ Report(t) \/ (Goto(t, "settle") /\ Cmd(t) \in Changing)
        /\ MainSame /\ TableVarsSame
    BY DEF waitpid_bgctl, tableVars, fileVars, mainVars, Pc, Cmd, MainSame, TableVarsSame
  <1>2. FormInv /\ ServersInv /\ AloneInv /\ ContentsInv /\ ThreadsFormed /\ ChildrenFormed
    BY Contents DEF IInv, FormInv
  <1>3. ChildrenFormed' /\ \A c \in Clients : Child(c)' = Child(c)
    <2>1. child' = child \/ \E c \in Clients : child' = [child EXCEPT ![c].copy = None]
      BY DEF waitpid_bgctl, Proxies
    <2> QED BY <1>2, <2>1, SMTT(40) DEF ChildrenFormed, ChildFields, Child
  <1>4. Rests(t) \/ (Goes(t, "settle") /\ Cmd(t) \in Changing)
    BY <1>1, <1>2, GotoGoes, ReportRests
  <1>5. ThreadsFormed' /\ Others(t) /\ Pc(t)' # "bgctl"
    BY <1>4 DEF Rests, Goes, Idle
  <1>6. ServersInv'
    <2>1. Waiting' = Waiting \ {t} /\ t \in Waiting
      BY <1>1, <1>5 DEF Waiting, Others, Same, Pc
    <2>2. Cardinality(Waiting') = Cardinality(Waiting) - 1
      BY <2>1, WaitingFinite, FS_RemoveElement
    <2> QED BY <1>1, <1>2, <1>3, <2>2, ServersRecounted
  <1>7. FormInv'
    BY <1>1, <1>2, <1>3, <1>5, FormKept DEF Up, MainSame, TableVarsSame
  <1>8. ContentsInv'
    <2>1. SavesGoOn
      BY <1>1, <1>5 DEF SavesGoOn, Others, Same, Unsaved
    <2> QED BY <1>1, <1>2, <2>1, ContentsKept DEF MainGoesOn, MainSame, TableVarsSame
  <1>9. AloneInv'
    <2>1. SameTable
      BY <1>1, TableSame DEF TableVarsSame
    <2>2. CASE Rests(t)
      BY <1>2, <2>1, <2>2, AloneKept DEF SameTable, Rests, Others, Harmless
    <2>3. CASE Goes(t, "settle") /\ Cmd(t) \in Changing
      <3>1. \A u \in Threads : /\ Cmd(u)' = Cmd(u) /\ Arg(u)' = Arg(u) /\ Copy(u)' = Copy(u)
                               /\ Pc(u)' = IF u = t THEN "settle" ELSE Pc(u)
        BY <2>3 DEF Goes, Others, Same
      <3>2. \A u \in Threads : Busy(u)' <=> Busy(u)
        BY <1>1, <3>1 DEF Busy, Pc
      <3> QED BY <1>1, <1>2, <2>1, <2>3, <3>1, <3>2 DEF AloneInv, SameTable
    <2> QED BY <1>4, <2>2, <2>3
  <1> QED BY <1>6, <1>7, <1>8, <1>9 DEF IInv, TableInv, ContentsInv

LEMMA SettleInv == ASSUME IInv, NEW t \in Threads, settle(t) PROVE IInv'
  <1>0. PICK n, image : n = thread[t].line.arg /\ image = Settled(t, p_disk_dict[n].image)
    OBVIOUS
  <1>1. /\ Up /\ Pc(t) = "settle" /\ Goto(t, "save") /\ MainSame
        /\ p_disk_dict' = IF n \in Known THEN [p_disk_dict EXCEPT ![n].image = image] ELSE p_disk_dict
        /\ UNCHANGED <<images_added_ever, database, failed, child, child_process_count>>
    BY <1>0 DEF settle, fileVars, mainVars, childVars, Pc, Known, MainSame
  <1>2. TableFormed /\ AloneInv /\ LoadableInv /\ IndexUnique
    BY DEF IInv, FormInv, TableInv
  <1>3. ~Idle(t) /\ Pc(t) # "bgctl"
    BY <1>1 DEF Idle
  <1>4. /\ Known' = Known /\ \A m \in Known : m # n => Entry(m)' = Entry(m)
        /\ n \in Known => Entry(n)' = [Entry(n) EXCEPT !.image = image]
        /\ p_disk_dict' = [m \in Known' |-> p_disk_dict'[m]]
    BY <1>1, <1>2 DEF TableFormed, Known, Entry
  <1>5. /\ \A m \in Known : Index(m)' = Index(m)
        /\ \A m \in Known : m # n => Host(m)' = Host(m) /\ Bitmap(m)' = Bitmap(m)
        /\ n \in Known => Entry(n)'.image = image /\ DOMAIN Entry(n)' = {"index", "image"}
    BY <1>2, <1>4 DEF TableFormed, Entry, Index, Host, Bitmap
  <1>6. n \in Known =>
          /\ IsImage(image)
          /\ OneAtATime => (image.host # None => image.bitmap)
    <2> SUFFICES ASSUME n \in Known
                 PROVE  IsImage(image) /\ (OneAtATime => (image.host # None => image.bitmap))
      OBVIOUS
    <2>1. PICK old, h : old = Entry(n).image /\ h = thread[t].line.host
      OBVIOUS
    <2>2. image = target(old.file) \/ image = [old EXCEPT !.host = h]
      BY <1>0, <2>1 DEF Settled, Entry
    <2>3. OneAtATime => Bitmap(n)
      BY <1>0, <1>1, <1>2 DEF AloneInv, Arg
    <2>4. IsImage(old) /\ (OneAtATime => old.bitmap)
      BY <1>2, <2>1, <2>3 DEF TableFormed, Entry, Bitmap
    <2>5. CASE image = target(old.file)
      BY <2>5 DEF target, IsImage, ImageFields
    <2>6. CASE image = [old EXCEPT !.host = h]
      <3>1. DOMAIN image = DOMAIN old /\ image.bitmap = old.bitmap
        BY <2>4, <2>6 DEF IsImage, ImageFields
      <3> QED BY <2>4, <3>1 DEF IsImage
    <2> QED BY <2>2, <2>5, <2>6
  <1>7. TableFormed'
    BY <1>1, <1>2, <1>4, <1>5, <1>6 DEF TableFormed
  <1>8. LoadableInv'
    <2>1. n \in Known => Host(n)' = image.host /\ Bitmap(n)' = image.bitmap
      BY <1>5 DEF Entry, Host, Bitmap
    <2> QED BY <1>1, <1>2, <1>4, <1>5, <1>6, <2>1 DEF LoadableInv
  <1>9. IndexUnique'
    BY <1>1, <1>2, <1>4, <1>5, SMTT(40) DEF IndexUnique, Known, Index
  <1> QED BY <1>1, <1>3, <1>7, <1>8, <1>9, SaveFollows

-----------------------------------------------------------------------------
(* Saving                                                                  *)

\* Whoever saves goes on to the save, or is done with it.
LEMMA SaverGoes ==
  ASSUME ThreadsFormed, NEW who \in Threads \cup {"main"}, NEW step, Saved(who, step)
  PROVE  /\ ThreadsFormed'
         /\ who = "main" => main' = step /\ \A u \in Threads : Same(u)
         /\ who # "main" => UNCHANGED main /\ IF step = "saving" THEN Goes(who, step) ELSE Rests(who)
  <1>1. CASE who = "main"
    BY <1>1, ThreadsSame DEF Saved
  <1>2. CASE who # "main" /\ step = "saving"
    <2>1. Goto(who, step) /\ UNCHANGED main
      BY <1>2 DEF Saved, Goto
    <2> QED BY <1>2, <2>1, GotoGoes DEF Goes
  <1>3. CASE who # "main" /\ step # "saving"
    <2>1. Report(who) /\ UNCHANGED main
      BY <1>3 DEF Saved, Report
    <2> QED BY <1>3, <2>1, ReportRests DEF Rests
  <1> QED BY <1>1, <1>2, <1>3

LEMMA SaveInv ==
  ASSUME IInv, NEW who \in Threads \cup {"main"}, Save(who)
  PROVE  IInv'
  <1>0. FormInv /\ ServersInv /\ AloneInv /\ LoadableInv /\ IndexUnique
    BY DEF IInv, TableInv
  <1>1. /\ Up
        /\ Saving(who, "save") \/ Saving(who, "saving")
        /\ UNCHANGED <<p_disk_dict, images_added_ever, accepted, child, p_server_pid_set,
                       child_process_count>>
    BY DEF Save, Truncate, dump_registered_images, tableVars, childVars
  <1>2. PICK step \in {"destroy", "saving"} :
          /\ Saved(who, step)
          /\ \/ UNCHANGED database /\ step = "destroy" /\ failed'
             \/ database' = [state |-> "whole", images |-> Images(p_disk_dict)]
             \/ database' = [state |-> "partial", images |-> Empty] /\ step = "saving"
    BY DEF Save, Truncate, dump_registered_images
  <1>3. /\ ThreadsFormed'
        /\ who = "main" => main' = step /\ \A u \in Threads : Same(u)
        /\ who # "main" => UNCHANGED main /\ IF step = "saving" THEN Goes(who, step) ELSE Rests(who)
    BY <1>0, <1>2, SaverGoes DEF FormInv
  <1>4. /\ who = "main" => main \in {"save", "saving"}
        /\ who # "main" => Pc(who) \in {"save", "saving"}
    BY <1>1 DEF Saving, Pc
  <1>5. main' \notin {"exited", "failed"} /\ (main' = "count" <=> main = "count") /\ (main' = "fork" => main = "fork")
    BY <1>1, <1>3, <1>4 DEF Up
  <1>6. ChildrenFormed' /\ ServersInv'
    <2>1. Waiting' = Waiting
      BY <1>3, <1>4, WaitingSame DEF Rests, Goes, Others, Same, Idle
    <2>2. ChildrenFormed' /\ \A c \in Clients : Child(c)' = Child(c)
      BY <1>0, <1>1 DEF FormInv, ChildrenFormed, Child
    <2> QED BY <1>0, <1>1, <1>5, <2>1, <2>2, ServersKept
  <1>7. FormInv'
    <2>1. DatabaseFormed'
      <3>1. CASE UNCHANGED database
        BY <1>0, <3>1, DatabasesSame DEF FormInv
      <3>2. CASE database' = [state |-> "whole", images |-> Images(p_disk_dict)]
        BY <1>0, <3>2 DEF FormInv, TableFormed, DatabaseFormed, Images, Known, Entry
      <3>3. CASE database' = [state |-> "partial", images |-> Empty]
        BY <3>3, FS_EmptySet DEF DatabaseFormed, Empty
      <3> QED BY <1>2, <3>1, <3>2, <3>3
    <2>2. TableFormed'
      BY <1>0, <1>1 DEF FormInv, TableFormed, Known, Entry, Index
    <2> QED BY <1>3, <1>5, <1>6, <2>1, <2>2 DEF FormInv
  <1>8. SameTable
    BY <1>1, TableSame
  <1>9. AloneInv'
    <2>1. \A u \in Threads : Harmless(u)
      BY <1>3, <1>4 DEF Harmless, Rests, Goes, Others, Idle
    <2> QED BY <1>0, <1>8, <2>1, AloneKept DEF SameTable
  <1>10. LoadableInv'
    <2>1. database' = [state |-> "whole", images |-> Images(p_disk_dict)] =>
            (OneAtATime => Loadable(database'.images))
      BY <1>0, SMTT(40) DEF LoadableInv, Loadable, Images, Known, Host, Bitmap
    <2> QED BY <1>0, <1>2, <1>8, <2>1, SMTT(40) DEF SameTable, LoadableInv
  <1>11. IndexUnique' /\ StartsAgain'
    BY <1>0, <1>1, <1>5 DEF IndexUnique, StartsAgain
  <1>12. DatabaseCurrent'
    <2>1. CASE failed'
      BY <2>1 DEF DatabaseCurrent
    <2>2. CASE database' = [state |-> "whole", images |-> Images(p_disk_dict)]
      BY <1>1, <2>2 DEF DatabaseCurrent, Images
    <2>3. CASE step = "saving"
      <3>1. main' = "saving" \/ \E u \in Threads : Pc(u)' = "saving"
        BY <1>3, <2>3 DEF Goes
      <3> QED BY <3>1 DEF DatabaseCurrent, Unsaved, Pc
    <2> QED BY <1>2, <2>1, <2>2, <2>3
  <1> QED BY <1>6, <1>7, <1>9, <1>10, <1>11, <1>12 DEF IInv, TableInv

-----------------------------------------------------------------------------
(* The children and the main thread                                        *)

LEMMA ChildrenInv ==
  ASSUME IInv, NEW c \in Clients, Negotiate(c) \/ exec_xnbd_server(c) \/ ServerEnds(c)
  PROVE  IInv'
  <1>1. UNCHANGED <<p_disk_dict, images_added_ever, database, failed, main, accepted, thread,
                    p_server_pid_set, child_process_count>>
    BY DEF Negotiate, exec_xnbd_server, ServerEnds, tableVars, fileVars, mainVars, threadVars
  <1>2. ThreadsFormed' /\ \A u \in Threads : Same(u)
    BY <1>1, ThreadsSame DEF IInv, FormInv
  <1>3. ChildrenFormed' /\ \A d \in Clients : Child(d)' = "none" <=> Child(d) = "none"
    <2>0. Child(c) # "none"
      <3>1. Child(c) \in {"nego", "lookup", "serving"}
        BY DEF Negotiate, exec_xnbd_server, ServerEnds, Child
      <3> QED BY <3>1
    <2>1. ASSUME NEW new, child' = [child EXCEPT ![c] = new], DOMAIN new = ChildFields, new.pc # "none"
          PROVE  ChildrenFormed' /\ \A d \in Clients : Child(d)' = "none" <=> Child(d) = "none"
      BY <2>0, <2>1 DEF IInv, FormInv, ChildrenFormed, Child
    <2>2. CASE Dies(c)
      <3>1. PICK new : new = [NoChild EXCEPT !.pc = "dead"]
        OBVIOUS
      <3>2. child' = [child EXCEPT ![c] = new] /\ DOMAIN new = ChildFields /\ new.pc # "none"
        BY <2>2, <3>1 DEF Dies, NoChild, ChildFields
      <3> QED BY <2>1, <3>2
    <2>3. CASE Negotiate(c) /\ ~Dies(c)
      <3>1. PICK dict : child' = [child EXCEPT ![c] = [child[c] EXCEPT !.pc = "lookup", !.dict = dict]]
        BY <2>3 DEF Negotiate
      <3>2. PICK new : new = [child[c] EXCEPT !.pc = "lookup", !.dict = dict]
        OBVIOUS
      <3>3. child' = [child EXCEPT ![c] = new]
        BY <3>1, <3>2
      <3>4. DOMAIN new = ChildFields /\ new.pc # "none"
        BY <3>2 DEF IInv, FormInv, ChildrenFormed, ChildFields
      <3> QED BY <2>1, <3>3, <3>4
    <2>4. CASE exec_xnbd_server(c) /\ ~Dies(c)
      <3>1. PICK copy : child' = [child EXCEPT ![c] = [NoChild EXCEPT !.pc = "serving", !.copy = copy]]
        BY <2>4 DEF exec_xnbd_server
      <3>2. PICK new : new = [NoChild EXCEPT !.pc = "serving", !.copy = copy]
        OBVIOUS
      <3>3. child' = [child EXCEPT ![c] = new] /\ DOMAIN new = ChildFields /\ new.pc # "none"
        BY <3>1, <3>2 DEF NoChild, ChildFields
      <3> QED BY <2>1, <3>3
    <2> QED BY <2>2, <2>3, <2>4 DEF ServerEnds
  <1>4. ServersInv'
    <2>1. Waiting' = Waiting
      BY <1>2, WaitingSame DEF Same
    <2> QED BY <1>1, <1>3, <2>1, ServersKept DEF IInv
  <1>5. FormInv'
    BY <1>1, <1>2, <1>3 DEF IInv, FormInv, TableFormed, DatabaseFormed, Known, Entry, Index, Same
  <1>6. TableInv'
    BY <1>1, <1>2, TableKept DEF IInv, Harmless, SavesGoOn, Same, MainGoesOn
  <1> QED BY <1>4, <1>5, <1>6 DEF IInv

\* The steps of main that leave table, file and threads alone.
LEMMA MainKeeps ==
  ASSUME IInv, UNCHANGED <<p_disk_dict, images_added_ever, database, failed, thread>>,
         \/ main' = "save"
         \/ main \in {"wait", "fork", "count"} /\ main' \in {"wait", "fork", "count"},
         ChildrenFormed', ServersInv'
  PROVE  IInv'
  <1>1. ThreadsFormed' /\ \A u \in Threads : Same(u)
    BY ThreadsSame DEF IInv, FormInv
  <1>2. FormInv'
    BY <1>1, FormKept DEF IInv
  <1>3. TableInv'
    BY <1>1, TableKept DEF IInv, Harmless, SavesGoOn, Same, MainGoesOn
  <1> QED BY <1>2, <1>3 DEF IInv

LEMMA WaitingSameThreads ==
  ASSUME UNCHANGED thread
  PROVE  Waiting' = Waiting
  BY DEF Waiting

LEMMA AcceptInv == IInv /\ Accept => IInv'
  <1> SUFFICES ASSUME IInv, Accept PROVE IInv'
    OBVIOUS
  <1>1. /\ main = "wait" /\ main' = "fork" /\ ~(child_process_count >= MAX_NSRVS)
        /\ UNCHANGED <<p_disk_dict, images_added_ever, database, failed, thread, child,
                       p_server_pid_set, child_process_count>>
    BY DEF Accept, Limit, tableVars, fileVars, threadVars, childVars
  <1>2. PICK c \in Clients : c = accepted' /\ Child(c) = "none"
    BY DEF Accept, Child
  <1>3. ServersInv'
    <2>1. Cardinality(p_server_pid_set) < MAX_NSRVS
      BY <1>1, WaitingFinite, ServersFinite, BoundsAssumption, SMTT(40) DEF IInv, ServersInv, CountExact
    <2>2. Child(c)' = "none"
      BY <1>1, <1>2 DEF Child
    <2> QED BY <1>1, <1>2, <2>1, <2>2, WaitingSameThreads
            DEF IInv, ServersInv, CountExact, ServersBounded, Child
  <1>4. ChildrenFormed'
    BY <1>1 DEF IInv, FormInv, ChildrenFormed
  <1> QED BY <1>1, <1>3, <1>4, MainKeeps

LEMMA ForkInv == IInv /\ Fork => IInv'
  <1> SUFFICES ASSUME IInv, Fork PROVE IInv'
    OBVIOUS
  <1>0. PICK c \in Clients : c = accepted
    BY DEF Fork, IInv, ServersInv
  <1>1. /\ main = "fork" /\ main' = "count" /\ p_server_pid_set' = p_server_pid_set \cup {c}
        /\ child' = [child EXCEPT ![c] =
             [pc |-> "nego", dict |-> p_disk_dict, locked |-> mutex # None, copy |-> None]]
        /\ UNCHANGED <<p_disk_dict, images_added_ever, database, failed, thread, accepted,
                       child_process_count>>
    BY <1>0 DEF Fork, tableVars, fileVars, threadVars
  <1>2. /\ ChildrenFormed' /\ Child(c)' = "nego"
        /\ \A d \in Clients : d # c => Child(d)' = Child(d)
    BY <1>1 DEF IInv, FormInv, ChildrenFormed, ChildFields, Child
  <1>3. ServersInv'
    <2>1. c \notin p_server_pid_set /\ Cardinality(p_server_pid_set) < MAX_NSRVS
      BY <1>0, <1>1 DEF IInv, ServersInv
    <2>2. Cardinality(p_server_pid_set') = Cardinality(p_server_pid_set) + 1
      BY <1>1, <2>1, ServersFinite, FS_AddElement DEF IInv
    <2> QED BY <1>1, <1>2, <2>1, <2>2, WaitingSameThreads, WaitingFinite, ServersFinite, BoundsAssumption, SMTT(40)
            DEF IInv, ServersInv, CountExact, ServersBounded
  <1> QED BY <1>1, <1>2, <1>3, MainKeeps

LEMMA CountInv == IInv /\ Count => IInv'
  <1> SUFFICES ASSUME IInv, Count PROVE IInv'
    OBVIOUS
  <1>1. /\ main = "count" /\ main' = "wait" /\ child_process_count' = child_process_count + 1
        /\ UNCHANGED <<p_disk_dict, images_added_ever, database, failed, thread, child,
                       p_server_pid_set>>
    BY DEF Count, tableVars, fileVars, threadVars, childVars
  <1>2. ServersInv'
    BY <1>1, WaitingSameThreads, WaitingFinite, ServersFinite, SMTT(40)
       DEF IInv, ServersInv, CountExact, ServersBounded, Child
  <1>3. ChildrenFormed'
    BY <1>1 DEF IInv, FormInv, ChildrenFormed
  <1> QED BY <1>1, <1>2, <1>3, MainKeeps

LEMMA ReapInv == IInv /\ waitpid_nohang => IInv'
  <1> SUFFICES ASSUME IInv, waitpid_nohang PROVE IInv'
    OBVIOUS
  <1>a. Zombies \in SUBSET p_server_pid_set
    BY DEF Zombies
  <1>0. PICK dead \in SUBSET p_server_pid_set : dead = Zombies
    BY <1>a
  <1>1. /\ main = "wait" /\ main' = "wait"
        /\ p_server_pid_set' = p_server_pid_set \ dead
        /\ child_process_count' = child_process_count - Cardinality(dead)
        /\ child' = [c \in Clients |-> IF c \in dead THEN NoChild ELSE child[c]]
        /\ UNCHANGED <<p_disk_dict, images_added_ever, database, failed, thread, accepted>>
    BY <1>0 DEF waitpid_nohang, tableVars, fileVars, threadVars, mainVars
  <1>2. ChildrenFormed' /\ \A c \in Clients : c \notin dead => Child(c)' = Child(c)
    <2>1. DOMAIN child' = Clients /\ \A c \in Clients : child'[c] = IF c \in dead THEN NoChild ELSE child[c]
      BY <1>1
    <2>2. ChildrenFormed /\ DOMAIN NoChild = ChildFields
      BY DEF IInv, FormInv, NoChild, ChildFields
    <2> QED BY <2>1, <2>2 DEF ChildrenFormed, Child
  <1>3. ServersInv'
    <2>1. p_server_pid_set \cap dead = dead
      OBVIOUS
    <2>2. Cardinality(p_server_pid_set') = Cardinality(p_server_pid_set) - Cardinality(dead)
      BY <1>1, <2>1, ServersFinite, FS_Difference, SMTT(40) DEF IInv
    <2>3. IsFiniteSet(dead)
      BY ServersFinite, FS_Subset DEF IInv
    <2>4. Cardinality(dead) \in Nat
      BY <2>3, FS_CardinalityType
    <2> QED BY <1>1, <1>2, <2>2, <2>4, WaitingSameThreads, WaitingFinite, ServersFinite, BoundsAssumption, SMTT(40)
            DEF IInv, ServersInv, CountExact, ServersBounded
  <1> QED BY <1>1, <1>2, <1>3, MainKeeps

LEMMA TermInv == IInv /\ Term => IInv'
  <1> SUFFICES ASSUME IInv, Term PROVE IInv'
    OBVIOUS
  <1>1. /\ main = "wait" /\ main' = "save"
        /\ UNCHANGED <<p_disk_dict, images_added_ever, database, failed, thread, child, accepted,
                       p_server_pid_set, child_process_count>>
    BY DEF Term, tableVars, fileVars, threadVars, childVars
  <1>2. ServersInv'
    BY <1>1, ServersKept, WaitingSameThreads DEF IInv, Child
  <1>3. ChildrenFormed'
    BY <1>1 DEF IInv, FormInv, ChildrenFormed
  <1> QED BY <1>1, <1>2, <1>3, MainKeeps

LEMMA DestroyInv == IInv /\ Destroy => IInv'
  <1> SUFFICES ASSUME IInv, Destroy PROVE IInv'
    OBVIOUS
  <1>1. /\ main = "destroy" /\ main' = "exit" /\ p_disk_dict' = Empty
        /\ UNCHANGED <<images_added_ever, database, failed, thread, child, accepted,
                       p_server_pid_set, child_process_count>>
    BY DEF Destroy, fileVars, threadVars, childVars
  <1>2. ServersInv'
    BY <1>1, ServersKept, WaitingSameThreads DEF IInv, Child
  <1>3. Known' = {}
    BY <1>1 DEF Known, Empty
  <1>4. FormInv'
    <2>1. ChildrenFormed' /\ ThreadsFormed' /\ DatabaseFormed'
      BY <1>1, ThreadsSame, DatabasesSame DEF IInv, FormInv, ChildrenFormed
    <2>2. TableFormed'
      BY <1>1, <1>3, FS_EmptySet DEF IInv, FormInv, TableFormed, Empty, Known
    <2> QED BY <1>1, <2>1, <2>2 DEF FormInv
  <1>5. AloneInv'
    BY <1>1, <1>3, ThreadsSame, AloneKept DEF IInv, FormInv, TableInv, Harmless
  <1>6. LoadableInv' /\ IndexUnique' /\ DatabaseCurrent' /\ StartsAgain'
    BY <1>1, <1>3 DEF IInv, TableInv, LoadableInv, IndexUnique, DatabaseCurrent, StartsAgain, Known
  <1> QED BY <1>2, <1>4, <1>5, <1>6 DEF IInv, TableInv

LEMMA StopInv == IInv /\ Stop => IInv'
  <1> SUFFICES ASSUME IInv, Stop PROVE IInv'
    OBVIOUS
  <1>1. /\ main' = "exited" /\ p_disk_dict' = Empty /\ images_added_ever' = 0
        /\ thread' = [t \in Threads |-> NoThread] /\ child' = [c \in Clients |-> NoChild]
        /\ p_server_pid_set' = {} /\ child_process_count' = 0 /\ UNCHANGED <<database, failed>>
    BY DEF Stop, fileVars
  <1>2. Known' = {} /\ \A t \in Threads : Pc(t)' = "none"
    BY <1>1 DEF Known, Empty, Pc, NoThread
  <1>3. ServersInv'
    <2>1. Waiting' = {}
      BY <1>2 DEF Waiting, Pc
    <2> QED BY <1>1, <2>1, FS_EmptySet, BoundsAssumption, SMTT(40) DEF ServersInv, CountExact, ServersBounded
  <1>4. FormInv'
    <2>1. ChildrenFormed' /\ ThreadsFormed'
      BY <1>1 DEF ChildrenFormed, ThreadsFormed, NoThread, NoChild, ThreadFields, ChildFields
    <2>2. TableFormed' /\ DatabaseFormed'
      BY <1>1, <1>2, FS_EmptySet, DatabasesSame DEF IInv, FormInv, TableFormed, Empty, Known
    <2> QED BY <1>2, <2>1, <2>2 DEF FormInv
  <1>5. AloneInv'
    BY <1>2 DEF AloneInv, Busy, Pc
  <1>6. LoadableInv' /\ IndexUnique' /\ DatabaseCurrent' /\ StartsAgain'
    BY <1>1, <1>2 DEF IInv, TableInv, LoadableInv, IndexUnique, DatabaseCurrent, StartsAgain, Known
  <1> QED BY <1>3, <1>4, <1>5, <1>6 DEF IInv, TableInv

\* Images can be numbered as they are loaded.
LEMMA Numbering ==
  ASSUME NEW S, IsFiniteSet(S)
  PROVE  \E f \in [S -> 0 .. Cardinality(S) - 1] : IsInjective(f)
  <1> DEFINE T == 0 .. Cardinality(S) - 1
  <1>1. Cardinality(S) \in Nat
    BY FS_CardinalityType
  <1>2. IsFiniteSet(T) /\ Cardinality(T) = Cardinality(S)
    <2>1. 0 \in Int /\ Cardinality(S) - 1 \in Int
      BY <1>1, SMTT(40)
    <2>2. /\ IsFiniteSet(T)
          /\ Cardinality(T) = IF 0 > Cardinality(S) - 1 THEN 0 ELSE Cardinality(S) - 1 - 0 + 1
      BY <2>1, FS_Interval
    <2> QED BY <1>1, <2>2, SMTT(40)
  <1> HIDE DEF T
  <1>3. ExistsBijection(S, T)
    BY <1>2, FS_SameCardinalityBij
  <1>4. \E f \in [S -> T] : IsInjective(f)
    BY <1>3 DEF ExistsBijection, Bijection, Injection
  <1> QED BY <1>4 DEF T

LEMMA StartInv == IInv /\ Start => IInv'
  <1> SUFFICES ASSUME IInv, Start PROVE IInv'
    OBVIOUS
  <1>1. main = "exited" /\ UNCHANGED <<thread, child, accepted, p_server_pid_set, child_process_count>>
    BY DEF Start, threadVars, childVars
  <1>2. /\ ThreadsFormed' /\ \A t \in Threads : Pc(t)' = "none"
        /\ ChildrenFormed'
    BY <1>1 DEF IInv, FormInv, ThreadsFormed, ChildrenFormed, Pc
  <1>3. AloneInv'
    BY <1>2 DEF AloneInv, Busy, Pc
  <1>4. CASE main' = "failed" /\ UNCHANGED <<tableVars, fileVars>>
             /\ (database.state = "partial" \/ ~Loadable(database.images))
    <2>1. UNCHANGED <<p_disk_dict, images_added_ever, database, failed>>
      BY <1>4 DEF tableVars, fileVars
    <2>2. ServersInv'
      BY <1>1, <1>4, ServersKept, WaitingSameThreads DEF IInv, Child
    <2>3. FormInv'
      BY <1>1, <1>2, <1>4, <2>1 DEF IInv, FormInv, TableFormed, DatabaseFormed, Known, Entry, Index
    <2>4. OneAtATime => StartsAgain'
      BY <1>4, <2>1 DEF IInv, TableInv, LoadableInv, StartsAgain
    <2>5. LoadableInv' /\ IndexUnique' /\ DatabaseCurrent'
      BY <1>4, <2>1 DEF IInv, TableInv, LoadableInv, IndexUnique, DatabaseCurrent, Known, Host, Bitmap
    <2> QED BY <1>3, <2>2, <2>3, <2>4, <2>5 DEF IInv, TableInv
  <1>5. CASE ~(database.state = "partial" \/ ~Loadable(database.images))
    <2>a. PICK skipped \in SUBSET DOMAIN database.images :
            LET loaded == DOMAIN database.images \ skipped
                order == CHOOSE f \in [loaded -> 0 .. Cardinality(loaded) - 1] : IsInjective(f) IN
            /\ p_disk_dict' = [n \in loaded |-> [index |-> order[n], image |-> database.images[n]]]
            /\ images_added_ever' = Cardinality(loaded)
            /\ database' = IF skipped = {} THEN database
                           ELSE [state |-> "whole", images |-> Images(p_disk_dict')]
            /\ main' = "wait"
      BY <1>5 DEF Start, LoadedEver
    <2>b. PICK loaded : loaded = DOMAIN database.images \ skipped
      OBVIOUS
    <2>c. PICK order : order = CHOOSE f \in [loaded -> 0 .. Cardinality(loaded) - 1] : IsInjective(f)
      OBVIOUS
    <2>1. /\ loaded = DOMAIN database.images \ skipped
          /\ p_disk_dict' = [n \in loaded |-> [index |-> order[n], image |-> database.images[n]]]
          /\ images_added_ever' = Cardinality(loaded)
          /\ database' = IF skipped = {} THEN database
                         ELSE [state |-> "whole", images |-> Images(p_disk_dict')]
          /\ main' = "wait"
      BY <2>a, <2>b, <2>c
    <2>2. IsFiniteSet(loaded) /\ Cardinality(loaded) \in Nat
      <3>1. IsFiniteSet(DOMAIN database.images)
        BY DEF IInv, FormInv, DatabaseFormed
      <3>2. IsFiniteSet(loaded)
        BY <2>1, <3>1, FS_Difference
      <3> QED BY <3>2, FS_CardinalityType
    <2>3. order \in [loaded -> 0 .. Cardinality(loaded) - 1] /\ IsInjective(order)
      BY <2>2, <2>c, Numbering
    <2>4. /\ Known' = loaded
          /\ \A n \in loaded : /\ DOMAIN Entry(n)' = {"index", "image"}
                               /\ Entry(n)'.image = database.images[n] /\ Index(n)' = order[n]
      BY <2>1 DEF Known, Entry, Index
    <2>5. \A n \in loaded : Host(n)' = database.images[n].host /\ Bitmap(n)' = database.images[n].bitmap
      BY <2>4 DEF Entry, Host, Bitmap
    <2>6. /\ Images(p_disk_dict') = [n \in loaded |-> database.images[n]]
          /\ database'.images = Images(p_disk_dict')
          /\ DOMAIN database' = {"state", "images"}
      BY <2>1 DEF Images, IInv, FormInv, DatabaseFormed
    <2>7. /\ main' = "wait" /\ images_added_ever' = Cardinality(loaded)
          /\ \A n \in loaded : n \in DOMAIN database.images
          /\ database.state # "partial" /\ Loadable(database.images)
      BY <1>5, <2>1
    <2>8. \A n \in loaded : IsImage(database.images[n])
      BY <2>7 DEF IInv, FormInv, DatabaseFormed
    <2>9. /\ \A n \in loaded : order[n] \in Nat /\ order[n] < Cardinality(loaded)
          /\ \A m, n \in loaded : order[m] = order[n] => m = n
      BY <2>2, <2>3, SMTT(40) DEF IsInjective
    <2>10. TableFormed'
      <3>1. p_disk_dict' = [n \in Known' |-> p_disk_dict'[n]]
        BY <2>1 DEF Known
      <3>2. \A n \in loaded : Index(n)' \in Nat /\ IsImage(Entry(n)'.image)
        BY <2>4, <2>8, <2>9
      <3> QED BY <2>2, <2>4, <2>7, <3>1, <3>2 DEF TableFormed
    <2>11. /\ DOMAIN database'.images = loaded
           /\ \A n \in loaded : database'.images[n] = database.images[n]
           /\ database'.images = [n \in DOMAIN database'.images |-> database'.images[n]]
      BY <2>6
    <2>12. DatabaseFormed'
      BY <2>2, <2>6, <2>8, <2>11 DEF DatabaseFormed
    <2>13. FormInv'
      BY <1>2, <2>7, <2>10, <2>12 DEF FormInv
    <2>14. ServersInv'
      BY <1>1, <2>7, ServersKept, WaitingSameThreads DEF IInv, Child
    <2>15. LoadableInv'
      BY <2>4, <2>5, <2>7, <2>11, SMTT(40) DEF LoadableInv, Loadable
    <2>16. IndexUnique'
      BY <2>4, <2>7, <2>9 DEF IndexUnique, Known, Index
    <2>17. DatabaseCurrent' /\ StartsAgain'
      BY <2>6, <2>7 DEF DatabaseCurrent, StartsAgain
    <2> QED BY <1>3, <2>13, <2>14, <2>15, <2>16, <2>17 DEF IInv, TableInv
  <1> QED BY <1>4, <1>5 DEF Start

-----------------------------------------------------------------------------
LEMMA StepInv == IInv /\ [Next]_vars => IInv'
  <1> SUFFICES ASSUME IInv, [Next]_vars PROVE IInv'
    OBVIOUS
  <1>1. CASE Environment
    BY <1>1, QuitInv, CommandInv, ChildrenInv, AcceptInv, StopInv, StartInv DEF Environment, Killed
  <1>2. CASE MainStep
    BY <1>2, ForkInv, CountInv, ReapInv, TermInv, DestroyInv, StopInv DEF MainStep, Exit
  <1>3. CASE \E t \in Threads : ThreadStep(t)
    BY <1>3, AddInv, DelInv, ShutdownInv, ListInv, LookupInv, BgctlInv, SettleInv DEF ThreadStep
  <1>4. CASE \E c \in Clients : exec_xnbd_server(c)
    BY <1>4, ChildrenInv
  <1>5. CASE \E who \in Threads \cup {"main"} : Save(who)
    BY <1>5, SaveInv
  <1>6. CASE UNCHANGED vars
    <2>1. /\ ThreadsFormed' /\ \A u \in Threads : Same(u)
          /\ UNCHANGED <<p_disk_dict, images_added_ever, database, failed, main, accepted, child,
                         p_server_pid_set, child_process_count>>
      BY <1>6, ThreadsSame
         DEF IInv, FormInv, vars, tableVars, fileVars, mainVars, threadVars, childVars
    <2>2. ServersInv'
      BY <1>6, <2>1, ServersKept, WaitingSameThreads DEF IInv, Child, vars, threadVars
    <2>3. FormInv'
      BY <2>1 DEF IInv, FormInv, ChildrenFormed, TableFormed, DatabaseFormed, Known, Entry, Index, Same
    <2>4. TableInv'
      BY <2>1, TableKept DEF IInv, Harmless, SavesGoOn, Same, MainGoesOn
    <2> QED BY <2>2, <2>3, <2>4 DEF IInv
  <1> QED BY <1>1, <1>2, <1>3, <1>4, <1>5, <1>6 DEF Next

LEMMA Invariant == Spec => []IInv
  BY InitInv, StepInv, PTL DEF Spec

\* child_process_count is the number of servers and xnbd-bgctl processes that
\* run, but for a server forked and not counted yet, whatever commands, clients
\* and signals arrive, and in whatever order.
THEOREM ChildrenCounted == Spec => []CountExact
  <1>1. IInv => CountExact
    BY DEF IInv, ServersInv
  <1> QED BY <1>1, Invariant, PTL

\* Never more than MAX_NSRVS servers are children of the wrapper, although the
\* limit is read in one critical section and the count raised in another.
THEOREM ServersLimited == Spec => []ServersBounded
  <1>1. IInv => ServersBounded
    BY DEF IInv, ServersInv
  <1> QED BY <1>1, Invariant, PTL

\* No two images in the list share a number, and a number is never given again.
THEOREM NumbersUnique == Spec => []IndexUnique
  <1>1. IInv => IndexUnique
    BY DEF IInv, TableInv
  <1> QED BY <1>1, Invariant, PTL

\* When no command is between its change and its save, and no save failed, the
\* database file holds the table.
THEOREM TableSaved == Spec => []DatabaseCurrent
  <1>1. IInv => DatabaseCurrent
    BY DEF IInv, TableInv
  <1> QED BY <1>1, Invariant, PTL

\* The wrapper refuses to start only over a database that it was stopped, or
\* failed, in the middle of writing, as long as no command runs beside a
\* bgctl-switch or a bgctl-reconnect.
THEOREM LoadsItsOwn == OneAtATime => (Spec => []StartsAgain)
  <1> SUFFICES ASSUME OneAtATime PROVE Spec => []StartsAgain
    OBVIOUS
  <1>1. IInv => StartsAgain
    BY DEF IInv, TableInv
  <1> QED BY <1>1, Invariant, PTL

\* What the database held when the wrapper was started is registered again, or
\* else is in the .prev file.
THEOREM RegisteredOrKept == Spec => StartKeeps
  <1>1. ASSUME [Next]_vars, main = "exited", main' = "wait" PROVE Start
    <2>1. ~Up
      BY <1>1 DEF Up
    <2>2. main' # main
      BY <1>1
    <2>3. CASE Environment
      <3>1. CASE \E t \in Threads : Quit(t) \/ \E line \in Lines[t] : Command(t, line)
        BY <2>1, <3>1 DEF Quit, Command
      <3>2. CASE \E c \in Clients : Negotiate(c) \/ ServerEnds(c)
        BY <2>2, <3>2 DEF Negotiate, ServerEnds, mainVars
      <3>3. CASE Accept \/ Killed
        BY <1>1, <3>3 DEF Accept, Killed, Up
      <3> QED BY <2>3, <3>1, <3>2, <3>3 DEF Environment
    <2>4. ~MainStep
      BY <1>1 DEF MainStep, Fork, Count, waitpid_nohang, Term, Destroy, Exit
    <2>5. ~\E t \in Threads : ThreadStep(t)
      BY <2>1 DEF ThreadStep, add_diskimg, del_diskimg, perform_shutdown, list_diskimg,
                         handle_bgctl_command, waitpid_bgctl, settle
    <2>6. ~\E c \in Clients : exec_xnbd_server(c)
      BY <2>2 DEF exec_xnbd_server, mainVars
    <2>7. ~\E who \in Threads \cup {"main"} : Save(who)
      BY <2>1 DEF Save, Truncate, dump_registered_images
    <2>8. ~UNCHANGED vars
      BY <2>2 DEF vars, mainVars
    <2> QED BY <1>1, <2>3, <2>4, <2>5, <2>6, <2>7, <2>8 DEF Next
  <1>2. ASSUME Start, main' = "wait", NEW n \in DOMAIN database.images
        PROVE  \/ n \in DOMAIN p_disk_dict' /\ p_disk_dict'[n].image = database.images[n]
               \/ n \in DOMAIN backup' /\ backup'[n] = database.images[n]
    <2>1. PICK skipped \in SUBSET DOMAIN database.images :
            LET loaded == DOMAIN database.images \ skipped
                order == CHOOSE f \in [loaded -> 0 .. Cardinality(loaded) - 1] : IsInjective(f) IN
            /\ p_disk_dict' = [m \in loaded |-> [index |-> order[m], image |-> database.images[m]]]
            /\ backup' = Backup(skipped)
      BY <1>2 DEF Start
    <2>2. CASE n \in skipped
      BY <2>1, <2>2 DEF Backup
    <2>3. CASE n \notin skipped
      BY <2>1, <2>3
    <2> QED BY <2>2, <2>3
  <1>3. [Next]_vars => [main = "exited" /\ main' = "wait" =>
          \A n \in DOMAIN database.images :
            \/ n \in DOMAIN p_disk_dict' /\ p_disk_dict'[n].image = database.images[n]
            \/ n \in DOMAIN backup' /\ backup'[n] = database.images[n]]_vars
    BY <1>1, <1>2
  <1> QED BY <1>3, PTL DEF Spec, StartKeeps

\* The settings of an image change only by a bgctl-switch or a bgctl-reconnect
\* that was given for this very registration, not for one of the same name before
\* it, as long as no command runs beside these two.
THEOREM ChangesExplained == OneAtATime => (Spec => ChangesOwn)
  <1> SUFFICES ASSUME OneAtATime PROVE Spec => ChangesOwn
    OBVIOUS
  <1> DEFINE Own(n) ==
        /\ p_disk_dict[n].index = p_disk_dict'[n].index
        /\ p_disk_dict[n].image # p_disk_dict'[n].image
        => \E t \in Threads : /\ thread[t].pc = "settle" /\ thread'[t].pc = "save"
                              /\ thread[t].copy = p_disk_dict[n].index
  <1>1. ASSUME IInv, [Next]_vars, NEW n \in Known, n \in Known', p_disk_dict'[n] # p_disk_dict[n]
        PROVE  \E t \in Threads : settle(t)
    <2>1. ~UNCHANGED p_disk_dict
      BY <1>1
    <2>2. ~UNCHANGED tableVars
      BY <2>1 DEF tableVars
    <2>3. ~UNCHANGED vars
      BY <2>2 DEF vars
    <2>4. ~Start
      BY <1>1 DEF Start, IInv, FormInv, Known
    <2>5. ~Destroy /\ ~Stop
      BY <1>1 DEF Destroy, Stop, Empty, Known
    <2>6. ~Environment
      BY <2>2, <2>4, <2>5 DEF Environment, Quit, Command, Negotiate, ServerEnds, Accept, Killed
    <2>7. ~MainStep
      BY <2>2, <2>5 DEF MainStep, Fork, Count, waitpid_nohang, Term, Exit
    <2>8. ~\E c \in Clients : exec_xnbd_server(c)
      BY <2>2 DEF exec_xnbd_server
    <2>9. ~\E who \in Threads \cup {"main"} : Save(who)
      BY <2>2 DEF Save, Truncate, dump_registered_images
    <2>10. PICK t \in Threads : ThreadStep(t)
      BY <1>1, <2>3, <2>6, <2>7, <2>8, <2>9 DEF Next
    <2>11. ~add_diskimg(t)
      BY <1>1, <2>2 DEF add_diskimg, Known
    <2>12. ~del_diskimg(t)
      BY <1>1 DEF del_diskimg, Restrict, Known
    <2> QED BY <2>2, <2>10, <2>11, <2>12
               DEF ThreadStep, perform_shutdown, list_diskimg, handle_bgctl_command, waitpid_bgctl
  <1>2. ASSUME IInv, NEW n \in Known, NEW t \in Threads, settle(t), p_disk_dict'[n] # p_disk_dict[n]
        PROVE  /\ thread[t].pc = "settle" /\ thread'[t].pc = "save"
               /\ thread[t].copy = p_disk_dict[n].index
    <2>1. Pc(t) = "settle" /\ Goto(t, "save")
      BY <1>2 DEF settle, Pc
    <2>2. thread'[t].pc = "save"
      BY <1>2, <2>1 DEF Goto, IInv, FormInv, ThreadsFormed, ThreadFields
    <2>3. n = Arg(t)
      BY <1>2 DEF settle, Arg, Known
    <2>4. Copy(t) = Index(n)
      BY <1>2, <2>1, <2>3 DEF IInv, TableInv, AloneInv
    <2> QED BY <2>1, <2>2, <2>4 DEF Pc, Copy, Index
  <1>3. ASSUME IInv, [Next]_vars, NEW n \in DOMAIN p_disk_dict \cap DOMAIN p_disk_dict' PROVE Own(n)
    BY <1>1, <1>2, <1>3 DEF Known
  <1>4. IInv /\ [Next]_vars => [\A n \in DOMAIN p_disk_dict \cap DOMAIN p_disk_dict' : Own(n)]_vars
    BY <1>3
  <1> QED BY <1>4, Invariant, PTL DEF Spec, ChangesOwn

=============================================================================
