-------------------------- MODULE DescriptorProofs --------------------------
(***************************************************************************)
(* Proofs about Descriptor: whatever the number of descriptors, whatever   *)
(* the files, and however deep archives nest, elf_end() frees nothing that *)
(* an open member still uses and forgets nothing.                          *)
(***************************************************************************)
EXTENDS Descriptor, FiniteSetTheorems, TLAPS

\* The image an open descriptor owns is still there.
RawPresent ==
  \A h \in Handle : Alive(h) /\ elf[h].raw # "none" => <<"raw", h>> \in heap

\* e_parent of an open member is an open archive, and the member is one of
\* those of the archive's image.
ParentOpen ==
  \A h, p \in Handle : Alive(h) /\ elf[h].parent = p =>
    /\ Alive(p) /\ elf[p].kind = "AR"
    /\ elf[p].img \in Image
    /\ elf[h].pos \in 1 .. Len(Members[elf[p].img])

\* e_next of an archive is 0 or at a member.
NextAtMember ==
  \A h \in Handle : Alive(h) /\ elf[h].kind = "AR" =>
    /\ elf[h].img \in Image
    /\ elf[h].next \in 0 .. Len(Members[elf[h].img])

\* The blocks of a descriptor are those its fields say it owns.
BlocksKnown ==
  \A h \in Handle : Alive(h) =>
    /\ <<"raw", h>> \in heap => elf[h].raw # "none"
    /\ <<"symtab", h>> \in heap => elf[h].kind = "AR"

\* What is gone is in no archive.
AbsentAlone == \A h \in Handle : ~Alive(h) => elf[h].parent = NULL

\* The inductive invariant.
IInv ==
  /\ TypeOK
  /\ RawPresent
  /\ BlocksKnown
  /\ AbsentAlone
  /\ ParentOpen
  /\ NextAtMember
  /\ ChildCount
  /\ HandlesLive
  /\ LoopSafe
  /\ Reclaimed

-----------------------------------------------------------------------------
(* What the calls do, reduced to a few kinds of step.                      *)

\* Nothing but the error code, the version or a cached block changes.
Quiet ==
  /\ elf' = elf /\ held' = held /\ closing' = closing
  /\ heap \subseteq heap' /\ heap' \in SUBSET Blocks
  /\ \A h \in Handle :
       /\ Alive(h)' <=> Alive(h)
       /\ <<"raw", h>> \in heap' => <<"raw", h>> \in heap \/ ~Alive(h)
       /\ <<"symtab", h>> \in heap' => <<"symtab", h>> \in heap \/ elf[h].kind = "AR"

\* h becomes descriptor e outside any archive, returned or leaked.
New(h, e) ==
  /\ Unused(h)
  /\ e \in Descriptors /\ e.acts = 1 /\ e.parent = NULL /\ e.nchildren = 0
  /\ e.kind = "AR" => /\ e.img \in Image
                      /\ e.next \in 0 .. Len(Members[e.img])
  /\ elf' = [elf EXCEPT ![h] = e]
  /\ heap' = heap \cup {<<"elf", h>>}
                  \cup (IF e.raw = "none" THEN {} ELSE {<<"raw", h>>})
  /\ held' \in {held, [held EXCEPT ![h] = 1]}
  /\ closing' = closing

\* h becomes member e of archive a.
NewMember(a, h, e) ==
  /\ Unused(h) /\ held[a] > 0 /\ elf[a].kind = "AR"
  /\ e \in Descriptors /\ e.acts = 1 /\ e.parent = a /\ e.nchildren = 0
  /\ e.raw = "none"
  /\ e.pos \in 1 .. Len(Members[elf[a].img])
  /\ e.kind = "AR" => /\ e.img \in Image
                      /\ e.next \in 0 .. Len(Members[e.img])
  /\ elf' = [elf EXCEPT ![h] = e, ![a].nchildren = @ + 1]
  /\ heap' = heap \cup {<<"elf", h>>}
  /\ held' = [held EXCEPT ![h] = 1]
  /\ closing' = closing

\* Only e_next and e_fd of descriptor h change.
Tweak(h, e) ==
  /\ Alive(h)
  /\ e \in Descriptors
  /\ e.kind = elf[h].kind /\ e.img = elf[h].img /\ e.raw = elf[h].raw
  /\ e.acts = elf[h].acts /\ e.parent = elf[h].parent
  /\ e.pos = elf[h].pos /\ e.nchildren = elf[h].nchildren
  /\ e.kind = "AR" => e.next \in 0 .. Len(Members[e.img])
  /\ elf' = [elf EXCEPT ![h] = e]
  /\ heap' = heap /\ held' = held /\ closing' = closing

-----------------------------------------------------------------------------
(* What no step does.                                                      *)

\* What goes with a descriptor, and what does not.
Frees ==
  \A h \in Handle :
    Alive(h) /\ ~Alive(h)' =>
      /\ <<"raw", h>> \notin heap' /\ <<"symtab", h>> \notin heap'
      /\ \A b \in heap \ heap' : b[2] = h

\* A step of Lifetime, or none.
Allowed == Promise!Next \/ UNCHANGED Promise!vars
Sound == Frees /\ Allowed

Living == {h \in Handle : Known(h)}
Parents == [h \in Handle |-> elf[h].parent]

LEMMA NothingFreed ==
  ASSUME heap \subseteq heap'
  PROVE  Frees
BY DEF Frees, Alive

\* Calls that open and close nothing, as Lifetime sees them.
LEMMA SameLives ==
  ASSUME heap \subseteq heap', held' = held,
         \A h \in Handle : /\ Alive(h)' <=> Alive(h)
                           /\ elf'[h].acts = elf[h].acts /\ elf'[h].parent = elf[h].parent
  PROVE  Sound
<1>1. Living' = Living /\ Parents' = Parents
  BY DEF Living, Parents, Known
<1> QED BY <1>1, NothingFreed DEF Sound, Allowed, Promise!vars, Living, Parents

-----------------------------------------------------------------------------
\* Unpacking of the definition of a block.
LEMMA BlocksOf ==
  ASSUME NEW h \in Handle
  PROVE  /\ <<"elf", h>> \in Blocks /\ <<"raw", h>> \in Blocks
         /\ <<"arhdr", h>> \in Blocks /\ <<"symtab", h>> \in Blocks
BY DEF Blocks

\* The memory given to a new descriptor is no descriptor's, and no open
\* descriptor calls it its archive.
LEMMA UnusedFacts ==
  ASSUME IInv, NEW h \in Handle, Unused(h)
  PROVE  /\ ~Alive(h) /\ held[h] = 0 /\ closing # h
         /\ <<"raw", h>> \notin heap /\ <<"symtab", h>> \notin heap
         /\ \A c \in Handle : Alive(c) => elf[c].parent # h
         /\ Children(h) = {}
<1>1. ~Alive(h) /\ <<"raw", h>> \notin heap /\ <<"symtab", h>> \notin heap
  BY BlocksOf DEF Unused, Alive
<1>2. held[h] = 0
  BY <1>1 DEF IInv, HandlesLive, TypeOK
<1>3. closing # h
  BY <1>1, HandleAssumption DEF IInv, LoopSafe
<1>4. \A c \in Handle : Alive(c) => elf[c].parent # h
  BY <1>1, HandleAssumption DEF IInv, ParentOpen
<1> QED BY <1>1, <1>2, <1>3, <1>4 DEF Children

\* A descriptor with no open members according to the test of elf_end() is
\* the archive of none.
LEMMA Childless ==
  ASSUME IInv, NEW h \in Handle, Alive(h), ~HasOpenMembers(h)
  PROVE  \A c \in Handle : Alive(c) => elf[c].parent # h
<1>1. SUFFICES ASSUME NEW c \in Handle, Alive(c), elf[c].parent = h
               PROVE  FALSE
  OBVIOUS
<1>2. elf[h].kind = "AR"
  BY <1>1, HandleAssumption DEF IInv, ParentOpen
<1>3. elf[h].nchildren = 0
  BY <1>2 DEF HasOpenMembers, IInv, TypeOK, Descriptors
<1>4. Cardinality(Children(h)) = 0
  BY <1>3 DEF IInv, ChildCount
<1>5. IsFiniteSet(Children(h))
  BY HandleAssumption, FS_Subset DEF Children
<1>6. Children(h) = {}
  BY <1>4, <1>5, FS_EmptySet
<1> QED BY <1>1, <1>6 DEF Children

\* A fresh descriptor has the type of one.
LEMMA FreshType ==
  ASSUME NEW i \in Image
  PROVE  /\ Fresh(i) \in Descriptors
         /\ Fresh(i).img = i /\ Fresh(i).acts = 1 /\ Fresh(i).parent = NULL
         /\ Fresh(i).nchildren = 0 /\ Fresh(i).raw = "none"
         /\ Fresh(i).next \in 0 .. Len(Members[i])
<1>1. Kind(i) \in {"NONE", "ELF", "AR"}
  BY DEF Kind
<1>2. Members[i] \in Seq(Image) /\ (Shape[i] = "ar" => Len(Members[i]) > 0)
  BY ImageAssumption
<1>3. Len(Members[i]) \in Nat
  BY <1>2
<1>4. /\ (IF Shape[i] = "ar" THEN 1 ELSE 0) \in Nat
      /\ (IF Shape[i] = "ar" THEN 1 ELSE 0) \in 0 .. Len(Members[i])
  BY <1>2, <1>3
<1> QED BY <1>1, <1>4 DEF Fresh, Descriptors

-----------------------------------------------------------------------------
(* Each kind of step preserves the invariant.                              *)

\* The type of the two variables no property depends on.
Minor == version' \in {"NONE", "CURRENT"} /\ err' \in Errors

\* The inductive invariant survives a step that opens and closes nothing.
LEMMA QuietStep ==
  ASSUME IInv, Minor, Quiet
  PROVE  IInv' /\ Sound
<1>1. \A h \in Handle : Alive(h)' <=> Alive(h)
  BY DEF Quiet
<1>2. TypeOK'
  BY DEF IInv, TypeOK, Minor, Quiet
<1>3. RawPresent'
  BY <1>1 DEF IInv, RawPresent, Quiet
<1>4. ParentOpen'
  BY <1>1 DEF IInv, ParentOpen, Quiet
<1>5. NextAtMember'
  BY <1>1 DEF IInv, NextAtMember, Quiet
<1>6. ChildCount'
  <2>1. \A p : Children(p)' = Children(p)
    BY <1>1 DEF Children, Quiet
  <2> QED BY <1>1, <2>1 DEF IInv, ChildCount, Quiet
<1>7. HandlesLive'
  BY <1>1 DEF IInv, HandlesLive, Quiet
<1>8. LoopSafe'
  <2>1. closing # NULL => closing \in Handle
    BY DEF IInv, TypeOK
  <2> QED BY <1>1, <2>1 DEF IInv, LoopSafe, Quiet
<1>9. Reclaimed'
  BY <1>1 DEF IInv, Reclaimed, Quiet
<1>10. BlocksKnown' /\ AbsentAlone'
  BY <1>1 DEF IInv, BlocksKnown, AbsentAlone, Quiet
<1>11. Sound
  BY <1>1, SameLives DEF Quiet
<1> QED BY <1>2, <1>3, <1>4, <1>5, <1>6, <1>7, <1>8, <1>9, <1>10, <1>11 DEF IInv

\* The inductive invariant survives the creation of a descriptor outside any
\* archive.
LEMMA NewStep ==
  ASSUME IInv, Minor, NEW h \in Handle, NEW e, New(h, e)
  PROVE  IInv' /\ Sound
<1>1. /\ ~Alive(h) /\ held[h] = 0 /\ closing # h
      /\ \A c \in Handle : Alive(c) => elf[c].parent # h
      /\ Children(h) = {}
  BY UnusedFacts DEF New
<1>2. \A g \in Handle : Alive(g)' <=> Alive(g) \/ g = h
  BY DEF New, Alive
<1>3. /\ elf \in [Handle -> Descriptors] /\ e \in Descriptors
      /\ elf'[h] = e
      /\ \A g \in Handle : g # h => elf'[g] = elf[g]
  BY DEF IInv, TypeOK, New
<1>4. TypeOK'
  <2>1. elf' \in [Handle -> Descriptors]
    BY <1>3 DEF New
  <2>2. heap' \in SUBSET Blocks
    BY BlocksOf DEF IInv, TypeOK, New
  <2>3. held' \in [Handle -> Nat] /\ closing' \in Handle \cup {NULL}
    BY DEF IInv, TypeOK, New
  <2> QED BY <2>1, <2>2, <2>3 DEF TypeOK, Minor
<1>5. RawPresent'
  <2>1. heap \subseteq heap' /\ (e.raw # "none" => <<"raw", h>> \in heap')
    BY DEF New
  <2> QED BY <1>2, <1>3, <2>1 DEF IInv, RawPresent
<1>6. ParentOpen'
  <2> SUFFICES ASSUME NEW g \in Handle, NEW p \in Handle,
                      Alive(g)', elf'[g].parent = p
               PROVE  /\ Alive(p)' /\ elf'[p].kind = "AR"
                      /\ elf'[p].img \in Image
                      /\ elf'[g].pos \in 1 .. Len(Members[elf'[p].img])
    BY DEF ParentOpen
  <2>1. g # h
    BY <1>3, HandleAssumption DEF New
  <2>2. Alive(g) /\ elf'[g] = elf[g] /\ p # h
    BY <1>1, <1>2, <1>3, <2>1
  <2> QED BY <1>2, <1>3, <2>2 DEF IInv, ParentOpen
<1>7. NextAtMember'
  BY <1>2, <1>3 DEF IInv, NextAtMember, New
<1>8. ChildCount'
  <2>1. Children(h)' = {}
    BY <1>1, <1>2, <1>3, HandleAssumption DEF Children, New
  <2>2. \A p \in Handle : p # h => Children(p)' = Children(p)
    BY <1>1, <1>2, <1>3, HandleAssumption DEF Children, New
  <2>3. elf'[h].nchildren = 0
    BY <1>3 DEF New
  <2> QED BY <1>2, <1>3, <2>1, <2>2, <2>3, FS_EmptySet DEF IInv, ChildCount
<1>9. HandlesLive'
  <2>1. /\ \A g \in Handle : g # h => held'[g] = held[g]
        /\ held'[h] \in {0, 1}
    BY <1>1 DEF New, IInv, TypeOK
  <2>2. elf'[h].acts = 1
    BY <1>3 DEF New
  <2> QED BY <1>2, <1>3, <2>1, <2>2 DEF IInv, HandlesLive
<1>10. LoopSafe'
  <2>1. closing' = closing /\ closing # h
    BY <1>1 DEF New
  <2>2. closing # NULL => closing \in Handle
    BY DEF IInv, TypeOK
  <2> QED BY <1>2, <1>3, <2>1, <2>2 DEF IInv, LoopSafe
<1>11. Reclaimed'
  <2>1. elf'[h].acts > 0 /\ closing' = closing
    BY <1>3 DEF New
  <2> QED BY <1>2, <1>3, <2>1 DEF IInv, Reclaimed
<1>12. BlocksKnown' /\ AbsentAlone'
  <2>1. <<"symtab", h>> \notin heap' /\ (<<"raw", h>> \in heap' => e.raw # "none")
    BY UnusedFacts DEF New
  <2>2. \A g \in Handle : g # h =>
          /\ <<"raw", g>> \in heap' <=> <<"raw", g>> \in heap
          /\ <<"symtab", g>> \in heap' <=> <<"symtab", g>> \in heap
    BY DEF New
  <2> QED BY <1>2, <1>3, <2>1, <2>2 DEF IInv, BlocksKnown, AbsentAlone
<1>13. Frees
  BY NothingFreed DEF New
<1>14. Allowed
  <2>1. elf'[h].acts = 1 /\ elf'[h].parent = NULL /\ elf[h].parent = NULL
    BY <1>1, <1>3 DEF New, IInv, AbsentAlone
  <2>2. Parents' = Parents /\ Parents' = [Parents EXCEPT ![h] = NULL]
    BY <1>3, <2>1 DEF Parents
  <2>3. CASE held' = held
    <3>1. Living' = Living
      BY <1>1, <1>2, <1>3, <2>1, <2>3 DEF Living, Known
    <3> QED BY <2>2, <2>3, <3>1 DEF Allowed, Promise!vars, Living, Parents
  <2>4. CASE held' = [held EXCEPT ![h] = 1]
    <3>1. held'[h] = 1 /\ \A g \in Handle : g # h => held'[g] = held[g]
      BY <2>4 DEF IInv, TypeOK
    <3>2. h \notin Living /\ Living' = Living \cup {h}
      BY <1>1, <1>2, <1>3, <2>1, <3>1 DEF Living, Known
    <3>3. Promise!Open(h)
      BY <2>2, <2>4, <3>2 DEF Promise!Open, Living, Parents
    <3> QED BY <3>3 DEF Allowed, Promise!Next
  <2> QED BY <2>3, <2>4 DEF New
<1> QED BY <1>4, <1>5, <1>6, <1>7, <1>8, <1>9, <1>10, <1>11, <1>12, <1>13, <1>14 DEF IInv, Sound

\* The inductive invariant survives the opening of a member.
LEMMA NewMemberStep ==
  ASSUME IInv, Minor, NEW a \in Handle, NEW h \in Handle, NEW e,
         NewMember(a, h, e)
  PROVE  IInv' /\ Sound
<1>1. /\ ~Alive(h) /\ held[h] = 0 /\ closing # h
      /\ \A c \in Handle : Alive(c) => elf[c].parent # h
      /\ Children(h) = {}
  BY UnusedFacts DEF NewMember
<1>2. \A g \in Handle : Alive(g)' <=> Alive(g) \/ g = h
  BY DEF NewMember, Alive
<1>3. Alive(a) /\ a # h /\ elf[a].kind = "AR" /\ elf[a].img \in Image
  BY <1>1 DEF IInv, HandlesLive, NextAtMember, NewMember
<1>4. /\ elf \in [Handle -> Descriptors] /\ e \in Descriptors
      /\ elf' = [[elf EXCEPT ![h] = e] EXCEPT
                   ![a] = [elf[a] EXCEPT !.nchildren = @ + 1]]
      /\ elf[a] \in Descriptors
  BY <1>3 DEF IInv, TypeOK, NewMember
<1>5. /\ [elf[a] EXCEPT !.nchildren = @ + 1] \in Descriptors
      /\ elf'[h] = e
      /\ elf'[a] = [elf[a] EXCEPT !.nchildren = @ + 1]
      /\ \A g \in Handle : g # h /\ g # a => elf'[g] = elf[g]
  BY <1>3, <1>4 DEF Descriptors
<1>6a. /\ elf'[a].kind = elf[a].kind /\ elf'[a].img = elf[a].img
       /\ elf'[a].raw = elf[a].raw /\ elf'[a].acts = elf[a].acts
       /\ elf'[a].parent = elf[a].parent /\ elf'[a].pos = elf[a].pos
       /\ elf'[a].next = elf[a].next
       /\ elf'[a].nchildren = elf[a].nchildren + 1
       /\ elf[a].nchildren \in Nat
  BY <1>4, <1>5 DEF Descriptors
<1>6. /\ elf'[a].nchildren = elf[a].nchildren + 1
      /\ elf[a].nchildren \in Nat
      /\ \A g \in Handle : g # h =>
           /\ elf'[g].kind = elf[g].kind /\ elf'[g].img = elf[g].img
           /\ elf'[g].raw = elf[g].raw /\ elf'[g].acts = elf[g].acts
           /\ elf'[g].parent = elf[g].parent /\ elf'[g].pos = elf[g].pos
           /\ elf'[g].next = elf[g].next
  BY <1>5, <1>6a
<1>6b. /\ elf'[h].acts = 1 /\ elf'[h].parent = a
       /\ elf'[h].nchildren = 0 /\ elf'[h].raw = "none"
       /\ elf'[h].pos \in 1 .. Len(Members[elf[a].img])
       /\ elf'[h].kind = "AR" => /\ elf'[h].img \in Image
                                 /\ elf'[h].next \in 0 .. Len(Members[elf'[h].img])
  BY <1>5 DEF NewMember
<1>7. TypeOK'
  <2>1. elf' \in [Handle -> Descriptors]
    BY <1>3, <1>4, <1>5
  <2>2. heap' \in SUBSET Blocks
    BY BlocksOf DEF IInv, TypeOK, NewMember
  <2>3. held' \in [Handle -> Nat] /\ closing' \in Handle \cup {NULL}
    BY DEF IInv, TypeOK, NewMember
  <2> QED BY <2>1, <2>2, <2>3 DEF TypeOK, Minor
<1>8. RawPresent'
  <2>1. heap \subseteq heap' /\ e.raw = "none"
    BY DEF NewMember
  <2> QED BY <1>2, <1>3, <1>5, <1>6, <2>1 DEF IInv, RawPresent
<1>9. ParentOpen'
  <2> SUFFICES ASSUME NEW g \in Handle, NEW p \in Handle,
                      Alive(g)', elf'[g].parent = p
               PROVE  /\ Alive(p)' /\ elf'[p].kind = "AR"
                      /\ elf'[p].img \in Image
                      /\ elf'[g].pos \in 1 .. Len(Members[elf'[p].img])
    BY DEF ParentOpen
  <2>1. CASE g = h
    BY <1>2, <1>3, <1>6, <1>6b, <2>1
  <2>2. CASE g # h
    <3>1. Alive(g) /\ elf[g].parent = p /\ elf'[g].pos = elf[g].pos
      BY <1>2, <1>6, <2>2
    <3>2. p # h
      BY <1>1, <3>1
    <3>3. Alive(p) /\ elf[p].kind = "AR" /\ elf[p].img \in Image
            /\ elf[g].pos \in 1 .. Len(Members[elf[p].img])
      BY <3>1 DEF IInv, ParentOpen
    <3> QED BY <1>2, <1>6, <3>1, <3>2, <3>3
  <2> QED BY <2>1, <2>2
<1>10. NextAtMember'
  BY <1>2, <1>6, <1>6b DEF IInv, NextAtMember
<1>11. ChildCount'
  <2>1. Children(h)' = {}
    BY <1>1, <1>2, <1>3, <1>6, <1>6b DEF Children
  <2>2. \A p \in Handle : p # h /\ p # a => Children(p)' = Children(p)
    BY <1>1, <1>2, <1>3, <1>6, <1>6b DEF Children
  <2>3. Children(a)' = Children(a) \cup {h} /\ h \notin Children(a)
    BY <1>1, <1>2, <1>3, <1>6, <1>6b DEF Children
  <2>4. IsFiniteSet(Children(a))
    BY HandleAssumption, FS_Subset DEF Children
  <2>5. Cardinality(Children(a)') = Cardinality(Children(a)) + 1
    BY <2>3, <2>4, FS_AddElement
  <2>6. elf'[h].nchildren = 0
    BY <1>5 DEF NewMember
  <2> QED BY <1>2, <1>3, <1>5, <1>6, <2>1, <2>2, <2>5, <2>6, FS_EmptySet
          DEF IInv, ChildCount
<1>12. HandlesLive'
  <2>1. /\ \A g \in Handle : g # h => held'[g] = held[g]
        /\ held'[h] = 1
    BY DEF NewMember, IInv, TypeOK
  <2>2. elf'[h].acts = 1
    BY <1>5 DEF NewMember
  <2> QED BY <1>2, <1>5, <1>6, <2>1, <2>2 DEF IInv, HandlesLive
<1>13. LoopSafe'
  <2>1. closing' = closing /\ closing # h
    BY <1>1 DEF NewMember
  <2>2. closing # NULL => closing \in Handle
    BY DEF IInv, TypeOK
  <2> QED BY <1>2, <1>5, <1>6, <2>1, <2>2 DEF IInv, LoopSafe
<1>14. Reclaimed'
  <2>1. closing' = closing
    BY DEF NewMember
  <2>2. \A g \in Handle : g # h /\ g # a => elf'[g].nchildren = elf[g].nchildren
    BY <1>5
  <2>3. elf[a].acts > 0 \/ a = closing \/ elf[a].nchildren > 0
    BY <1>3 DEF IInv, Reclaimed
  <2> QED BY <1>2, <1>3, <1>6, <1>6b, <2>1, <2>2, <2>3 DEF IInv, Reclaimed
<1>15. BlocksKnown' /\ AbsentAlone'
  <2>1. <<"symtab", h>> \notin heap' /\ <<"raw", h>> \notin heap'
    BY UnusedFacts DEF NewMember
  <2>2. \A g \in Handle : /\ <<"raw", g>> \in heap' <=> <<"raw", g>> \in heap
                          /\ <<"symtab", g>> \in heap' <=> <<"symtab", g>> \in heap
    BY DEF NewMember
  <2> QED BY <1>2, <1>6, <2>1, <2>2 DEF IInv, BlocksKnown, AbsentAlone
<1>16. Frees
  BY NothingFreed DEF NewMember
<1>17. Promise!Open(h)
  <2>1. held' = [held EXCEPT ![h] = 1] /\ held[a] > 0
    BY DEF NewMember
  <2>2. held'[h] = 1 /\ \A g \in Handle : g # h => held'[g] = held[g]
    BY <2>1 DEF IInv, TypeOK
  <2>3. h \notin Living /\ Living' = Living \cup {h} /\ a \in Living
    BY <1>1, <1>2, <1>3, <1>6, <1>6b, <2>1, <2>2 DEF Living, Known, IInv, HandlesLive
  <2>4. Parents' = [Parents EXCEPT ![h] = a]
    BY <1>6, <1>6b DEF Parents
  <2> QED BY <2>1, <2>3, <2>4 DEF Promise!Open, Living, Parents
<1>18. Allowed
  BY <1>17 DEF Allowed, Promise!Next
<1> QED BY <1>7, <1>8, <1>9, <1>10, <1>11, <1>12, <1>13, <1>14, <1>15, <1>16, <1>18 DEF IInv, Sound

\* The inductive invariant survives a move in an archive and ELF_C_FDDONE.
LEMMA TweakStep ==
  ASSUME IInv, Minor, NEW h \in Handle, NEW e, Tweak(h, e)
  PROVE  IInv' /\ Sound
<1>1. /\ \A g \in Handle : Alive(g)' <=> Alive(g)
      /\ held' = held /\ closing' = closing /\ heap' = heap
  BY DEF Tweak, Alive
<1>2. /\ elf'[h] = e
      /\ \A g \in Handle : g # h => elf'[g] = elf[g]
      /\ elf' \in [Handle -> Descriptors]
  BY DEF Tweak, IInv, TypeOK
<1>3. \A g \in Handle :
        /\ elf'[g].kind = elf[g].kind /\ elf'[g].img = elf[g].img
        /\ elf'[g].raw = elf[g].raw /\ elf'[g].acts = elf[g].acts
        /\ elf'[g].parent = elf[g].parent /\ elf'[g].pos = elf[g].pos
        /\ elf'[g].nchildren = elf[g].nchildren
  BY <1>2 DEF Tweak
<1>4. TypeOK'
  BY <1>1, <1>2 DEF IInv, TypeOK, Minor
<1>5. RawPresent'
  BY <1>1, <1>3 DEF IInv, RawPresent
<1>6. ParentOpen'
  BY <1>1, <1>3 DEF IInv, ParentOpen
<1>7. NextAtMember'
  BY <1>1, <1>2, <1>3 DEF IInv, NextAtMember, Tweak
<1>8. ChildCount'
  <2>1. \A p \in Handle : Children(p)' = Children(p)
    BY <1>1, <1>3 DEF Children
  <2> QED BY <1>1, <1>3, <2>1 DEF IInv, ChildCount
<1>9. HandlesLive'
  BY <1>1, <1>3 DEF IInv, HandlesLive
<1>10. LoopSafe'
  <2>1. closing # NULL => closing \in Handle
    BY DEF IInv, TypeOK
  <2> QED BY <1>1, <1>3, <2>1 DEF IInv, LoopSafe
<1>11. Reclaimed'
  BY <1>1, <1>3 DEF IInv, Reclaimed
<1>12. BlocksKnown' /\ AbsentAlone'
  BY <1>1, <1>3 DEF IInv, BlocksKnown, AbsentAlone
<1>13. Sound
  BY <1>1, <1>3, SameLives
<1> QED BY <1>4, <1>5, <1>6, <1>7, <1>8, <1>9, <1>10, <1>11, <1>12, <1>13 DEF IInv

\* The inductive invariant survives a change of one activation count that
\* the application sees too: elf_begin() on an open descriptor.
LEMMA ActivateStep ==
  ASSUME IInv, NEW a \in Handle, closing = NULL, Valid(a), Activate(a)
  PROVE  IInv' /\ Sound
<1>1. /\ \A g \in Handle : Alive(g)' <=> Alive(g)
      /\ closing' = closing /\ heap' = heap
      /\ version' = version /\ err' = err
  BY DEF Activate, Alive
<1>2. /\ elf \in [Handle -> Descriptors] /\ elf[a] \in Descriptors
      /\ held \in [Handle -> Nat]
      /\ elf' = [elf EXCEPT ![a] = [elf[a] EXCEPT !.acts = elf[a].acts + 1]]
  BY DEF Activate, IInv, TypeOK
<1>3. /\ [elf[a] EXCEPT !.acts = elf[a].acts + 1] \in Descriptors
      /\ elf[a].acts \in Nat /\ held[a] \in Nat
  BY <1>2 DEF Descriptors
<1>4. /\ elf'[a].acts = elf[a].acts + 1
      /\ held'[a] = held[a] + 1
      /\ \A g \in Handle : g # a => elf'[g] = elf[g] /\ held'[g] = held[g]
  BY <1>2 DEF Activate, Descriptors
<1>5. \A g \in Handle :
        /\ elf'[g].kind = elf[g].kind /\ elf'[g].img = elf[g].img
        /\ elf'[g].raw = elf[g].raw
        /\ elf'[g].parent = elf[g].parent /\ elf'[g].pos = elf[g].pos
        /\ elf'[g].nchildren = elf[g].nchildren /\ elf'[g].next = elf[g].next
  BY <1>2 DEF Descriptors
<1>6. TypeOK'
  <2>1. elf' \in [Handle -> Descriptors]
    BY <1>2, <1>3
  <2>2. held' \in [Handle -> Nat]
    BY <1>2 DEF Activate
  <2> QED BY <1>1, <2>1, <2>2 DEF IInv, TypeOK
<1>7. RawPresent' /\ ParentOpen' /\ NextAtMember'
  BY <1>1, <1>5 DEF IInv, RawPresent, ParentOpen, NextAtMember
<1>8. ChildCount'
  <2>1. \A p \in Handle : Children(p)' = Children(p)
    BY <1>1, <1>5 DEF Children
  <2> QED BY <1>1, <1>5, <2>1 DEF IInv, ChildCount
<1>9. HandlesLive'
  BY <1>1, <1>3, <1>4 DEF IInv, HandlesLive, Valid
<1>10. LoopSafe'
  BY <1>1 DEF LoopSafe
<1>11. Reclaimed'
  BY <1>1, <1>3, <1>4, <1>5 DEF IInv, Reclaimed
<1>12. BlocksKnown' /\ AbsentAlone'
  BY <1>1, <1>5 DEF IInv, BlocksKnown, AbsentAlone
<1>13. Promise!Again(a)
  <2>1. Alive(a) /\ elf[a].acts = held[a] /\ held[a] > 0 /\ held[a] \in Nat
    BY <1>2 DEF IInv, HandlesLive, Valid
  <2>2. a \in Living /\ Living' = Living /\ Parents' = Parents
    BY <1>1, <1>2, <1>4, <1>5, <2>1 DEF Living, Parents, Known
  <2> QED BY <2>1, <2>2 DEF Activate, Promise!Again, Living, Parents
<1>14. Sound
  BY <1>1, <1>13, NothingFreed DEF Sound, Allowed, Promise!Next
<1> QED BY <1>6, <1>7, <1>8, <1>9, <1>10, <1>11, <1>12, <1>14 DEF IInv

\* The inductive invariant survives the first half of elf_end(), which drops
\* an activation.
LEMMA EndStep ==
  ASSUME IInv, NEW a \in Handle, elf_end(a)
  PROVE  IInv' /\ Sound
<1>1. /\ \A g \in Handle : Alive(g)' <=> Alive(g)
      /\ heap' = heap /\ version' = version /\ err' = err
      /\ closing = NULL
      /\ closing' = IF elf[a].acts = 1 THEN a ELSE NULL
  BY DEF elf_end, Alive, LastActivation
<1>2. /\ elf \in [Handle -> Descriptors] /\ elf[a] \in Descriptors
      /\ held \in [Handle -> Nat]
      /\ elf' = [elf EXCEPT ![a] = [elf[a] EXCEPT !.acts = elf[a].acts - 1]]
  BY DEF elf_end, IInv, TypeOK
<1>3. Alive(a) /\ elf[a].acts = held[a] /\ held[a] > 0 /\ held[a] \in Nat
  BY <1>2 DEF IInv, HandlesLive, elf_end, Valid
<1>3a. elf[a].acts - 1 \in Nat /\ held[a] - 1 \in Nat
  BY <1>3
<1>3b. [elf[a] EXCEPT !.acts = elf[a].acts - 1] \in Descriptors
  BY <1>2, <1>3a DEF Descriptors
<1>4. /\ elf'[a].acts = elf[a].acts - 1
      /\ held'[a] = held[a] - 1
      /\ \A g \in Handle : g # a => elf'[g] = elf[g] /\ held'[g] = held[g]
  BY <1>2 DEF elf_end, Descriptors
<1>5. \A g \in Handle :
        /\ elf'[g].kind = elf[g].kind /\ elf'[g].img = elf[g].img
        /\ elf'[g].raw = elf[g].raw
        /\ elf'[g].parent = elf[g].parent /\ elf'[g].pos = elf[g].pos
        /\ elf'[g].nchildren = elf[g].nchildren /\ elf'[g].next = elf[g].next
  BY <1>2 DEF Descriptors
<1>6. TypeOK'
  <2>1. elf' \in [Handle -> Descriptors]
    BY <1>2, <1>3b
  <2>2. held' \in [Handle -> Nat]
    BY <1>2, <1>3a DEF elf_end
  <2> QED BY <1>1, <2>1, <2>2 DEF IInv, TypeOK
<1>7. RawPresent' /\ ParentOpen' /\ NextAtMember'
  BY <1>1, <1>5 DEF IInv, RawPresent, ParentOpen, NextAtMember
<1>8. ChildCount'
  <2>1. \A p \in Handle : Children(p)' = Children(p)
    BY <1>1, <1>5 DEF Children
  <2> QED BY <1>1, <1>5, <2>1 DEF IInv, ChildCount
<1>9. HandlesLive'
  BY <1>1, <1>3, <1>4 DEF IInv, HandlesLive
<1>10. LoopSafe'
  BY <1>1, <1>3, <1>4, HandleAssumption DEF LoopSafe
<1>11. Reclaimed'
  BY <1>1, <1>3, <1>4, <1>5, HandleAssumption DEF IInv, Reclaimed
<1>12. BlocksKnown' /\ AbsentAlone'
  BY <1>1, <1>5 DEF IInv, BlocksKnown, AbsentAlone
<1>13. Promise!Close(a)
  <2>1. Alive(a) /\ elf[a].acts = held[a] /\ held[a] > 0 /\ held[a] \in Nat
    BY <1>2 DEF IInv, HandlesLive, elf_end, Valid
  <2>2. a \in Living /\ Living' = Living /\ Parents' = Parents
    BY <1>1, <1>2, <1>4, <1>5, <2>1 DEF Living, Parents, Known
  <2> QED BY <2>1, <2>2 DEF elf_end, Promise!Close, Living, Parents
<1>14. Sound
  BY <1>1, <1>13, NothingFreed DEF Sound, Allowed, Promise!Next
<1> QED BY <1>6, <1>7, <1>8, <1>9, <1>10, <1>11, <1>12, <1>14 DEF IInv

\* The inductive invariant survives the turn of the loop that leaves an
\* archive for later.
LEMMA DeferStep ==
  ASSUME IInv, EndDeferred
  PROVE  IInv' /\ Sound
<1>1. /\ elf' = elf /\ heap' = heap /\ held' = held
      /\ version' = version /\ err' = err /\ closing' = NULL
      /\ closing \in Handle
      /\ elf[closing].kind = "AR" /\ elf[closing].nchildren > 0
  BY DEF EndDeferred, HasOpenMembers, IInv, TypeOK
<1>2. \A h : Alive(h)' <=> Alive(h)
  BY <1>1 DEF Alive
<1>3. TypeOK' /\ RawPresent' /\ ParentOpen' /\ NextAtMember' /\ HandlesLive'
  BY <1>1, <1>2 DEF IInv, TypeOK, RawPresent, ParentOpen, NextAtMember,
                    HandlesLive
<1>4. ChildCount'
  <2>1. \A p \in Handle : Children(p)' = Children(p)
    BY <1>1, <1>2 DEF Children
  <2> QED BY <1>1, <1>2, <2>1 DEF IInv, ChildCount
<1>5. LoopSafe'
  BY <1>1 DEF LoopSafe
<1>6. Reclaimed'
  BY <1>1, <1>2 DEF IInv, Reclaimed
<1>7. BlocksKnown' /\ AbsentAlone'
  BY <1>1, <1>2 DEF IInv, BlocksKnown, AbsentAlone
<1>8. Sound
  BY <1>1, <1>2, SameLives
<1> QED BY <1>3, <1>4, <1>5, <1>6, <1>7, <1>8 DEF IInv

\* The inductive invariant survives the turn of the loop that gives a
\* descriptor up and goes on with the archive it was a member of.
LEMMA ReleaseStep ==
  ASSUME IInv, EndRelease
  PROVE  IInv' /\ Sound
<1> DEFINE h == closing
           p == elf[h].parent
<1>1. /\ h \in Handle /\ Alive(h) /\ elf[h].acts = 0
      /\ ~HasOpenMembers(h)
      /\ held' = held /\ version' = version /\ err' = err
      /\ closing' = AfterRelease(p)
      /\ heap' = heap \ ReleasedBlocks(h)
  BY DEF EndRelease, IInv, TypeOK, LoopSafe
<1>2. /\ elf \in [Handle -> Descriptors] /\ elf[h] \in Descriptors
      /\ p \in Handle \cup {NULL} /\ held \in [Handle -> Nat]
  BY <1>1 DEF IInv, TypeOK, Descriptors
<1>3. \A c \in Handle : Alive(c) => elf[c].parent # h
  BY <1>1, Childless
<1>4. p # h
  BY <1>1, <1>3
<1>5. held[h] = 0
  BY <1>1, <1>2 DEF IInv, HandlesLive
<1>6. /\ \A g \in Handle : Alive(g)' <=> Alive(g) /\ g # h
      /\ \A g \in Handle : g # h /\ <<"raw", g>> \in heap
                             => <<"raw", g>> \in heap'
  BY <1>1 DEF Alive, ReleasedBlocks
<1>7. p # NULL => /\ p \in Handle /\ Alive(p) /\ elf[p].kind = "AR"
                  /\ h \in Children(p)
  BY <1>1, <1>2 DEF IInv, ParentOpen, Children
<1>8. \A q \in Handle : IsFiniteSet(Children(q))
  BY HandleAssumption, FS_Subset DEF Children
<1>9. p # NULL => elf[p].nchildren - 1 \in Nat
  <2> SUFFICES ASSUME p # NULL PROVE elf[p].nchildren - 1 \in Nat
    OBVIOUS
  <2>1. elf[p].nchildren = Cardinality(Children(p))
    BY <1>7 DEF IInv, ChildCount
  <2>2. Cardinality(Children(p)) \in Nat /\ Cardinality(Children(p)) # 0
    BY <1>7, <1>8, FS_CardinalityType, FS_EmptySet
  <2> QED BY <2>1, <2>2
<1>10. Freed \in Descriptors
  BY DEF Freed, Descriptors
<1>11. elf' \in [Handle -> Descriptors]
  <2>1. CASE p = NULL
    BY <1>2, <1>10, <2>1 DEF EndRelease
  <2>2. CASE p # NULL
    <3>1. [elf[p] EXCEPT !.nchildren = elf[p].nchildren - 1] \in Descriptors
      BY <1>2, <1>7, <1>9, <2>2 DEF Descriptors
    <3>2. elf' = [[elf EXCEPT ![h] = Freed] EXCEPT
                    ![p] = [elf[p] EXCEPT !.nchildren = elf[p].nchildren - 1]]
      BY <1>1, <1>2, <1>4, <1>7, <2>2 DEF EndRelease
    <3> QED BY <1>1, <1>2, <1>7, <1>10, <2>2, <3>1, <3>2
  <2> QED BY <2>1, <2>2
<1>12. \A g \in Handle : g # h =>
         /\ elf'[g].kind = elf[g].kind /\ elf'[g].img = elf[g].img
         /\ elf'[g].raw = elf[g].raw /\ elf'[g].acts = elf[g].acts
         /\ elf'[g].parent = elf[g].parent /\ elf'[g].pos = elf[g].pos
         /\ elf'[g].next = elf[g].next
         /\ elf'[g].nchildren = IF g = p THEN elf[g].nchildren - 1
                                         ELSE elf[g].nchildren
  <2>1. CASE p = NULL
    <3>1. elf' = [elf EXCEPT ![h] = Freed]
      BY <2>1 DEF EndRelease
    <3> QED BY <1>1, <1>2, <2>1, <3>1, HandleAssumption
  <2>2. CASE p # NULL
    <3>1. elf' = [[elf EXCEPT ![h] = Freed] EXCEPT
                    ![p] = [elf[p] EXCEPT !.nchildren = elf[p].nchildren - 1]]
      BY <1>1, <1>2, <1>4, <1>7, <2>2 DEF EndRelease
    <3>2. elf[p] \in Descriptors /\ p \in Handle
      BY <1>2, <1>7, <2>2
    <3>3. elf'[p] = [elf[p] EXCEPT !.nchildren = elf[p].nchildren - 1]
      BY <1>2, <3>1, <3>2
    <3>4. \A g \in Handle : g # h /\ g # p => elf'[g] = elf[g]
      BY <1>2, <3>1, <3>2
    <3> QED BY <3>2, <3>3, <3>4 DEF Descriptors
  <2> QED BY <2>1, <2>2
<1>13. closing' = IF p # NULL /\ elf[p].acts = 0 THEN p ELSE NULL
  BY <1>1 DEF AfterRelease
<1> HIDE DEF h, p
<1>14. TypeOK'
  <2>1. heap' \in SUBSET Blocks /\ held' \in [Handle -> Nat]
    BY <1>1 DEF IInv, TypeOK
  <2>2. closing' \in Handle \cup {NULL}
    BY <1>2, <1>13
  <2> QED BY <1>1, <1>11, <2>1, <2>2 DEF IInv, TypeOK
<1>15. RawPresent'
  BY <1>6, <1>12 DEF IInv, RawPresent
<1>16. ParentOpen'
  <2> SUFFICES ASSUME NEW g \in Handle, NEW q \in Handle,
                      Alive(g)', elf'[g].parent = q
               PROVE  /\ Alive(q)' /\ elf'[q].kind = "AR"
                      /\ elf'[q].img \in Image
                      /\ elf'[g].pos \in 1 .. Len(Members[elf'[q].img])
    BY DEF ParentOpen
  <2>1. g # h /\ Alive(g) /\ elf[g].parent = q /\ q # h
    BY <1>3, <1>6, <1>12
  <2>2. /\ Alive(q) /\ elf[q].kind = "AR" /\ elf[q].img \in Image
        /\ elf[g].pos \in 1 .. Len(Members[elf[q].img])
    BY <2>1 DEF IInv, ParentOpen
  <2> QED BY <1>6, <1>12, <2>1, <2>2
<1>17. NextAtMember'
  BY <1>6, <1>12 DEF IInv, NextAtMember
<1>18. ChildCount'
  <2> SUFFICES ASSUME NEW q \in Handle, Alive(q)'
               PROVE  elf'[q].nchildren = Cardinality(Children(q)')
    BY DEF ChildCount
  <2>1. Alive(q) /\ q # h /\ elf[q].nchildren = Cardinality(Children(q))
    BY <1>6 DEF IInv, ChildCount
  <2>2. CASE q = p
    <3>1. Children(q)' = Children(q) \ {h} /\ h \in Children(q)
      BY <1>6, <1>7, <1>12, <2>2, HandleAssumption DEF Children
    <3>2. Cardinality(Children(q)') = Cardinality(Children(q)) - 1
      BY <1>8, <3>1, FS_RemoveElement
    <3> QED BY <1>12, <2>1, <2>2, <3>2
  <2>3. CASE q # p
    <3>1. Children(q)' = Children(q)
      BY <1>6, <1>12, <2>3 DEF Children, p
    <3> QED BY <1>12, <2>1, <2>3, <3>1
  <2> QED BY <2>2, <2>3
<1>19. HandlesLive'
  BY <1>1, <1>5, <1>6, <1>12 DEF IInv, HandlesLive
<1>20. LoopSafe'
  BY <1>4, <1>6, <1>7, <1>12, <1>13 DEF LoopSafe
<1>21. Reclaimed'
  <2> SUFFICES ASSUME NEW g \in Handle, Alive(g)', g # closing'
               PROVE  elf'[g].acts > 0
                      \/ (elf'[g].kind = "AR" /\ elf'[g].nchildren > 0)
    BY DEF Reclaimed
  <2>1. Alive(g) /\ g # h
    BY <1>6
  <2>2. elf[g].acts > 0 \/ (elf[g].kind = "AR" /\ elf[g].nchildren > 0)
    BY <2>1 DEF IInv, Reclaimed, h
  <2>3. CASE g = p
    <3>1. elf[g].acts \in Nat /\ elf[g].acts # 0
      BY <1>2, <1>13, <2>3, HandleAssumption DEF Descriptors
    <3> QED BY <1>12, <2>1, <3>1
  <2>4. CASE g # p
    BY <1>12, <2>1, <2>2, <2>4
  <2> QED BY <2>3, <2>4
<1>22. elf'[h] = Freed /\ Freed.parent = NULL
  BY <1>1, <1>2, <1>4, HandleAssumption DEF EndRelease, h, p, Freed
<1>23. BlocksKnown' /\ AbsentAlone'
  BY <1>1, <1>6, <1>12, <1>22 DEF IInv, BlocksKnown, AbsentAlone
<1>24. Frees
  <2>1. \A b \in ReleasedBlocks(h) : b[2] = h
    <3>1. /\ <<"elf", h>>[2] = h /\ <<"raw", h>>[2] = h /\ <<"symtab", h>>[2] = h
          /\ <<"arhdr", h>>[2] = h
      OBVIOUS
    <3> QED BY <3>1 DEF ReleasedBlocks
  <2>2. <<"raw", h>> \notin heap' /\ <<"symtab", h>> \notin heap'
    BY <1>1 DEF IInv, BlocksKnown, ReleasedBlocks
  <2> QED BY <1>1, <1>6, <2>1, <2>2 DEF Frees
<1>25. PICK c \in Handle : c = h
  BY <1>1
<1>26. Promise!Collect(c)
  <2>1. h \in Living /\ Living' = Living \ {h}
    BY <1>1, <1>5, <1>6, <1>12 DEF Living, Known
  <2>2. Parents' = [Parents EXCEPT ![h] = NULL]
    BY <1>12, <1>22 DEF Parents
  <2>3. \A g \in Living : Parents[g] # h
    BY <1>3 DEF Living, Parents, Known
  <2> QED BY <1>1, <1>5, <1>25, <2>1, <2>2, <2>3
          DEF Promise!Collect, Promise!Reclaim, Living, Parents
<1>27. Allowed
  BY <1>26 DEF Allowed, Promise!Next
<1> QED BY <1>14, <1>15, <1>16, <1>17, <1>18, <1>19, <1>20, <1>21, <1>23, <1>24, <1>27 DEF IInv, Sound

-----------------------------------------------------------------------------
(* Every call is one of these steps.                                       *)

\* A call that fails, or that only looks, is a quiet step.
LEMMA FailStep ==
  ASSUME IInv, NEW e \in Errors, Fail(e)
  PROVE  IInv' /\ Sound
<1>1. Quiet /\ Minor
  BY DEF Fail, Quiet, Minor, Alive, IInv, TypeOK
<1> QED BY <1>1, QuietStep

\* A step that changes nothing is a quiet step.
LEMMA SameStep ==
  ASSUME IInv, UNCHANGED vars
  PROVE  IInv' /\ Sound
<1>1. Quiet /\ Minor
  BY DEF vars, Quiet, Minor, Alive, IInv, TypeOK
<1> QED BY <1>1, QuietStep

\* A block cached for a descriptor, or leaked, is a quiet step.
LEMMA BlockStep ==
  ASSUME IInv, Minor, NEW h \in Handle, NEW k \in {"raw", "arhdr", "symtab"},
         k = "raw" => ~Alive(h), k = "symtab" => elf[h].kind = "AR",
         heap' = heap \cup {<<k, h>>}, UNCHANGED <<elf, held, closing>>
  PROVE  IInv' /\ Sound
<1>1. \A g \in Handle : Alive(g)' <=> Alive(g)
  BY DEF Alive
<1>2. heap' \in SUBSET Blocks
  BY BlocksOf DEF IInv, TypeOK
<1>3. Quiet
  BY <1>1, <1>2 DEF Quiet
<1> QED BY <1>3, QuietStep

\* The codes the library sets are codes it knows.
LEMMA ErrorCodes ==
  /\ {"NONE", "ARGUMENT", "SEQUENCE", "ARCHIVE", "VERSION", "HEADER",
      "RESOURCE", "IO", "MODE"} \subseteq Errors
  /\ \A i \in Image : ParseError(i) \in Errors
BY DEF Errors, ParseError

\* A refused image leaves the invariant, the leaked descriptor included.
LEMMA RefuseStep ==
  ASSUME IInv, NEW h \in Handle, NEW i \in Image, Refuse(h, i)
  PROVE  IInv' /\ Sound
<1>1. Minor
  BY ErrorCodes DEF Refuse, Minor, IInv, TypeOK
<1>2. CASE Shape[i] = "badar"
  <2> DEFINE e == [Fresh(i) EXCEPT !.kind = "AR"]
  <2>1. /\ e \in Descriptors /\ e.acts = 1 /\ e.parent = NULL
        /\ e.nchildren = 0 /\ e.raw = "none" /\ e.img = i
        /\ e.next \in 0 .. Len(Members[i])
    BY FreshType DEF Descriptors
  <2>2. /\ Unused(h) /\ elf' = [elf EXCEPT ![h] = e] /\ held' = held
        /\ closing' = closing /\ heap' = heap \cup {<<"elf", h>>}
    BY <1>2 DEF Refuse
  <2> HIDE DEF e
  <2>3. New(h, e)
    BY <2>1, <2>2 DEF New
  <2> QED BY <1>1, <2>3, NewStep
<1>3. CASE Shape[i] # "badar"
  <2>1. Quiet
    BY <1>3 DEF Refuse, Quiet, Alive, IInv, TypeOK
  <2> QED BY <1>1, <2>1, QuietStep
<1> QED BY <1>2, <1>3

\* Opening a file for reading or updating.
LEMMA OpenObjectStep ==
  ASSUME IInv, NEW fd \in Fd, NEW cmd \in {"READ", "RDWR"},
         NEW report \in BOOLEAN, NEW raw \in {"malloc", "mmap"},
         NEW h \in Handle, OpenObject(fd, cmd, report, raw, h)
  PROVE  IInv' /\ Sound
<1> DEFINE i == FileImage[fd]
           e == [Fresh(i) EXCEPT !.cmd = cmd, !.fd = fd, !.raw = raw]
<1>1. i \in Image
  BY ImageAssumption
<1>2. CASE Refuse(h, i)
  BY <1>1, <1>2, RefuseStep
<1>3. CASE /\ Unused(h) /\ err' = "ARGUMENT" /\ heap' = heap \cup {<<"raw", h>>}
           /\ UNCHANGED <<version, elf, held, closing>>
  <2>1. Minor
    BY <1>3, ErrorCodes DEF Minor, IInv, TypeOK
  <2>2. ~Alive(h)
    BY <1>3, UnusedFacts
  <2> QED BY <1>3, <2>1, <2>2, BlockStep
<1>4. CASE Give(h, raw) /\ elf' = [elf EXCEPT ![h] = e]
  <2>0. /\ Fresh(i) \in Descriptors
        /\ Fresh(i).img = i /\ Fresh(i).acts = 1 /\ Fresh(i).parent = NULL
        /\ Fresh(i).nchildren = 0
        /\ Fresh(i).next \in 0 .. Len(Members[i])
    BY <1>1, FreshType
  <2> HIDE DEF i
  <2>1. /\ e \in Descriptors /\ e.acts = 1 /\ e.parent = NULL
        /\ e.nchildren = 0 /\ e.raw = raw /\ e.img = i
        /\ e.next \in 0 .. Len(Members[i])
    BY <2>0 DEF Descriptors
  <2> HIDE DEF e
  <2>2. New(h, e) /\ Minor
    BY <1>1, <1>4, <2>1 DEF New, Give, Minor, IInv, TypeOK
  <2> QED BY <2>2, NewStep
<1> QED BY <1>2, <1>3, <1>4 DEF OpenObject

\* The exits of _libelf_open_object() before there is a descriptor.
LEMMA OpenFailsStep ==
  ASSUME IInv, NEW fd, NEW cmd, OpenFails(fd, cmd)
  PROVE  IInv' /\ Sound
<1>1. \E e \in {"IO", "ARGUMENT", "RESOURCE"} : Fail(e)
  BY DEF OpenFails
<1> QED BY <1>1, FailStep, ErrorCodes

\* Opening a file for writing.
LEMMA OpenWriteStep ==
  ASSUME IInv, NEW fd \in Fd, NEW h \in Handle, OpenWrite(fd, h)
  PROVE  IInv' /\ Sound
<1> DEFINE e == [Freed EXCEPT !.kind = "ELF", !.cmd = "WRITE", !.fd = fd,
                              !.acts = 1]
<1>1. Freed \in Descriptors /\ Freed.parent = NULL /\ Freed.nchildren = 0
      /\ Freed.raw = "none"
  BY DEF Freed, Descriptors
<1>2. /\ e \in Descriptors /\ e.acts = 1 /\ e.parent = NULL
      /\ e.nchildren = 0 /\ e.raw = "none" /\ e.kind = "ELF"
  BY <1>1 DEF Descriptors
<1>3. elf' = [elf EXCEPT ![h] = e] /\ Give(h, "none")
  BY DEF OpenWrite
<1> HIDE DEF e
<1>4. New(h, e) /\ Minor
  BY <1>2, <1>3 DEF New, Give, Minor, IInv, TypeOK
<1> QED BY <1>4, NewStep

\* Opening a member of an archive.
LEMMA OpenMemberStep ==
  ASSUME IInv, NEW a \in Handle, NEW h \in Handle, Valid(a),
         elf[a].kind = "AR", OpenMember(a, h)
  PROVE  IInv' /\ Sound
<1> DEFINE n == elf[a].next
           i == Members[elf[a].img][n]
           e == [Fresh(i) EXCEPT !.fd = elf[a].fd, !.parent = a, !.pos = n]
<1>1. /\ Alive(a) /\ elf[a].img \in Image
      /\ n \in 0 .. Len(Members[elf[a].img])
      /\ elf[a] \in Descriptors
  BY DEF IInv, TypeOK, HandlesLive, NextAtMember, Valid
<1>2. CASE n = 0 /\ UNCHANGED vars
  BY <1>2, SameStep
<1>3. CASE \E c \in {"ARCHIVE", "ARGUMENT", "RESOURCE"} : Fail(c)
  BY <1>3, FailStep, ErrorCodes
<1>4. ASSUME n # 0 PROVE i \in Image /\ n \in 1 .. Len(Members[elf[a].img])
  <2>1. Members[elf[a].img] \in Seq(Image)
    BY <1>1, ImageAssumption
  <2>2. n \in 1 .. Len(Members[elf[a].img])
    BY <1>1, <1>4, <2>1
  <2> QED BY <2>1, <2>2
<1>5. CASE n # 0 /\ Refuse(h, i)
  BY <1>4, <1>5, RefuseStep
<1>6. CASE n # 0 /\ Give(h, "none") /\ Adopt(a, h, e)
  <2>2. n \in 1 .. Len(Members[elf[a].img]) /\ i \in Image
    BY <1>4, <1>6
  <2>3. /\ Unused(h) /\ heap' = heap \cup {<<"elf", h>>}
        /\ held' = [held EXCEPT ![h] = 1] /\ closing' = closing
        /\ elf' = [elf EXCEPT ![h] = e, ![a].nchildren = @ + 1]
    BY <1>6 DEF Give, Adopt
  <2>4. Minor
    BY <1>6 DEF Give, Minor, IInv, TypeOK
  <2>0. /\ Fresh(i) \in Descriptors
        /\ Fresh(i).img = i /\ Fresh(i).acts = 1
        /\ Fresh(i).nchildren = 0 /\ Fresh(i).raw = "none"
        /\ Fresh(i).next \in 0 .. Len(Members[i])
        /\ n \in Nat /\ elf[a].fd \in Fd \cup {NoFd}
    BY <1>1, <2>2, FreshType DEF Descriptors
  <2> HIDE DEF i, n
  <2>1. /\ e \in Descriptors /\ e.acts = 1 /\ e.parent = a
        /\ e.nchildren = 0 /\ e.raw = "none" /\ e.img = i /\ e.pos = n
        /\ e.next \in 0 .. Len(Members[i])
    BY <2>0 DEF Descriptors
  <2> HIDE DEF e
  <2>5. NewMember(a, h, e)
    BY <2>1, <2>2, <2>3 DEF NewMember, Valid
  <2> QED BY <2>4, <2>5, NewMemberStep
<1> QED BY <1>2, <1>3, <1>5, <1>6 DEF OpenMember

\* elf_begin() and elf_open(), elf_memory() and elf_openmemory().
LEMMA OpeningStep ==
  ASSUME IInv, NEW h \in Handle
  PROVE  /\ \A fd \in Fd, c \in {"NULL", "READ", "RDWR", "WRITE", "OTHER"},
              raw \in {"malloc", "mmap"} : elf_begin(fd, c, raw, h) => IInv' /\ Sound
         /\ \A fd \in Fd, raw \in {"malloc", "mmap"} :
              elf_open(fd, raw, h) => IInv' /\ Sound
         /\ \A i \in Buffer, report \in BOOLEAN :
              elf_memory(i, report, h) => IInv' /\ Sound
<1>1. ASSUME NEW fd \in Fd, NEW c \in {"NULL", "READ", "RDWR", "WRITE", "OTHER"},
             NEW raw \in {"malloc", "mmap"}, elf_begin(fd, c, raw, h)
      PROVE  IInv' /\ Sound
  <2>1. CASE Fail("SEQUENCE") \/ Fail("ARGUMENT")
    BY <2>1, FailStep, ErrorCodes
  <2>2. CASE UNCHANGED vars
    BY <2>2, SameStep
  <2>3. CASE OpenFails(fd, c)
    BY <2>3, OpenFailsStep
  <2>4. CASE OpenWrite(fd, h)
    BY <2>4, OpenWriteStep
  <2>5. CASE c \in {"READ", "RDWR"} /\ OpenObject(fd, c, TRUE, raw, h)
    BY <2>5, OpenObjectStep
  <2> QED BY <1>1, <2>1, <2>2, <2>3, <2>4, <2>5 DEF elf_begin
<1>2. ASSUME NEW fd \in Fd, NEW raw \in {"malloc", "mmap"},
             elf_open(fd, raw, h)
      PROVE  IInv' /\ Sound
  <2>1. CASE Fail("SEQUENCE")
    BY <2>1, FailStep, ErrorCodes
  <2>2. CASE OpenFails(fd, "READ")
    BY <2>2, OpenFailsStep
  <2>3. CASE OpenObject(fd, "READ", FALSE, raw, h)
    BY <2>3, OpenObjectStep
  <2> QED BY <1>2, <2>1, <2>2, <2>3 DEF elf_open
<1>3. ASSUME NEW i \in Buffer, NEW report \in BOOLEAN,
             elf_memory(i, report, h)
      PROVE  IInv' /\ Sound
  <2>0. i \in Image
    BY ImageAssumption
  <2>1. CASE Fail("SEQUENCE") \/ Fail("ARGUMENT") \/ Fail("RESOURCE")
    BY <2>1, FailStep, ErrorCodes
  <2>2. CASE Refuse(h, i)
    BY <2>0, <2>2, RefuseStep
  <2>3. CASE Give(h, "none") /\ elf' = [elf EXCEPT ![h] = Fresh(i)]
    <3>1. New(h, Fresh(i)) /\ Minor
      BY <2>0, <2>3, FreshType DEF New, Give, Minor, IInv, TypeOK
    <3> QED BY <3>1, NewStep
  <2> QED BY <1>3, <2>1, <2>2, <2>3 DEF elf_memory
<1> QED BY <1>1, <1>2, <1>3

\* elf_begin() on an open descriptor.
LEMMA BeginAgainStep ==
  ASSUME IInv, NEW fd \in Fd, NEW c \in {"READ", "RDWR"}, NEW a \in Handle,
         NEW h \in Handle, elf_begin_again(fd, c, a, h)
  PROVE  IInv' /\ Sound
<1>1. closing = NULL /\ Valid(a)
  BY DEF elf_begin_again
<1>2. CASE Fail("ARGUMENT")
  BY <1>2, FailStep, ErrorCodes
<1>3. CASE elf[a].kind = "AR" /\ OpenMember(a, h)
  BY <1>1, <1>3, OpenMemberStep
<1>4. CASE Activate(a)
  BY <1>1, <1>4, ActivateStep
<1> QED BY <1>2, <1>3, <1>4 DEF elf_begin_again

\* elf_next(), elf_rand() and elf_cntl().
LEMMA MoveStep ==
  ASSUME IInv, NEW h \in Handle
  PROVE  /\ elf_next(h) => IInv' /\ Sound
         /\ \A n \in Nat : elf_rand(h, n) => IInv' /\ Sound
         /\ \A c \in {"FDDONE", "FDREAD", "OTHER"} : elf_cntl(h, c) => IInv' /\ Sound
<1>0. elf \in [Handle -> Descriptors] /\ elf[h] \in Descriptors
  BY DEF IInv, TypeOK
<1>1. ASSUME elf_next(h) PROVE IInv' /\ Sound
  <2>1. CASE Fail("ARGUMENT")
    BY <2>1, FailStep, ErrorCodes
  <2>2. CASE elf[h].parent # NULL
    <3> DEFINE p == elf[h].parent
               n == IF elf[h].pos = Len(Members[elf[p].img])
                    THEN 0 ELSE elf[h].pos + 1
               e == [elf[p] EXCEPT !.next = n]
    <3>1. p \in Handle /\ Alive(h)
      BY <1>0, <1>1, <2>2 DEF Descriptors, IInv, HandlesLive, elf_next, Valid
    <3>2. /\ Alive(p) /\ elf[p].img \in Image
          /\ elf[h].pos \in 1 .. Len(Members[elf[p].img])
      BY <3>1 DEF IInv, ParentOpen
    <3>3. Len(Members[elf[p].img]) \in Nat
      BY <3>2, ImageAssumption
    <3>4. n \in 0 .. Len(Members[elf[p].img]) /\ n \in Nat
      BY <3>2, <3>3
    <3>5. /\ elf' = [elf EXCEPT ![p] = e]
          /\ UNCHANGED <<version, err, heap, held, closing>>
      BY <1>0, <1>1, <2>2, <3>1 DEF elf_next, Fail
    <3>6. elf[p] \in Descriptors
      BY <1>0, <3>1
    <3> HIDE DEF p, n
    <3>7. Tweak(p, e) /\ Minor
      BY <3>2, <3>4, <3>5, <3>6 DEF Tweak, Minor, Descriptors, IInv, TypeOK
    <3> QED BY <3>1, <3>7, TweakStep
  <2> QED BY <1>1, <2>1, <2>2 DEF elf_next
<1>2. ASSUME NEW n \in Nat, elf_rand(h, n) PROVE IInv' /\ Sound
  <2>1. CASE Fail("ARGUMENT") \/ Fail("ARCHIVE")
    BY <2>1, FailStep, ErrorCodes
  <2>2. CASE /\ elf[h].kind = "AR" /\ n \in 1 .. Len(Members[elf[h].img])
             /\ elf' = [elf EXCEPT ![h].next = n]
             /\ UNCHANGED <<version, err, heap, held, closing>>
    <3> DEFINE e == [elf[h] EXCEPT !.next = n]
    <3>1. Alive(h)
      BY <1>2 DEF IInv, HandlesLive, elf_rand, Valid
    <3>2. elf' = [elf EXCEPT ![h] = e]
      BY <1>0, <2>2
    <3>3. Len(Members[elf[h].img]) \in Nat
      BY <2>2, <3>1, ImageAssumption DEF IInv, NextAtMember
    <3>4. n \in 0 .. Len(Members[elf[h].img])
      BY <2>2, <3>3
    <3>5. Tweak(h, e) /\ Minor
      BY <1>0, <2>2, <3>1, <3>2, <3>4
         DEF Tweak, Minor, Descriptors, IInv, TypeOK
    <3> QED BY <3>5, TweakStep
  <2> QED BY <1>2, <2>1, <2>2 DEF elf_rand
<1>3. ASSUME NEW c \in {"FDDONE", "FDREAD", "OTHER"}, elf_cntl(h, c)
      PROVE  IInv' /\ Sound
  <2>1. CASE Fail("ARGUMENT") \/ Fail("ARCHIVE") \/ Fail("MODE")
    BY <2>1, FailStep, ErrorCodes
  <2>2. CASE UNCHANGED vars
    BY <2>2, SameStep
  <2>3. CASE /\ elf' = [elf EXCEPT ![h].fd = NoFd]
             /\ UNCHANGED <<version, err, heap, held, closing>>
    <3> DEFINE e == [elf[h] EXCEPT !.fd = NoFd]
    <3>1. Alive(h)
      BY <1>3 DEF IInv, HandlesLive, elf_cntl, Valid
    <3>2. elf' = [elf EXCEPT ![h] = e]
      BY <1>0, <2>3
    <3>3. elf[h].kind = "AR" => elf[h].next \in 0 .. Len(Members[elf[h].img])
      BY <3>1 DEF IInv, NextAtMember
    <3>4. Tweak(h, e) /\ Minor
      BY <1>0, <2>3, <3>1, <3>2, <3>3
         DEF Tweak, Minor, Descriptors, IInv, TypeOK
    <3> QED BY <3>4, TweakStep
  <2> QED BY <1>3, <2>1, <2>2, <2>3 DEF elf_cntl
<1> QED BY <1>1, <1>2, <1>3

\* elf_getarhdr() and elf_getarsym().
LEMMA CacheStep ==
  ASSUME IInv, NEW h \in Handle, elf_getarhdr(h) \/ elf_getarsym(h)
  PROVE  IInv' /\ Sound
<1>1. CASE \E c \in {"ARGUMENT", "ARCHIVE", "RESOURCE"} : Fail(c)
  BY <1>1, FailStep, ErrorCodes
<1>2. CASE UNCHANGED vars
  BY <1>2, SameStep
<1>3. CASE \E k \in {"arhdr", "symtab"} :
             /\ k = "symtab" => elf[h].kind = "AR"
             /\ heap' = heap \cup {<<k, h>>}
             /\ UNCHANGED <<version, err, elf, held, closing>>
  <2>1. Minor
    BY <1>3 DEF Minor, IInv, TypeOK
  <2> QED BY <1>3, <2>1, BlockStep
<1> QED BY <1>1, <1>2, <1>3 DEF elf_getarhdr, elf_getarsym

-----------------------------------------------------------------------------
(* The theorems.                                                           *)

\* Every call, and every turn of the loop of elf_end(), preserves IInv, frees
\* what it should, and is a step of Lifetime or none at all.
LEMMA StepSound ==
  ASSUME IInv, [Next]_vars
  PROVE  IInv' /\ Sound
<1>1. CASE UNCHANGED vars
  BY <1>1, SameStep
<1>2. ASSUME NEW v \in {"NONE", "CURRENT", "UNKNOWN"}, elf_version(v)
      PROVE  IInv' /\ Sound
  <2>1. CASE UNCHANGED vars
    BY <2>1, SameStep
  <2>2. CASE Fail("VERSION")
    BY <2>2, FailStep, ErrorCodes
  <2>3. CASE v = "CURRENT" /\ version' = v
             /\ UNCHANGED <<err, elf, heap, held, closing>>
    <3>1. Quiet /\ Minor
      BY <2>3 DEF Quiet, Minor, Alive, IInv, TypeOK
    <3> QED BY <3>1, QuietStep
  <2> QED BY <1>2, <2>1, <2>2, <2>3 DEF elf_version
<1>3. CASE elf_errno
  <2>1. Quiet /\ Minor
    BY <1>3, ErrorCodes DEF elf_errno, Quiet, Minor, Alive, IInv, TypeOK
  <2> QED BY <2>1, QuietStep
<1>4. ASSUME NEW h \in Handle, NEW i \in Image,
             \E n \in 1 .. Len(Members[i]) : elf_rand(h, n)
      PROVE  IInv' /\ Sound
  <2>1. Len(Members[i]) \in Nat
    BY ImageAssumption
  <2>2. \E n \in Nat : elf_rand(h, n)
    BY <1>4, <2>1
  <2> QED BY <2>2, MoveStep
<1> QED BY <1>1, <1>2, <1>3, <1>4, OpeningStep, BeginAgainStep, EndStep,
          DeferStep, ReleaseStep, MoveStep, CacheStep DEF Next

\* Every call, and every turn of the loop of elf_end(), preserves IInv.
THEOREM Inductive == IInv /\ [Next]_vars => IInv'
BY StepSound

\* The inductive invariant holds before the first call of the library.
LEMMA Initially == Init => IInv
<1> SUFFICES ASSUME Init PROVE IInv
  OBVIOUS
<1>1. TypeOK
  BY DEF Init, TypeOK, Freed, Descriptors, Errors, Blocks
<1>2. \A h \in Handle : ~Alive(h) /\ held[h] = 0
  BY DEF Init, Alive
<1> QED BY <1>1, <1>2 DEF IInv, RawPresent, BlocksKnown, AbsentAlone, Freed,
          ParentOpen, NextAtMember,
          ChildCount, HandlesLive, LoopSafe, Reclaimed, Init

\* The inductive invariant holds of every behaviour of the library.
THEOREM Invariance == Spec => []IInv
<1>1. IInv /\ UNCHANGED vars => IInv'
  BY Inductive
<1> QED BY Initially, Inductive, PTL DEF Spec

\* Type correctness: in particular no activation count and no e_nchildren
\* is ever decremented below zero by elf_end().
THEOREM TypeCorrect == Spec => []TypeOK
<1>1. IInv => TypeOK
  BY DEF IInv
<1> QED BY <1>1, Invariance, PTL

\* An open member's archive, and the image the archive owns, outlive it.
THEOREM MembersAreSafe == Spec => []MemberSafe
<1>1. IInv => MemberSafe
  <2> SUFFICES ASSUME IInv PROVE MemberSafe
    OBVIOUS
  <2>1. \A h \in Handle : elf[h].parent # NULL => elf[h].parent \in Handle
    BY DEF IInv, TypeOK, Descriptors
  <2>2. \A h \in Handle : Alive(h) /\ elf[h].parent # NULL =>
          Alive(elf[h].parent) /\ elf[elf[h].parent].kind = "AR"
    BY <2>1 DEF IInv, ParentOpen
  <2> QED BY <2>1, <2>2 DEF IInv, RawPresent, MemberSafe
<1> QED BY <1>1, Invariance, PTL

\* e_nchildren counts the open members.
THEOREM ChildrenAreCounted == Spec => []ChildCount
<1>1. IInv => ChildCount
  BY DEF IInv
<1> QED BY <1>1, Invariance, PTL

\* A descriptor the application holds is allocated, and elf_end() has to be
\* called on it as often as it has activations.
THEOREM HandlesAreLive == Spec => []HandlesLive
<1>1. IInv => HandlesLive
  BY DEF IInv
<1> QED BY <1>1, Invariance, PTL

\* A descriptor without activations is kept only for its open members, and
\* the loop of elf_end() never looks at freed memory.
THEOREM NothingForgotten == Spec => [](Reclaimed /\ LoopSafe)
<1>1. IInv => Reclaimed /\ LoopSafe
  BY DEF IInv
<1> QED BY <1>1, Invariance, PTL

\* What elf_end() gives a descriptor up with: its image and its symbol table go,
\* and no block of another descriptor does; no other call frees anything.
THEOREM ReleasesAreExact == Spec => ReleaseExact
<1>1. IInv /\ [Next]_vars =>
        [\A h \in Handle :
           Alive(h) /\ ~Alive(h)' =>
             /\ <<"raw", h>> \notin heap' /\ <<"symtab", h>> \notin heap'
             /\ \A b \in heap \ heap' : b[2] = h]_vars
  BY StepSound DEF Sound, Frees
<1> QED BY <1>1, Invariance, PTL DEF Spec, ReleaseExact

\* Descriptors live as Lifetime promises: an archive stays for its members, and
\* goes when nobody holds it and no member is left, whatever fails on the way.
THEOREM DescriptorsLive == Spec => Lives
<1>1. Init => Promise!Init
  BY DEF Init, Promise!Init, Known, Alive, Freed
<1>2. IInv /\ [Next]_vars => [Promise!Next]_(Promise!vars)
  BY StepSound DEF Sound, Allowed
<1> QED BY <1>1, <1>2, Invariance, PTL DEF Spec, Lives, Promise!Spec
=============================================================================
