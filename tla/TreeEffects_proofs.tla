-------------------------- MODULE TreeEffects_proofs --------------------------
(***************************************************************************)
(* What the handlers of the importer do to the rows and to the caches,     *)
(* summarised, and the theorems that follow from the summary: sections of  *)
(* others are left alone, caches stay coherent, networks stay unique and a *)
(* replica needs no write.                                                 *)
(***************************************************************************)
EXTENDS TreeImport_proofs

(***************************************************************************)
(* The summary: an action writes nothing, or creates a row, changes the    *)
(* row of its subnet, or deletes one; and ends with the caches as lookups  *)
(* left them, with an index dropped, or with one read afresh.              *)
(***************************************************************************)
\* The caches that the lookups of an action may leave.
Looks(a) ==
  {cache, Looked(cache, a, "subnets"), Looked(cache, a, "folders")}
    \cup (IF a.kind \in SubnetlessKind THEN {} ELSE {Resolved(a), ParentLooked(Resolved(a), a)})
    \cup (IF a.kind \in SubnetlessKind \/ KnownId(a) = None THEN {} ELSE {WithAddresses(a)})

\* What may be found when an action looks for a parent.
Parents(a) == {None} \cup DOMAIN Listed(T(a), "subnets") \cup DOMAIN Listed(T(a), "folders")

Creates(a, row) ==
  \E p \in Parents(a) :
    \/ /\ a.kind = "create_subnet" /\ p = WantedParent(a)
       /\ row = SubnetRow(T(a), a.cidr, p, a.fields)
    \/ /\ a.kind = "create_folder" /\ AcceptsFolder(p)
       /\ row = FolderRow(T(a), a.folder[Len(a.folder)], p)

WithRow(id, row) == [target EXCEPT !.rows = [rows EXCEPT ![id] = row]]

WithAddress(id, ip, v) == [rows[id] EXCEPT !.addresses = [rows[id].addresses EXCEPT ![ip] = v]]

Unread(c, id) == [c EXCEPT !.addresses = Pop(@, id)]

Popped(c, a, id) == [c EXCEPT !.addresses = Pop(@, id), !.ids = Pop(@, Key(a))]

\* The row of the action's subnet becomes `row`, and the caches `fresh`.
Changes(a, id, row, looked, fresh) ==
  \/ /\ a.kind = "update_subnet"
     /\ row = [rows[id] EXCEPT !.fields = a.fields]
     /\ fresh = looked
  \/ /\ a.kind \in {"detach_subnet", "reparent_subnet"}
     /\ \E p \in Parents(a) : /\ p = IF a.kind = "detach_subnet" THEN None ELSE WantedParent(a)
                              /\ row = [rows[id] EXCEPT !.masterSubnetId = p]
     /\ fresh = Dropped(looked, T(a))
  \/ /\ a.kind \in {"create_address", "delete_address"}
     /\ \E v \in FieldValue \cup {None} : row = WithAddress(id, a.ip, v)
     /\ fresh = Unread(looked, id)
  \/ /\ a.kind = "update_address"
     /\ rows[id].addresses[a.ip] # None
     /\ row = WithAddress(id, a.ip, a.fields)
     /\ fresh = looked

Effect(a, after, looked, dropped, fresh) ==
  \/ /\ a.kind = "create_section"
     /\ after = [target EXCEPT !.sects = sects \cup {T(a)}]
     /\ looked = cache
     /\ fresh = [cache EXCEPT !.sections = sects \cup {T(a)}]
     /\ dropped = fresh
  \/ \E x \in Index : \E row :
       /\ Creates(a, row)
       /\ after = Created(row)
       /\ looked \in Looks(a)
       /\ dropped = Dropped(looked, T(a))
       /\ fresh = Reread(looked, T(a), x, after.rows)
  \/ /\ a.kind \notin SubnetlessKind
     /\ KnownId(a) # None /\ KnownId(a) \in DOMAIN rows
     /\ \E row : /\ Changes(a, KnownId(a), row, looked, fresh)
                 /\ after = WithRow(KnownId(a), row)
     /\ looked \in Looks(a)
     /\ dropped = looked
  \/ /\ a.kind = "delete_subnet"
     /\ LET id == SubnetId(Listed(T(a), "subnets"), a.cidr)
        IN  /\ id # None /\ id \in DOMAIN rows
            /\ after = Deleted(id)
            /\ dropped = Dropped(Popped(looked, a, id), T(a))
            /\ fresh = Reread(Popped(looked, a, id), T(a), "subnets", after.rows)
     /\ looked \in Looks(a)
  \/ /\ a.kind = "delete_folder"
     /\ a \in foundEmpty
     /\ LET id == FoundFolder(a)
        IN  id # None /\ id \in DOMAIN rows /\ after = Deleted(id)
     /\ looked \in Looks(a)
     /\ dropped = looked
     /\ fresh = Dropped(looked, T(a))

\* How a handler ends: its action is taken off the plan with nothing written, or
\* with `after`; and without a failure with the caches that the code means to leave.
\* A request that is lost is recorded as an error, and no error is forgotten.
Ended(a, after, looked, dropped, fresh) ==
  /\ Taken(a)
  /\ errors \subseteq errors'
  /\ faults' = faults \/ (faults' = faults + 1 /\ errors' # {})
  /\ \/ target' = target /\ looked \in Looks(a) /\ cache' \in {cache, looked}
     \/ /\ Effect(a, after, looked, dropped, fresh)
        /\ target' = after
        /\ \/ cache' = fresh
           \/ faults' = faults + 1 /\ cache' \in {looked, dropped}

\* Each way to end is one of these.
LEMMA Ends ==
  ASSUME TypeOK, NEW a, NEW accepted, NEW after, NEW looked \in Looks(a), NEW dropped, NEW fresh,
         NEW confirmed
  PROVE  /\ Done(a, looked) => Ended(a, after, looked, dropped, fresh)
         /\ \A why : Fail(a, why, looked) => Ended(a, after, looked, dropped, fresh)
         /\ (accepted => Effect(a, after, looked, dropped, fresh))
              /\ WriteAndConfirm(a, accepted, after, looked, dropped, fresh, confirmed)
              => Ended(a, after, looked, dropped, fresh)
         /\ (accepted => Effect(a, after, looked, looked, fresh))
              /\ Write(a, accepted, after, looked, fresh)
              => Ended(a, after, looked, looked, fresh)
<1>0. \A why : Recorded(a, why) => errors \subseteq errors' /\ errors' # {}
  BY DEF Recorded
<1>1. \A d, f : LookupLost(a, looked) => Ended(a, after, looked, d, f)
  BY <1>0 DEF LookupLost, Lost, Ended
<1>2. Done(a, looked) => Ended(a, after, looked, dropped, fresh)
  BY <1>1 DEF Done, Ended
<1>3. ASSUME NEW why PROVE Fail(a, why, looked) => Ended(a, after, looked, dropped, fresh)
  BY <1>0, <1>1 DEF Fail, Ended
<1>4. ASSUME NEW d, NEW sure, accepted => Effect(a, after, looked, d, fresh),
             WriteAndConfirm(a, accepted, after, looked, d, fresh, sure)
      PROVE  Ended(a, after, looked, d, fresh)
  <2>1. CASE LookupLost(a, looked)
    BY <1>1, <2>1
  <2>2. CASE ~ LookupLost(a, looked)
    BY <1>0, <1>4, <2>2 DEF WriteAndConfirm, Lost, Ended
  <2> QED BY <2>1, <2>2
<1> QED BY <1>2, <1>3, <1>4 DEF Write

\* What a parent lookup and a lookup of the action's subnet leave is among the looks.
LEMMA LooksFacts ==
  ASSUME NEW a
  PROVE  /\ cache \in Looks(a)
         /\ \A x \in Index : Looked(cache, a, x) \in Looks(a)
         /\ ParentLooked(cache, a) \in Looks(a)
         /\ a.kind \notin SubnetlessKind =>
              Resolved(a) \in Looks(a) /\ ParentLooked(Resolved(a), a) \in Looks(a)
         /\ a.kind \notin SubnetlessKind /\ KnownId(a) # None => WithAddresses(a) \in Looks(a)
BY DEF Looks, ParentLooked, Index

\* A parent that is looked up is none, or found.
LEMMA ParentsFacts ==
  ASSUME NEW a
  PROVE  /\ \A p : FolderId(Listed(T(a), "folders"), p) \in Parents(a)
         /\ WantedParent(a) \in Parents(a)
         /\ None \in Parents(a)
<1>1. \A p : FolderId(Listed(T(a), "folders"), p) \in Parents(a)
  BY PickType DEF FolderId, FolderRows, Parents
<1>2. \A c : SubnetId(Listed(T(a), "subnets"), c) \in Parents(a)
  BY PickType DEF SubnetId, SubnetIds, SubnetRows, Parents
<1>3. None \in Parents(a)
  BY DEF Parents
<1> QED BY <1>1, <1>2, <1>3 DEF WantedParent

\* Changes of one row of the target, as the handlers write them.
LEMMA RowWrites ==
  ASSUME NEW id, NEW v
  PROVE  /\ [target EXCEPT !.rows[id].fields = v] = WithRow(id, [rows[id] EXCEPT !.fields = v])
         /\ [target EXCEPT !.rows[id].masterSubnetId = v]
              = WithRow(id, [rows[id] EXCEPT !.masterSubnetId = v])
BY DEF rows, WithRow

LEMMA AddressWritten ==
  ASSUME NEW id, NEW ip, NEW v
  PROVE  WithRow(id, WithAddress(id, ip, v)) = [target EXCEPT !.rows[id].addresses[ip] = v]
BY DEF rows, WithRow, WithAddress

\* Every handler ends as the summary says.
LEMMA HandlerEnds ==
  ASSUME TypeOK, NEW a \in pending, Handle(a)
  PROVE  \E after, looked, dropped, fresh : Ended(a, after, looked, dropped, fresh)
<1> DEFINE id == KnownId(a)
           Summed == \E after, looked, dropped, fresh : Ended(a, after, looked, dropped, fresh)
<1>1. a \in Action /\ a.fields \in FieldValue \cup {None} /\ None \in FieldValue \cup {None}
  BY ActionFacts DEF TypeOK
<1>2. /\ "subnets" \in Index /\ "folders" \in Index
      /\ cache \in Looks(a) /\ ParentLooked(cache, a) \in Looks(a)
      /\ Looked(cache, a, "subnets") \in Looks(a) /\ Looked(cache, a, "folders") \in Looks(a)
  BY LooksFacts DEF Index
<1>3. ASSUME NEW looked \in Looks(a), Done(a, looked) \/ \E why : Fail(a, why, looked)
      PROVE  Summed
  BY <1>3, Ends
<1>4. ASSUME NEW accepted, NEW after, NEW looked \in Looks(a), NEW dropped, NEW fresh,
             NEW confirmed, accepted => Effect(a, after, looked, dropped, fresh),
             WriteAndConfirm(a, accepted, after, looked, dropped, fresh, confirmed)
      PROVE  Summed
  BY <1>4, Ends
<1>5. ASSUME NEW accepted, NEW after, NEW looked \in Looks(a), NEW fresh,
             accepted => Effect(a, after, looked, looked, fresh),
             Write(a, accepted, after, looked, fresh)
      PROVE  Summed
  BY <1>5, Ends
<1>6. ASSUME NEW row, NEW looked \in Looks(a), NEW fresh, a.kind \notin SubnetlessKind,
             id # None, id \in DOMAIN rows, Changes(a, id, row, looked, fresh)
      PROVE  Effect(a, WithRow(id, row), looked, looked, fresh)
  BY <1>6 DEF Effect
<1>7. CASE DoWithoutSection(a)
  BY <1>2, <1>3, <1>7 DEF DoWithoutSection
<1>8. CASE DoCreateSection(a)
  <2> DEFINE fresh == [cache EXCEPT !.sections = sects \cup {T(a)}]
             after == [target EXCEPT !.sects = sects \cup {T(a)}]
  <2>1. Effect(a, after, cache, fresh, fresh)
    BY <1>8 DEF DoCreateSection, Effect
  <2>2. after.sects = sects \cup {T(a)} /\ after = [target EXCEPT !.sects = @ \cup {T(a)}]
    BY DEF TypeOK, TargetType, sects
  <2> HIDE DEF after
  <2>3. WriteAndConfirm(a, T(a) \notin sects, after, cache, fresh, fresh, TRUE)
    BY <1>8, <2>2 DEF DoCreateSection
  <2> QED BY <1>2, <1>4, <2>1, <2>3
<1>9. CASE DoCreateSubnet(a)
  <2> DEFINE row == SubnetRow(T(a), a.cidr, WantedParent(a), a.fields)
             looked == ParentLooked(cache, a)
             accepted == AcceptsSubnet(T(a), a.cidr, WantedParent(a))
             fresh == Reread(looked, T(a), "subnets", Created(row).rows)
  <2>1. Creates(a, row)
    BY <1>9, ParentsFacts DEF DoCreateSubnet, On, Creates
  <2> HIDE DEF row
  <2>2. Effect(a, Created(row), looked, Dropped(looked, T(a)), fresh)
    BY <1>2, <2>1 DEF Effect
  <2>3. WriteAndConfirm(a, accepted, Created(row), looked, Dropped(looked, T(a)), fresh, TRUE)
    BY <1>9 DEF DoCreateSubnet, row
  <2> QED BY <1>2, <1>4, <2>2, <2>3
<1>10. CASE DoCreateFolder(a)
  <2> DEFINE p == a.folder
             nested == Len(p) > 1
             parent == IF nested
                       THEN FolderId(Listed(T(a), "folders"), SubSeq(p, 1, Len(p) - 1))
                       ELSE None
             looked == IF nested THEN Looked(cache, a, "folders") ELSE cache
             row == FolderRow(T(a), p[Len(p)], parent)
             fresh == Reread(looked, T(a), "folders", Created(row).rows)
  <2>1. looked \in Looks(a)
    BY <1>2
  <2>2. AcceptsFolder(parent) => Creates(a, row)
    <3>1. parent \in Parents(a)
      BY ParentsFacts
    <3> HIDE DEF parent
    <3> QED BY <1>10, <3>1 DEF DoCreateFolder, On, Creates
  <2>3. \/ Fail(a, "unresolved", looked)
        \/ WriteAndConfirm(a, AcceptsFolder(parent), Created(row), looked,
                           Dropped(looked, T(a)), fresh, TRUE)
    BY <1>10 DEF DoCreateFolder
  <2> HIDE DEF row, looked, parent
  <2>4. AcceptsFolder(parent) => Effect(a, Created(row), looked, Dropped(looked, T(a)), fresh)
    BY <1>2, <2>1, <2>2 DEF Effect
  <2> QED BY <1>3, <1>4, <2>1, <2>3, <2>4
<1>11. CASE DoUpdateSubnet(a)
  <2> DEFINE row == [rows[id] EXCEPT !.fields = a.fields]
  <2>1. a.kind = "update_subnet" /\ a.kind \notin SubnetlessKind /\ Resolved(a) \in Looks(a)
    BY <1>11, LooksFacts DEF DoUpdateSubnet, On, SubnetlessKind
  <2>2. id # None /\ id \in DOMAIN rows => Effect(a, WithRow(id, row), Resolved(a), Resolved(a), Resolved(a))
    BY <1>6, <2>1 DEF Changes
  <2>3. \/ Fail(a, "unresolved", Resolved(a))
        \/ id # None /\ Write(a, id \in DOMAIN rows, WithRow(id, row), Resolved(a), Resolved(a))
    BY <1>11, RowWrites DEF DoUpdateSubnet
  <2> HIDE DEF row
  <2> QED BY <1>3, <1>5, <2>1, <2>2, <2>3
<1>12. CASE DoDetachSubnet(a)
  <2> DEFINE row == [rows[id] EXCEPT !.masterSubnetId = None]
             fresh == Dropped(Resolved(a), T(a))
  <2>1. a.kind = "detach_subnet" /\ a.kind \notin SubnetlessKind /\ Resolved(a) \in Looks(a)
    BY <1>12, LooksFacts DEF DoDetachSubnet, On, SubnetlessKind
  <2>2. id # None /\ id \in DOMAIN rows => Effect(a, WithRow(id, row), Resolved(a), Resolved(a), fresh)
    BY <1>6, <2>1, ParentsFacts DEF Changes
  <2>3. \/ Fail(a, "unresolved", Resolved(a))
        \/ id # None /\ Write(a, id \in DOMAIN rows, WithRow(id, row), Resolved(a), fresh)
    BY <1>12, RowWrites DEF DoDetachSubnet
  <2> HIDE DEF row
  <2> QED BY <1>3, <1>5, <2>1, <2>2, <2>3
<1>13. CASE DoReparentSubnet(a)
  <2> DEFINE row == [rows[id] EXCEPT !.masterSubnetId = WantedParent(a)]
             looked == ParentLooked(Resolved(a), a)
             fresh == Dropped(looked, T(a))
  <2>1. /\ a.kind = "reparent_subnet" /\ a.kind \notin SubnetlessKind
        /\ Resolved(a) \in Looks(a) /\ looked \in Looks(a)
    BY <1>13, LooksFacts DEF DoReparentSubnet, On, SubnetlessKind
  <2>2. id # None /\ id \in DOMAIN rows => Effect(a, WithRow(id, row), looked, looked, fresh)
    BY <1>6, <2>1, ParentsFacts DEF Changes
  <2>3. \/ Fail(a, "unresolved", Resolved(a))
        \/ Done(a, looked)
        \/ id # None /\ Write(a, id \in DOMAIN rows, WithRow(id, row), looked, fresh)
    BY <1>13, RowWrites DEF DoReparentSubnet
  <2> HIDE DEF row, looked
  <2> QED BY <1>3, <1>5, <2>1, <2>2, <2>3
<1>14. CASE DoCreateAddress(a)
  <2> DEFINE row == WithAddress(id, a.ip, a.fields)
             fresh == Unread(Resolved(a), id)
             free == id \in DOMAIN rows /\ rows[id].addresses[a.ip] = None
  <2>1. a.kind = "create_address" /\ a.kind \notin SubnetlessKind /\ Resolved(a) \in Looks(a)
    BY <1>14, LooksFacts DEF DoCreateAddress, On, SubnetlessKind
  <2>2. id # None /\ free => Effect(a, WithRow(id, row), Resolved(a), Resolved(a), fresh)
    BY <1>1, <1>6, <2>1 DEF Changes
  <2> HIDE DEF row
  <2>0. WithRow(id, row) = [target EXCEPT !.rows[id].addresses[a.ip] = a.fields]
    BY AddressWritten DEF row
  <2>3. \/ Fail(a, "unresolved", Resolved(a))
        \/ id # None /\ Write(a, free, WithRow(id, row), Resolved(a), fresh)
    BY <1>14, <2>0 DEF DoCreateAddress, Unread
  <2> HIDE DEF free
  <2> QED BY <1>3, <1>5, <2>1, <2>2, <2>3
<1>15. CASE DoUpdateAddress(a)
  <2> DEFINE row == WithAddress(id, a.ip, a.fields)
             looked == WithAddresses(a)
             used == id \in DOMAIN rows /\ rows[id].addresses[a.ip] # None
  <2>1. /\ a.kind = "update_address" /\ a.kind \notin SubnetlessKind /\ Resolved(a) \in Looks(a)
        /\ id # None => looked \in Looks(a)
    BY <1>15, LooksFacts DEF DoUpdateAddress, On, SubnetlessKind
  <2>2. id # None /\ used => Effect(a, WithRow(id, row), looked, looked, looked)
    BY <1>6, <2>1 DEF Changes
  <2> HIDE DEF row
  <2>0. WithRow(id, row) = [target EXCEPT !.rows[id].addresses[a.ip] = a.fields]
    BY AddressWritten DEF row
  <2>3. \/ Fail(a, "unresolved", Resolved(a))
        \/ id # None /\ Fail(a, "vanished", looked)
        \/ id # None /\ Write(a, used, WithRow(id, row), looked, looked)
    BY <1>15, <2>0 DEF DoUpdateAddress
  <2> HIDE DEF used, looked
  <2> QED BY <1>3, <1>5, <2>1, <2>2, <2>3
<1>16. CASE DoDeleteAddress(a)
  <2> DEFINE row == WithAddress(id, a.ip, None)
             looked == WithAddresses(a)
             fresh == Unread(looked, id)
             used == id \in DOMAIN rows /\ rows[id].addresses[a.ip] # None
  <2>1. /\ a.kind = "delete_address" /\ a.kind \notin SubnetlessKind /\ Resolved(a) \in Looks(a)
        /\ id # None => looked \in Looks(a)
    BY <1>16, LooksFacts DEF DoDeleteAddress, On, SubnetlessKind
  <2>2. id # None /\ used => Effect(a, WithRow(id, row), looked, looked, fresh)
    BY <1>1, <1>6, <2>1 DEF Changes
  <2> HIDE DEF row
  <2>0. WithRow(id, row) = [target EXCEPT !.rows[id].addresses[a.ip] = None]
    BY AddressWritten DEF row
  <2>3. \/ Fail(a, "unresolved", Resolved(a))
        \/ id # None /\ Done(a, looked)
        \/ id # None /\ Write(a, used, WithRow(id, row), looked, fresh)
    BY <1>16, <2>0 DEF DoDeleteAddress, Unread
  <2> HIDE DEF used, looked
  <2> QED BY <1>3, <1>5, <2>1, <2>2, <2>3
<1>17. CASE DoDeleteSubnet(a)
  <2> DEFINE i == SubnetId(Listed(T(a), "subnets"), a.cidr)
             looked == Looked(cache, a, "subnets")
             dropped == Dropped(Popped(looked, a, i), T(a))
             fresh == Reread(Popped(looked, a, i), T(a), "subnets", Deleted(i).rows)
             gone == SubnetIds(Listing(Deleted(i).rows, T(a)), a.cidr) = {}
  <2>1. a.kind = "delete_subnet"
    BY <1>17 DEF DoDeleteSubnet, On
  <2>2. i # None /\ i \in DOMAIN rows => Effect(a, Deleted(i), looked, dropped, fresh)
    BY <1>2, <2>1 DEF Effect
  <2>3. \/ Done(a, looked)
        \/ i # None /\ WriteAndConfirm(a, i \in DOMAIN rows, Deleted(i), looked, dropped, fresh, gone)
    BY <1>17 DEF DoDeleteSubnet, Popped
  <2> HIDE DEF i, gone
  <2> QED BY <1>2, <1>3, <1>4, <2>2, <2>3
<1>18. CASE DoDeleteFolder(a)
  <2> DEFINE i == FoundFolder(a)
             looked == Looked(cache, a, "folders")
             fresh == Dropped(looked, T(a))
  <2>1. a.kind = "delete_folder" /\ looked \in Looks(a)
    BY <1>2, <1>18 DEF DoDeleteFolder, On
  <2>2. a \in foundEmpty /\ i \in DOMAIN rows => Effect(a, Deleted(i), looked, looked, fresh)
    <3>1. None \notin DOMAIN rows
      BY DEF TypeOK, TargetType, TableType, Ids, None, rows
    <3> QED BY <2>1, <3>1 DEF Effect
  <2>3. \/ a \notin foundEmpty /\ Done(a, looked)
        \/ a \notin foundEmpty /\ Lost(a) /\ cache' \in {cache, looked} /\ UNCHANGED target
        \/ a \in foundEmpty /\ Write(a, i \in DOMAIN rows, Deleted(i), looked, fresh)
    BY <1>18 DEF DoDeleteFolder
  <2> HIDE DEF i, looked, fresh
  <2>4. CASE Lost(a) /\ cache' \in {cache, looked} /\ UNCHANGED target
    <3>1. Taken(a) /\ faults' = faults + 1 /\ errors \subseteq errors' /\ errors' # {}
      BY <2>4 DEF Lost, Recorded
    <3>2. Ended(a, target, looked, looked, fresh)
      BY <2>1, <2>4, <3>1 DEF Ended
    <3> QED BY <3>2
  <2> QED BY <1>3, <1>5, <2>1, <2>2, <2>3, <2>4
<1> QED BY <1>7, <1>8, <1>9, <1>10, <1>11, <1>12, <1>13, <1>14, <1>15, <1>16, <1>17, <1>18
        DEF Handle

(***************************************************************************)
(* What a handler makes of the rows.                                       *)
(***************************************************************************)
\* The target's table, and what its writes leave of the other fields.
LEMMA TargetFacts ==
  ASSUME TypeOK
  PROVE  /\ TableType(rows, target.nextId) /\ target.nextId \in Nat \ {None}
         /\ target.nextId \notin DOMAIN rows
         /\ \A row : /\ Created(row).rows = Put(rows, target.nextId, row)
                     /\ Created(row).nextId = target.nextId + 1
                     /\ Created(row).sects = sects
         /\ \A id : /\ Deleted(id).rows = RowsWithout(id)
                    /\ Deleted(id).nextId = target.nextId
                    /\ Deleted(id).sects = sects
         /\ \A id, row : /\ WithRow(id, row).rows = [rows EXCEPT ![id] = row]
                         /\ WithRow(id, row).nextId = target.nextId
                         /\ WithRow(id, row).sects = sects
         /\ \A S : /\ [target EXCEPT !.sects = S].rows = rows
                   /\ [target EXCEPT !.sects = S].nextId = target.nextId
                   /\ [target EXCEPT !.sects = S].sects = S
<1>1. /\ target \in [sects : SUBSET TargetSection, rows : {rows}, nextId : Nat \ {None}]
      /\ TableType(rows, target.nextId)
      /\ rows = target.rows /\ sects = target.sects
  BY DEF TypeOK, TargetType, rows, sects
<1>2. target.nextId \notin DOMAIN rows
  BY <1>1 DEF TableType, Ids
<1>3. ASSUME NEW row
      PROVE  /\ Created(row).rows = Put(rows, target.nextId, row)
             /\ Created(row).nextId = target.nextId + 1
             /\ Created(row).sects = sects
  BY <1>1 DEF Created
<1>4. ASSUME NEW id
      PROVE  /\ Deleted(id).rows = RowsWithout(id)
             /\ Deleted(id).nextId = target.nextId
             /\ Deleted(id).sects = sects
  BY <1>1 DEF Deleted
<1>5. ASSUME NEW id, NEW row
      PROVE  /\ WithRow(id, row).rows = [rows EXCEPT ![id] = row]
             /\ WithRow(id, row).nextId = target.nextId
             /\ WithRow(id, row).sects = sects
  BY <1>1 DEF WithRow
<1>6. ASSUME NEW S
      PROVE  /\ [target EXCEPT !.sects = S].rows = rows
             /\ [target EXCEPT !.sects = S].nextId = target.nextId
             /\ [target EXCEPT !.sects = S].sects = S
  BY <1>1
<1> QED BY <1>1, <1>2, <1>3, <1>4, <1>5, <1>6

\* An effect leaves the table alone; or enters a row; or changes the row of the
\* action's subnet; or takes out a row of the action's section, and what goes with it.
Entered(a, after) ==
  \E row : /\ Creates(a, row)
           /\ after.rows = Put(rows, target.nextId, row)
           /\ after.nextId = target.nextId + 1

Touched(a, after, looked, fresh) ==
  LET id == KnownId(a)
  IN  /\ a.kind \notin SubnetlessKind
      /\ id # None /\ id \in DOMAIN rows
      /\ \E row : /\ Changes(a, id, row, looked, fresh)
                  /\ after.rows = [rows EXCEPT ![id] = row]
      /\ after.nextId = target.nextId

Removed(a, id, after) ==
  /\ \/ a.kind = "delete_subnet" /\ id = SubnetId(Listed(T(a), "subnets"), a.cidr)
     \/ a.kind = "delete_folder" /\ id = FoundFolder(a) /\ a \in foundEmpty
  /\ id # None /\ id \in DOMAIN rows
  /\ after.rows = RowsWithout(id)
  /\ after.nextId = target.nextId

LEMMA EffectOnTable ==
  ASSUME TypeOK, NEW a \in Action, NEW after, NEW looked, NEW dropped, NEW fresh,
         Effect(a, after, looked, dropped, fresh)
  PROVE  \/ after.rows = rows /\ after.nextId = target.nextId
         \/ Entered(a, after)
         \/ Touched(a, after, looked, fresh)
         \/ \E id : Removed(a, id, after)
<1>1. CASE after = [target EXCEPT !.sects = sects \cup {T(a)}]
  BY <1>1, TargetFacts
<1>2. CASE \E row : Creates(a, row) /\ after = Created(row)
  BY <1>2, TargetFacts DEF Entered
<1>3. CASE /\ a.kind \notin SubnetlessKind
           /\ KnownId(a) # None /\ KnownId(a) \in DOMAIN rows
           /\ \E row : /\ Changes(a, KnownId(a), row, looked, fresh)
                       /\ after = WithRow(KnownId(a), row)
  <2> DEFINE id == KnownId(a)
  <2>1. PICK row : Changes(a, id, row, looked, fresh) /\ after = WithRow(id, row)
    BY <1>3
  <2>2. a.kind \notin SubnetlessKind /\ id # None /\ id \in DOMAIN rows
    BY <1>3
  <2> HIDE DEF id
  <2>3. after.rows = [rows EXCEPT ![id] = row] /\ after.nextId = target.nextId
    BY <2>1, TargetFacts
  <2>4. /\ \E r : Changes(a, id, r, looked, fresh) /\ after.rows = [rows EXCEPT ![id] = r]
        /\ after.nextId = target.nextId
    BY <2>1, <2>3
  <2> QED BY <2>2, <2>4 DEF Touched, id
<1>4. CASE a.kind = "delete_subnet" /\ \E id : /\ id = SubnetId(Listed(T(a), "subnets"), a.cidr)
                                               /\ id # None /\ id \in DOMAIN rows
                                               /\ after = Deleted(id)
  BY <1>4, TargetFacts DEF Removed
<1>5. CASE a.kind = "delete_folder" /\ \E id : /\ id = FoundFolder(a) /\ a \in foundEmpty
                                               /\ id # None /\ id \in DOMAIN rows
                                               /\ after = Deleted(id)
  BY <1>5, TargetFacts DEF Removed
<1> QED BY <1>1, <1>2, <1>3, <1>4, <1>5 DEF Effect

\* An id that is looked up and not renumbered is that of a row of the action's section;
\* of one of that name when a subnet is looked up, of a folder when a folder is.
LEMMA FoundIsNamed ==
  ASSUME TypeOK, IdsStayTrue, NEW a \in Action
  PROVE  /\ \A c \in Cidr :
              LET id == SubnetId(Listed(T(a), "subnets"), c)
              IN  id # None /\ id \in DOMAIN rows \ renumbered
                    => rows[id].section = T(a) /\ rows[id].cidr = c
         /\ \A p :
              LET id == FolderId(Listed(T(a), "folders"), p)
              IN  id # None /\ id \in DOMAIN rows \ renumbered
                    => rows[id].section = T(a) /\ rows[id].isFolder
<1>1. \A x : TrueListing(Listed(T(a), x), T(a), Steady(rows))
  BY SeenIsTrue
<1>2. ASSUME NEW x, NEW i \in DOMAIN Listed(T(a), x), i \in DOMAIN rows \ renumbered
      PROVE  rows[i].section = T(a) /\ rows[i].cidr = Listed(T(a), x)[i].cidr
  BY <1>1, <1>2 DEF TrueListing, Steady
<1>3. ASSUME NEW c \in Cidr, NEW id, id = SubnetId(Listed(T(a), "subnets"), c), id # None,
             id \in DOMAIN rows \ renumbered
      PROVE  rows[id].section = T(a) /\ rows[id].cidr = c
  <2>1. id \in SubnetIds(Listed(T(a), "subnets"), c)
    BY <1>3, PickType DEF SubnetId
  <2> QED BY <1>2, <1>3, <2>1 DEF SubnetIds, SubnetRows
<1>4. ASSUME NEW p, NEW id, id = FolderId(Listed(T(a), "folders"), p), id # None,
             id \in DOMAIN rows \ renumbered
      PROVE  rows[id].section = T(a) /\ rows[id].isFolder
  <2>1. id \in FolderRows(Listed(T(a), "folders"))
    BY <1>4, PickType DEF FolderId
  <2>2. TableType(Listed(T(a), "folders"), target.nextId)
    BY Seen DEF Index
  <2>3. Listed(T(a), "folders")[id].cidr = None
    BY <2>1, <2>2 DEF FolderRows, TableType, Row
  <2>4. rows[id] \in Row
    BY <1>4, TargetFacts DEF TableType
  <2> QED BY <1>2, <1>4, <2>1, <2>3, <2>4 DEF FolderRows, Row
<1> QED BY <1>3, <1>4

(***************************************************************************)
(* While nobody else edits (edits = 0), no row is renumbered, and a folder *)
(* that was found empty is empty still.  For edits: what is in such a      *)
(* folder is in another section, or was put there since, and so was what   *)
(* is below that.                                                          *)
(***************************************************************************)
IdsTrueNow ==
  /\ IdsStayTrue
  /\ renumbered = {}
  /\ \A a \in foundEmpty : SubnetsUnder(T(a), FoundFolder(a)) = {}

\* phpIPAM gives a row a parent by an id it gave out.
ParentsGiven == \A i \in DOMAIN rows : rows[i].masterSubnetId \in Ids(target.nextId) \cup {None}

FolderWindow ==
  /\ ~ running => foundEmpty = {}
  /\ \A a \in foundEmpty :
       /\ a \in Action /\ a.kind = "delete_folder"
       /\ << T(a), "folders" >> \in DOMAIN cache.listings
       /\ \A k \in DOMAIN rows :
            rows[k].masterSubnetId = FoundFolder(a) => k \in filed \/ rows[k].section # T(a)
  /\ \A k \in DOMAIN rows : rows[k].masterSubnetId \in filed => k \in filed

EditsRecorded == edits = 0 => renumbered = {} /\ filed = {}

Window == ParentsGiven /\ FolderWindow /\ EditsRecorded

LEMMA UneditedIsTrue ==
  ASSUME IdsStayTrue, Window, edits = 0
  PROVE  IdsTrueNow
BY DEF Window, FolderWindow, EditsRecorded, IdsTrueNow, SubnetsUnder, Listing

\* Then what is seen is true of the rows as they are.
LEMMA SeenIsTrueNow ==
  ASSUME TypeOK, IdsTrueNow, NEW a \in Action
  PROVE  /\ \A x : TrueListing(Listed(T(a), x), T(a), rows)
         /\ KnownId(a) # None /\ KnownId(a) \in DOMAIN rows =>
              rows[KnownId(a)].section = T(a) /\ rows[KnownId(a)].cidr = a.cidr
<1>1. IdsStayTrue /\ renumbered = {}
  BY DEF IdsTrueNow
<1>2. DOMAIN rows \ {} = DOMAIN rows /\ rows \in [DOMAIN rows -> Row]
  BY TargetFacts DEF TableType
<1>3. Steady(rows) = rows
  BY <1>1, <1>2 DEF Steady
<1> QED BY <1>1, <1>2, <1>3, SeenIsTrue

Changed(a, after, looked, fresh) ==
  LET id == KnownId(a)
  IN  /\ a.kind \notin SubnetlessKind
      /\ id \in DOMAIN rows /\ rows[id].section = T(a) /\ rows[id].cidr = a.cidr
      /\ \E row : /\ Changes(a, id, row, looked, fresh)
                  /\ after.rows = [rows EXCEPT ![id] = row]
      /\ after.nextId = target.nextId

TakenOut(a, after) ==
  /\ a.kind \in {"delete_subnet", "delete_folder"}
  /\ \E id \in DOMAIN rows :
       /\ rows[id].section = T(a)
       /\ a.kind = "delete_subnet" => rows[id].cidr = a.cidr
       /\ a.kind = "delete_folder" =>
            \A j \in DOMAIN Listing(rows, T(a)) : rows[j].masterSubnetId # id
       /\ after.rows = RowsWithout(id)
  /\ after.nextId = target.nextId

LEMMA EffectOnRows ==
  ASSUME TypeOK, IdsTrueNow, NEW a \in Action, NEW after, NEW looked, NEW dropped, NEW fresh,
         Effect(a, after, looked, dropped, fresh)
  PROVE  \/ after.rows = rows /\ after.nextId = target.nextId
         \/ Entered(a, after)
         \/ Changed(a, after, looked, fresh)
         \/ TakenOut(a, after)
<1>1. IdsStayTrue /\ renumbered = {}
  BY DEF IdsTrueNow
<1>2. CASE Touched(a, after, looked, fresh)
  BY <1>2, SeenIsTrueNow DEF Touched, Changed
<1>3. ASSUME NEW id, Removed(a, id, after), a.kind = "delete_subnet"
      PROVE  TakenOut(a, after)
  <2>1. a.cidr \in Cidr /\ id = SubnetId(Listed(T(a), "subnets"), a.cidr)
    BY <1>3, ActionFacts DEF Removed, Action, SubnetlessKind
  <2>2. rows[id].section = T(a) /\ rows[id].cidr = a.cidr
    BY <1>1, <1>3, <2>1, FoundIsNamed DEF Removed
  <2> QED BY <1>3, <2>2 DEF Removed, TakenOut
<1>4. ASSUME NEW id, Removed(a, id, after), a.kind = "delete_folder"
      PROVE  TakenOut(a, after)
  <2>1. a \in foundEmpty /\ id = FoundFolder(a) /\ id # None /\ id \in DOMAIN rows
    BY <1>4 DEF Removed
  <2>2. rows[id].section = T(a)
    BY <1>1, <2>1, FoundIsNamed DEF FoundFolder
  <2>3. \A j \in DOMAIN Listing(rows, T(a)) : rows[j].masterSubnetId # id
    BY <2>1 DEF IdsTrueNow, SubnetsUnder
  <2> QED BY <1>4, <2>1, <2>2, <2>3 DEF Removed, TakenOut
<1>5. \A id : Removed(a, id, after) => a.kind \in {"delete_subnet", "delete_folder"}
  BY DEF Removed
<1> QED BY <1>2, <1>3, <1>4, <1>5, EffectOnTable

(***************************************************************************)
(* Sections of others (OutOfScopeUntouched).  A handler writes to a row of *)
(* its action's section, if nobody renumbered the row; that deleting a row *)
(* takes no row of another section with it needs every row to lie in the   *)
(* section of its parent.                                                  *)
(***************************************************************************)
\* What is below a row is in its section.
LEMMA BelowStaysInSection ==
  ASSUME Housed(target), NEW id \in DOMAIN rows, NEW j \in Below(id)
  PROVE  j \in DOMAIN rows /\ rows[j].section = rows[id].section
<1> DEFINE S == {k \in DOMAIN rows : rows[k].section = rows[id].section}
<1>1. \A k \in DOMAIN rows : rows[k].masterSubnetId \in S => k \in S
  BY DEF Housed, rows
<1>2. S \in SUBSET DOMAIN rows /\ id \in S
  OBVIOUS
<1> HIDE DEF S
<1>3. j \in DOMAIN rows /\ j \in S
  BY <1>1, <1>2 DEF Below
<1> QED BY <1>3 DEF S

\* Every row an effect changes or takes out is in the action's section.
LEMMA EffectStaysInSection ==
  ASSUME TypeOK, IdsTrueNow, Housed(target), NEW a \in Action,
         NEW after, NEW looked, NEW dropped, NEW fresh,
         Effect(a, after, looked, dropped, fresh),
         NEW i \in DOMAIN rows, rows[i].section # T(a)
  PROVE  i \in DOMAIN after.rows /\ after.rows[i] = rows[i]
<1>1. CASE after.rows = rows
  BY <1>1
<1>2. CASE Entered(a, after)
  BY <1>2, TargetFacts DEF Entered, Put
<1>3. CASE Changed(a, after, looked, fresh)
  BY <1>3 DEF Changed
<1>4. CASE TakenOut(a, after)
  <2>1. PICK id \in DOMAIN rows : rows[id].section = T(a) /\ after.rows = RowsWithout(id)
    BY <1>4 DEF TakenOut
  <2>2. i \notin Below(id) /\ i # id
    BY <2>1, BelowStaysInSection
  <2> QED BY <2>1, <2>2 DEF RowsWithout
<1> QED BY <1>1, <1>2, <1>3, <1>4, EffectOnRows

\* A parent a handler looks up is in the action's section, or gone.
LEMMA ParentsAreHoused ==
  ASSUME TypeOK, IdsTrueNow, NEW a \in Action, NEW p \in Parents(a)
  PROVE  /\ p \in Ids(target.nextId) \cup {None}
         /\ p \in DOMAIN rows => rows[p].section = T(a)
<1>1. ASSUME NEW x \in Index, p \in DOMAIN Listed(T(a), x)
      PROVE  p \in Ids(target.nextId) /\ (p \in DOMAIN rows => rows[p].section = T(a))
  <2>1. TableType(Listed(T(a), x), target.nextId)
    BY Seen
  <2>2. TrueListing(Listed(T(a), x), T(a), rows)
    BY SeenIsTrueNow
  <2> QED BY <1>1, <2>1, <2>2 DEF TableType, TrueListing
<1>2. None \notin DOMAIN rows
  BY TargetFacts DEF TableType, Ids, None
<1> QED BY <1>1, <1>2 DEF Parents, Index

\* Changes of the table after which every row still lies in its parent's section.
LEMMA HousedWrites ==
  ASSUME TypeOK, Housed(target), NEW after
  PROVE  /\ after.rows = rows /\ after.nextId = target.nextId => Housed(after)
         /\ \A id : after.rows = RowsWithout(id) /\ after.nextId = target.nextId => Housed(after)
         /\ \A row :
              /\ row.masterSubnetId \in Ids(target.nextId) \cup {None}
              /\ row.masterSubnetId \in DOMAIN rows =>
                   rows[row.masterSubnetId].section = row.section
              /\ after.rows = Put(rows, target.nextId, row)
              /\ after.nextId = target.nextId + 1
              => Housed(after)
         /\ \A id \in DOMAIN rows : \A row :
              /\ row.section = rows[id].section
              /\ \/ row.masterSubnetId = rows[id].masterSubnetId
                 \/ /\ row.masterSubnetId \in Ids(target.nextId) \cup {None}
                    /\ row.masterSubnetId \in DOMAIN rows =>
                         rows[row.masterSubnetId].section = row.section
              /\ after.rows = [rows EXCEPT ![id] = row]
              /\ after.nextId = target.nextId
              => Housed(after)
<1> DEFINE n == target.nextId
<1>1. /\ n \in Nat \ {None} /\ n \notin DOMAIN rows /\ None \notin DOMAIN rows
      /\ n \notin Ids(n) \cup {None} /\ Ids(n) \subseteq Ids(n + 1)
      /\ \A i \in DOMAIN rows :
           /\ rows[i].masterSubnetId \in Ids(n) \cup {None}
           /\ rows[i].masterSubnetId \in DOMAIN rows =>
                rows[rows[i].masterSubnetId].section = rows[i].section
  BY TargetFacts DEF TableType, Ids, None, Housed, rows
<1> HIDE DEF n
<1>2. after.rows = rows /\ after.nextId = n => Housed(after)
  BY <1>1 DEF Housed
<1>3. ASSUME NEW id, after.rows = RowsWithout(id), after.nextId = n
      PROVE  Housed(after)
  BY <1>1, <1>3 DEF Housed, RowsWithout
<1>4. ASSUME NEW row, row.masterSubnetId \in Ids(n) \cup {None},
             row.masterSubnetId \in DOMAIN rows =>
               rows[row.masterSubnetId].section = row.section,
             after.rows = Put(rows, n, row), after.nextId = n + 1
      PROVE  Housed(after)
  <2>1. /\ DOMAIN after.rows = DOMAIN rows \cup {n} /\ after.rows[n] = row
        /\ \A i \in DOMAIN rows : after.rows[i] = rows[i]
    BY <1>1, <1>4 DEF Put
  <2>2. ASSUME NEW i \in DOMAIN rows
        PROVE  LET p == after.rows[i].masterSubnetId
               IN  /\ p \in Ids(n + 1) \cup {None}
                   /\ p \in DOMAIN after.rows => after.rows[p].section = after.rows[i].section
    BY <1>1, <2>1
  <2>3. LET p == after.rows[n].masterSubnetId
        IN  /\ p \in Ids(n + 1) \cup {None}
            /\ p \in DOMAIN after.rows => after.rows[p].section = after.rows[n].section
    BY <1>1, <1>4, <2>1
  <2> QED BY <1>4, <2>1, <2>2, <2>3 DEF Housed
<1>5. ASSUME NEW id \in DOMAIN rows, NEW row, row.section = rows[id].section,
             \/ row.masterSubnetId = rows[id].masterSubnetId
             \/ /\ row.masterSubnetId \in Ids(n) \cup {None}
                /\ row.masterSubnetId \in DOMAIN rows =>
                     rows[row.masterSubnetId].section = row.section,
             after.rows = [rows EXCEPT ![id] = row], after.nextId = n
      PROVE  Housed(after)
  <2>1. /\ DOMAIN after.rows = DOMAIN rows /\ after.rows[id] = row
        /\ \A i \in DOMAIN rows \ {id} : after.rows[i] = rows[i]
        /\ \A i \in DOMAIN rows : after.rows[i].section = rows[i].section
    BY <1>5
  <2>2. ASSUME NEW i \in DOMAIN rows
        PROVE  LET p == after.rows[i].masterSubnetId
               IN  /\ p \in Ids(n) \cup {None}
                   /\ p \in DOMAIN rows => rows[p].section = rows[i].section
    BY <1>1, <1>5, <2>1
  <2> QED BY <1>5, <2>1, <2>2 DEF Housed
<1> QED BY <1>2, <1>3, <1>4, <1>5 DEF n

\* After an effect every row lies in its parent's section.
LEMMA EffectsHouse ==
  ASSUME TypeOK, IdsTrueNow, Housed(target), NEW a \in Action,
         NEW after, NEW looked, NEW dropped, NEW fresh,
         Effect(a, after, looked, dropped, fresh)
  PROVE  Housed(after)
<1>1. CASE after.rows = rows /\ after.nextId = target.nextId
  BY <1>1, HousedWrites
<1>2. CASE Entered(a, after)
  <2>1. PICK row : /\ Creates(a, row)
                   /\ after.rows = Put(rows, target.nextId, row)
                   /\ after.nextId = target.nextId + 1
    BY <1>2 DEF Entered
  <2>2. row.masterSubnetId \in Parents(a) /\ row.section = T(a)
    BY <2>1 DEF Creates, SubnetRow, FolderRow
  <2> QED BY <2>1, <2>2, ParentsAreHoused, HousedWrites
<1>3. CASE Changed(a, after, looked, fresh)
  <2> DEFINE id == KnownId(a)
  <2>1. PICK row : Changes(a, id, row, looked, fresh) /\ after.rows = [rows EXCEPT ![id] = row]
    BY <1>3 DEF Changed
  <2>2. id \in DOMAIN rows /\ rows[id].section = T(a) /\ after.nextId = target.nextId
    BY <1>3 DEF Changed
  <2>3. rows[id] \in Row
    BY <2>2, TargetFacts DEF TableType
  <2>4. /\ row.section = rows[id].section
        /\ row.masterSubnetId = rows[id].masterSubnetId \/ row.masterSubnetId \in Parents(a)
    BY <2>1, <2>3 DEF Changes, WithAddress, Row
  <2> HIDE DEF id
  <2> QED BY <2>1, <2>2, <2>4, ParentsAreHoused, HousedWrites
<1>4. CASE TakenOut(a, after)
  BY <1>4, HousedWrites DEF TakenOut
<1> QED BY <1>1, <1>2, <1>3, <1>4, EffectOnRows

(***************************************************************************)
(* What an operator does to the rows: enter one, give one another parent,  *)
(* CIDR, or address value, move it and what is below it to another         *)
(* section, or delete it; and what the edit says of the rows it touched.   *)
(***************************************************************************)
EditFacts(r, R, F) ==
  /\ edits' = edits + 1
  /\ renumbered' = renumbered \cup R
  /\ filed' = IF foundEmpty = {} THEN {} ELSE filed \cup F
  /\ UNCHANGED << snap, mode, running, pending, cache, errors, outcome, foundEmpty,
                  faults, arrivals >>
  /\ rows' = r

LEMMA OperatorsEdit ==
  ASSUME TypeOK, Operator
  PROVE  \/ \E row : \E parent \in DOMAIN rows \cup {None} :
              /\ EditFacts(Put(rows, target.nextId, row), {}, {target.nextId})
              /\ row.masterSubnetId = parent
              /\ target'.nextId = target.nextId + 1
         \/ /\ target'.nextId = target.nextId
            /\ \/ \E i \in DOMAIN rows, parent \in DOMAIN rows \cup {None} :
                    EditFacts([rows EXCEPT ![i].masterSubnetId = parent], {}, Below(i))
               \/ \E i \in DOMAIN rows, t \in sects :
                    EditFacts(InSection(i, t), Below(i), Below(i))
               \/ \E i \in DOMAIN rows : \E row, R :
                    /\ EditFacts([rows EXCEPT ![i] = row], R, {})
                    /\ row.masterSubnetId = rows[i].masterSubnetId
                    /\ row.section = rows[i].section
               \/ \E i \in DOMAIN rows : EditFacts(RowsWithout(i), {}, {})
<1>0. \A i \in DOMAIN rows : rows[i] \in Row
  BY TargetFacts DEF TableType
<1>1. /\ target \in [sects : SUBSET TargetSection, rows : {rows}, nextId : Nat \ {None}]
      /\ rows = target.rows
  BY DEF TypeOK, TargetType, rows
<1>2. ASSUME NEW after, NEW R, NEW F, Edit(after, R, F)
      PROVE  target' = after /\ EditFacts(after.rows, R, F)
  BY <1>2 DEF Edit, EditFacts, rows
<1>3. CASE OperatorCreatesSubnet
  <2>1. PICK t \in sects, c \in Cidr, f \in FieldValue, p \in DOMAIN rows \cup {None} :
          Edit(Created(SubnetRow(t, c, p, f)), {}, {target.nextId})
    BY <1>3 DEF OperatorCreatesSubnet
  <2> DEFINE row == SubnetRow(t, c, p, f)
  <2>2. row.masterSubnetId = p
    BY DEF SubnetRow
  <2> HIDE DEF row
  <2>3. /\ Created(row).rows = Put(rows, target.nextId, row)
        /\ Created(row).nextId = target.nextId + 1
    BY TargetFacts
  <2>4. target' = Created(row) /\ EditFacts(Created(row).rows, {}, {target.nextId})
    BY <1>2, <2>1 DEF row
  <2> QED BY <2>2, <2>3, <2>4
<1>4. CASE OperatorMovesSubnet
  <2>1. PICK i \in DOMAIN rows, p \in DOMAIN rows \cup {None} :
          Edit([target EXCEPT !.rows[i].masterSubnetId = p], {}, Below(i))
    BY <1>4 DEF OperatorMovesSubnet
  <2> DEFINE after == [target EXCEPT !.rows[i].masterSubnetId = p]
             r == [rows EXCEPT ![i].masterSubnetId = p]
  <2>2. after.rows = r /\ after.nextId = target.nextId
    BY <1>1
  <2>3. Edit(after, {}, Below(i))
    BY <2>1
  <2> HIDE DEF after
  <2>4. target'.nextId = target.nextId /\ EditFacts(after.rows, {}, Below(i))
    BY <1>2, <2>2, <2>3
  <2>5. EditFacts(r, {}, Below(i))
    BY <2>2, <2>4 DEF EditFacts
  <2> QED BY <2>4, <2>5
<1>5. CASE OperatorMovesToSection
  <2>1. PICK i \in DOMAIN rows, t \in sects :
          Edit([target EXCEPT !.rows = InSection(i, t)], Below(i), Below(i))
    BY <1>5 DEF OperatorMovesToSection
  <2> DEFINE after == [target EXCEPT !.rows = InSection(i, t)]
  <2>2. after.rows = InSection(i, t) /\ after.nextId = target.nextId
    BY <1>1
  <2>3. Edit(after, Below(i), Below(i))
    BY <2>1
  <2> HIDE DEF after
  <2>4. target'.nextId = target.nextId /\ EditFacts(after.rows, Below(i), Below(i))
    BY <1>2, <2>2, <2>3
  <2>5. EditFacts(InSection(i, t), Below(i), Below(i))
    BY <2>2, <2>4 DEF EditFacts
  <2> QED BY <2>4, <2>5
<1>6. ASSUME NEW i \in DOMAIN rows, NEW row, NEW R, Edit(WithRow(i, row), R, {}),
             row.masterSubnetId = rows[i].masterSubnetId, row.section = rows[i].section
      PROVE  /\ target'.nextId = target.nextId
             /\ EditFacts([rows EXCEPT ![i] = row], R, {})
  BY <1>2, <1>6, TargetFacts
<1>7. CASE OperatorResizesSubnet
  <2>1. PICK i \in DOMAIN rows, c \in Cidr : Edit([target EXCEPT !.rows[i].cidr = c], {i}, {})
    BY <1>7 DEF OperatorResizesSubnet
  <2> DEFINE row == [rows[i] EXCEPT !.cidr = c]
  <2>2. row.masterSubnetId = rows[i].masterSubnetId /\ row.section = rows[i].section
    BY <1>0 DEF Row
  <2>3. [target EXCEPT !.rows[i].cidr = c] = WithRow(i, row)
    BY DEF rows, WithRow
  <2> HIDE DEF row
  <2>4. Edit(WithRow(i, row), {i}, {})
    BY <2>1, <2>3, Zenon
  <2>5. target'.nextId = target.nextId /\ EditFacts([rows EXCEPT ![i] = row], {i}, {})
    BY <1>6, <2>2, <2>4
  <2> QED BY <2>2, <2>5
<1>8. CASE OperatorSetsAddress
  <2>1. PICK i \in DOMAIN rows, ip \in Ip, v \in FieldValue \cup {None} :
          Edit([target EXCEPT !.rows[i].addresses[ip] = v], {}, {})
    BY <1>8 DEF OperatorSetsAddress
  <2> DEFINE row == WithAddress(i, ip, v)
  <2>2. row.masterSubnetId = rows[i].masterSubnetId /\ row.section = rows[i].section
    BY <1>0 DEF Row, WithAddress
  <2> HIDE DEF row
  <2>3. WithRow(i, row) = [target EXCEPT !.rows[i].addresses[ip] = v]
    BY AddressWritten DEF row
  <2>4. Edit(WithRow(i, row), {}, {})
    BY <2>1, <2>3
  <2>5. target'.nextId = target.nextId /\ EditFacts([rows EXCEPT ![i] = row], {}, {})
    BY <1>6, <2>2, <2>4
  <2> QED BY <2>2, <2>5
<1>9. CASE OperatorDeletes
  <2>1. PICK i \in DOMAIN rows : Edit(Deleted(i), {}, {})
    BY <1>9 DEF OperatorDeletes
  <2>2. Deleted(i).rows = RowsWithout(i) /\ Deleted(i).nextId = target.nextId
    BY TargetFacts
  <2>3. target'.nextId = target.nextId /\ EditFacts(Deleted(i).rows, {}, {})
    BY <1>2, <2>1, <2>2
  <2> QED BY <2>2, <2>3
<1> QED BY <1>3, <1>4, <1>5, <1>7, <1>8, <1>9 DEF Operator

LEMMA OperatorCounts ==
  ASSUME TypeOK, Operator
  PROVE  edits' = edits + 1 /\ edits \in Nat /\ edits' # 0
         /\ UNCHANGED << snap, mode, running, pending, cache, errors, outcome, foundEmpty, faults >>
<1>1. edits \in Nat
  BY ImportAssumption DEF TypeOK, ImportAssumption
<1> QED BY <1>1, OperatorsEdit DEF EditFacts

\* Every parent was given out by the target, after an effect as before.
LEMMA EffectsGiveParents ==
  ASSUME TypeOK, ParentsGiven, NEW a \in Action,
         NEW after, NEW looked, NEW dropped, NEW fresh,
         Effect(a, after, looked, dropped, fresh)
  PROVE  \A i \in DOMAIN after.rows :
           after.rows[i].masterSubnetId \in Ids(after.nextId) \cup {None}
<1> DEFINE n == target.nextId
           Given(p, m) == p \in Ids(m) \cup {None}
<1>1. /\ n \in Nat \ {None} /\ n \notin DOMAIN rows
      /\ \A i \in DOMAIN rows : rows[i] \in Row /\ Given(rows[i].masterSubnetId, n)
      /\ \A p : Given(p, n) => Given(p, n + 1)
  BY TargetFacts DEF TableType, Ids, ParentsGiven
<1>2. \A p \in Parents(a) : Given(p, n)
  <2>1. \A x \in Index : DOMAIN Listed(T(a), x) \subseteq Ids(n)
    BY Seen DEF TableType
  <2> QED BY <2>1 DEF Parents, Index
<1> HIDE DEF n, Given
<1>3. CASE after.rows = rows /\ after.nextId = n
  BY <1>1, <1>3 DEF Given
<1>4. CASE Entered(a, after)
  <2>1. PICK row : Creates(a, row) /\ after.rows = Put(rows, n, row) /\ after.nextId = n + 1
    BY <1>4 DEF Entered, n
  <2>2. row.masterSubnetId \in Parents(a)
    BY <2>1 DEF Creates, SubnetRow, FolderRow
  <2>3. \A i \in DOMAIN after.rows : Given(after.rows[i].masterSubnetId, n)
    BY <1>1, <1>2, <2>1, <2>2 DEF Put
  <2> QED BY <1>1, <2>1, <2>3 DEF Given
<1>5. CASE Touched(a, after, looked, fresh)
  <2> DEFINE id == KnownId(a)
  <2>1. PICK row : Changes(a, id, row, looked, fresh) /\ after.rows = [rows EXCEPT ![id] = row]
    BY <1>5 DEF Touched
  <2>2. id \in DOMAIN rows /\ after.nextId = n
    BY <1>5 DEF Touched, n
  <2>3. rows[id] \in Row
    BY <1>1, <2>2
  <2>4. row.masterSubnetId = rows[id].masterSubnetId \/ row.masterSubnetId \in Parents(a)
    BY <2>1, <2>3 DEF Changes, WithAddress, Row
  <2> HIDE DEF id
  <2>5. \A i \in DOMAIN after.rows : Given(after.rows[i].masterSubnetId, n)
    BY <1>1, <1>2, <2>1, <2>2, <2>4
  <2> QED BY <2>2, <2>5 DEF Given
<1>6. CASE \E id : Removed(a, id, after)
  BY <1>1, <1>6 DEF Removed, RowsWithout, n, Given
<1> QED BY <1>3, <1>4, <1>5, <1>6, EffectOnTable DEF n

\* What is below a row is closed under children.
LEMMA BelowIsClosed ==
  ASSUME NEW id, NEW k \in DOMAIN rows, rows[k].masterSubnetId \in Below(id)
  PROVE  k \in Below(id)
BY DEF Below

LEMMA BelowItself ==
  ASSUME NEW id \in DOMAIN rows
  PROVE  id \in Below(id) /\ Below(id) \subseteq DOMAIN rows
BY DEF Below

\* What operators put into a folder that was found empty, and below it, is recorded.
LEMMA EditsKeepWindow ==
  ASSUME TypeOK, Window, Operator
  PROVE  Window'
<1> DEFINE n == target.nextId
<1>1. /\ n \in Nat \ {None} /\ n \notin DOMAIN rows
      /\ \A i \in DOMAIN rows : rows[i] \in Row /\ rows[i].masterSubnetId \in Ids(n) \cup {None}
      /\ n \notin Ids(n) \cup {None} /\ Ids(n) \subseteq Ids(n + 1)
      /\ DOMAIN rows \subseteq Ids(n)
  BY TargetFacts DEF TableType, Ids, None, Window, ParentsGiven
<1>2. /\ cache' = cache /\ foundEmpty' = foundEmpty /\ running' = running /\ edits' # 0
  BY OperatorCounts
<1>3. ASSUME NEW a \in foundEmpty
      PROVE  FoundFolder(a)' = FoundFolder(a)
  <2>1. << T(a), "folders" >> \in DOMAIN cache.listings
    BY DEF Window, FolderWindow
  <2>2. Listed(T(a), "folders")' = Listed(T(a), "folders")
    BY <1>2, <2>1 DEF Listed, T
  <2> QED BY <2>2 DEF FoundFolder
<1> DEFINE r == rows'
           Stays(F) == \A k \in DOMAIN r : k \in F \/
                        /\ k \in DOMAIN rows
                        /\ r[k].masterSubnetId = rows[k].masterSubnetId
                        /\ r[k].section = rows[k].section
           Closing(F) == \A k \in DOMAIN rows : rows[k].masterSubnetId \in F => k \in F
<1> HIDE DEF n
<1>4. ASSUME NEW F, NEW m,
             filed' = IF foundEmpty = {} THEN {} ELSE filed \cup F,
             \A k \in DOMAIN r : r[k].masterSubnetId \in Ids(m) \cup {None},
             target'.nextId = m, Stays(F), Closing(F)
      PROVE  Window'
  <2>1. ParentsGiven'
    BY <1>4 DEF ParentsGiven
  <2>2. EditsRecorded'
    BY <1>2 DEF EditsRecorded
  <2>3. ~ running' => foundEmpty' = {}
    BY <1>2 DEF Window, FolderWindow
  <2>4. CASE foundEmpty = {}
    <3>1. filed' = {} /\ foundEmpty' = {}
      BY <1>2, <1>4, <2>4
    <3>2. FolderWindow'
      BY <3>1 DEF FolderWindow
    <3> QED BY <2>1, <2>2, <3>2 DEF Window
  <2>5. CASE foundEmpty # {}
    <3>1. filed' = filed \cup F
      BY <1>4, <2>5
    <3>2. \A k \in DOMAIN r : r[k].masterSubnetId \in filed \cup F => k \in filed \cup F
      BY <1>4 DEF Window, FolderWindow
    <3>3. ASSUME NEW a \in foundEmpty'
          PROVE  /\ a \in Action /\ a.kind = "delete_folder"
                 /\ << T(a), "folders" >> \in DOMAIN cache'.listings
                 /\ \A k \in DOMAIN r : r[k].masterSubnetId = FoundFolder(a)' =>
                      k \in filed \cup F \/ r[k].section # T(a)
      <4>1. a \in foundEmpty
        BY <1>2
      <4>2. FoundFolder(a)' = FoundFolder(a)
        BY <1>3, <4>1
      <4> QED BY <1>2, <1>4, <4>1, <4>2 DEF Window, FolderWindow
    <3>4. FolderWindow'
      BY <2>3, <3>1, <3>2, <3>3 DEF FolderWindow, T
    <3> QED BY <2>1, <2>2, <3>4 DEF Window
  <2> QED BY <2>4, <2>5
<1>5. ASSUME NEW row, NEW p \in DOMAIN rows \cup {None},
             EditFacts(Put(rows, n, row), {}, {n}), row.masterSubnetId = p,
             target'.nextId = n + 1
      PROVE  Window'
  <2>1. /\ r = Put(rows, n, row) /\ filed' = IF foundEmpty = {} THEN {} ELSE filed \cup {n}
    BY <1>5 DEF EditFacts
  <2>2. Stays({n}) /\ \A k \in DOMAIN r : r[k].masterSubnetId \in Ids(n + 1) \cup {None}
    BY <1>1, <1>5, <2>1 DEF Put
  <2>3. Closing({n})
    BY <1>1
  <2> HIDE DEF Stays, Closing, r
  <2> QED BY <1>4, <1>5, <2>1, <2>2, <2>3
<1>6. ASSUME target'.nextId = n, NEW i \in DOMAIN rows, NEW p \in DOMAIN rows \cup {None},
             EditFacts([rows EXCEPT ![i].masterSubnetId = p], {}, Below(i))
      PROVE  Window'
  <2>1. /\ r = [rows EXCEPT ![i].masterSubnetId = p]
        /\ filed' = IF foundEmpty = {} THEN {} ELSE filed \cup Below(i)
    BY <1>6 DEF EditFacts
  <2>2. DOMAIN r = DOMAIN rows /\ \A k \in DOMAIN rows \ {i} : r[k] = rows[k]
    BY <2>1
  <2>3. r[i].masterSubnetId = p
    BY <1>1, <2>1 DEF Row
  <2>4. i \in Below(i)
    BY BelowItself
  <2>5. \A k \in DOMAIN r : r[k].masterSubnetId \in Ids(n) \cup {None}
    BY <1>1, <2>2, <2>3
  <2>6. Stays(Below(i)) /\ Closing(Below(i))
    BY <2>2, <2>4, BelowIsClosed
  <2> HIDE DEF Stays, Closing, r
  <2> QED BY <1>4, <1>6, <2>1, <2>5, <2>6
<1>7. ASSUME target'.nextId = n, NEW i \in DOMAIN rows, NEW t \in sects,
             EditFacts(InSection(i, t), Below(i), Below(i))
      PROVE  Window'
  <2>1. /\ r = InSection(i, t)
        /\ filed' = IF foundEmpty = {} THEN {} ELSE filed \cup Below(i)
    BY <1>7 DEF EditFacts
  <2>2. DOMAIN r = DOMAIN rows
    BY <2>1 DEF InSection
  <2>3. \A k \in DOMAIN rows :
          /\ r[k].masterSubnetId = (IF k = i THEN None ELSE rows[k].masterSubnetId)
          /\ k \notin Below(i) => r[k].section = rows[k].section
    BY <1>1, <2>1 DEF InSection, Row
  <2>4. i \in Below(i)
    BY BelowItself
  <2>5. \A k \in DOMAIN r : r[k].masterSubnetId \in Ids(n) \cup {None}
    BY <1>1, <2>2, <2>3
  <2>6. Stays(Below(i)) /\ Closing(Below(i))
    BY <2>2, <2>3, <2>4, BelowIsClosed
  <2> HIDE DEF Stays, Closing, r
  <2> QED BY <1>4, <1>7, <2>1, <2>5, <2>6
<1>8. ASSUME target'.nextId = n, NEW R, filed' = IF foundEmpty = {} THEN {} ELSE filed \cup {},
             DOMAIN r \subseteq DOMAIN rows,
             \A k \in DOMAIN r : /\ r[k].masterSubnetId = rows[k].masterSubnetId
                                 /\ r[k].section = rows[k].section
      PROVE  Window'
  <2>1. \A k \in DOMAIN r : r[k].masterSubnetId \in Ids(n) \cup {None}
    BY <1>1, <1>8
  <2>2. Stays({}) /\ Closing({})
    BY <1>8
  <2> HIDE DEF Stays, Closing, r
  <2> QED BY <1>4, <1>8, <2>1, <2>2
<1>9. ASSUME target'.nextId = n, NEW i \in DOMAIN rows, NEW row, NEW R,
             EditFacts([rows EXCEPT ![i] = row], R, {}),
             row.masterSubnetId = rows[i].masterSubnetId, row.section = rows[i].section
      PROVE  Window'
  <2>1. r = [rows EXCEPT ![i] = row] /\ filed' = IF foundEmpty = {} THEN {} ELSE filed \cup {}
    BY <1>9 DEF EditFacts
  <2>2. /\ DOMAIN r = DOMAIN rows
        /\ \A k \in DOMAIN r : /\ r[k].masterSubnetId = rows[k].masterSubnetId
                               /\ r[k].section = rows[k].section
    BY <1>9, <2>1
  <2> HIDE DEF r
  <2> QED BY <1>8, <1>9, <2>1, <2>2
<1>10. ASSUME target'.nextId = n, NEW i \in DOMAIN rows, EditFacts(RowsWithout(i), {}, {})
       PROVE  Window'
  <2>1. r = RowsWithout(i) /\ filed' = IF foundEmpty = {} THEN {} ELSE filed \cup {}
    BY <1>10 DEF EditFacts
  <2>2. DOMAIN r \subseteq DOMAIN rows /\ \A k \in DOMAIN r : r[k] = rows[k]
    BY <2>1 DEF RowsWithout
  <2> HIDE DEF r
  <2> QED BY <1>8, <1>10, <2>1, <2>2
<1> HIDE DEF Stays, Closing, r
<1> QED BY <1>5, <1>6, <1>7, <1>9, <1>10, OperatorsEdit DEF n

\* Between the look into a folder and its deletion all of this holds.
LEMMA WindowInvariant == Spec => []Window
<1>1. Init => Window
  BY HousedAssumption DEF Init, HousedAssumption, Housed, Window, ParentsGiven, FolderWindow,
                          EditsRecorded, rows
<1>2. TypeOK /\ Window /\ [Next]_vars => Window'
  <2> SUFFICES ASSUME TypeOK, Window, [Next]_vars
               PROVE  Window'
    OBVIOUS
  <2>1. CASE Execute
    <3>1. PICK a \in pending : Handle(a)
      BY <2>1 DEF Execute
    <3>2. PICK after, looked, dropped, fresh : Ended(a, after, looked, dropped, fresh)
      BY <3>1, HandlerEnds
    <3>3. foundEmpty' = {} /\ filed' = {} /\ renumbered' = renumbered /\ edits' = edits
      BY <3>2 DEF Ended, Taken
    <3>4. CASE target' = target
      BY <3>3, <3>4 DEF Window, ParentsGiven, FolderWindow, EditsRecorded, rows
    <3>5. CASE Effect(a, after, looked, dropped, fresh) /\ target' = after
      <4>1. a \in Action
        BY DEF TypeOK
      <4>2. ParentsGiven'
        BY <3>5, <4>1, EffectsGiveParents DEF Window, ParentsGiven, rows
      <4> QED BY <3>3, <4>2 DEF Window, FolderWindow, EditsRecorded
    <3> QED BY <3>2, <3>4, <3>5 DEF Ended
  <2>2. CASE Operator
    BY <2>2, EditsKeepWindow
  <2>3. CASE FinishRun \/ Crash
    <3>1. /\ foundEmpty' = {} /\ filed' = {} /\ renumbered' = {} /\ target' = target
      BY <2>3 DEF FinishRun, Crash, ProcessEnds
    <3> QED BY <3>1 DEF Window, ParentsGiven, FolderWindow, EditsRecorded, rows
  <2>4. CASE StartRun
    <3>1. /\ foundEmpty' = {} /\ filed' = filed /\ renumbered' \in {renumbered, {}}
          /\ target' = target /\ edits' = edits
      BY <2>4 DEF StartRun, Window, FolderWindow
    <3> QED BY <3>1 DEF Window, ParentsGiven, FolderWindow, EditsRecorded, rows
  <2>5. CASE ConfirmEmpty
    <3>1. PICK a \in pending :
            /\ On("delete_folder", a) /\ SubnetsUnder(T(a), FoundFolder(a)) = {}
            /\ foundEmpty' = {a} /\ cache' = Looked(cache, a, "folders")
      BY <2>5 DEF ConfirmEmpty
    <3>2. UNCHANGED << target, running, edits, renumbered, filed >> /\ running
      BY <2>5 DEF ConfirmEmpty
    <3>3. a \in Action /\ a.kind = "delete_folder"
      BY <3>1 DEF TypeOK, On
    <3> DEFINE k0 == << T(a), "folders" >>
    <3>4. cache'.listings = Put(cache.listings, k0, Listed(T(a), "folders"))
      BY <3>1 DEF Looked, TypeOK, CacheType
    <3>5. k0 \in DOMAIN cache'.listings /\ cache'.listings[k0] = Listed(T(a), "folders")
      BY <3>4 DEF Put
    <3>6. Listed(T(a), "folders")' = Listed(T(a), "folders")
      BY <3>5 DEF Listed, T
    <3>7. FoundFolder(a)' = FoundFolder(a)
      BY <3>6 DEF FoundFolder
    <3>8. \A k \in DOMAIN rows : rows[k].masterSubnetId = FoundFolder(a) => rows[k].section # T(a)
      BY <3>1 DEF SubnetsUnder, Listing
    <3>9. rows' = rows
      BY <3>2 DEF rows
    <3>10. FolderWindow'
      <4> SUFFICES ASSUME NEW b \in foundEmpty'
                   PROVE  /\ b \in Action /\ b.kind = "delete_folder"
                          /\ << T(b), "folders" >> \in DOMAIN cache'.listings
                          /\ \A k \in DOMAIN rows' : rows'[k].masterSubnetId = FoundFolder(b)' =>
                               k \in filed' \/ rows'[k].section # T(b)
        BY <3>2, <3>9 DEF Window, FolderWindow, T
      <4>1. b = a
        BY <3>1
      <4> QED BY <3>3, <3>5, <3>7, <3>8, <3>9, <4>1
    <3> QED BY <3>2, <3>9, <3>10 DEF Window, ParentsGiven, EditsRecorded
  <2>6. CASE Deliver
    <3>1. /\ foundEmpty' = {} /\ filed' = filed /\ renumbered' = renumbered
          /\ target' = target /\ edits' = edits
      BY <2>6 DEF Deliver, Window, FolderWindow
    <3> QED BY <3>1 DEF Window, ParentsGiven, FolderWindow, EditsRecorded, rows
  <2>7. CASE UNCHANGED vars
    BY <2>7 DEF vars, Window, ParentsGiven, FolderWindow, EditsRecorded, FoundFolder, Listed, T, rows
  <2> QED BY <2>1, <2>2, <2>3, <2>4, <2>5, <2>6, <2>7 DEF Next
<1> QED BY <1>1, <1>2, TypeCorrect, PTL DEF Spec

\* As long as nobody else edits, what the caches say of sections and CIDRs is true, a
\* folder found empty is empty, and every row lies in the section of its parent.
Unmeddled == edits = 0 => IdsTrueNow /\ Housed(target)

LEMMA UnmeddledInvariant == Spec => []Unmeddled
<1> DEFINE RowsHoused == edits = 0 => Housed(target)
<1>1. Init => RowsHoused
  BY HousedAssumption DEF Init, HousedAssumption
<1>2. TypeOK /\ IdsStayTrue /\ Window /\ RowsHoused /\ [Next]_vars => RowsHoused'
  <2> SUFFICES ASSUME TypeOK, IdsStayTrue, Window, RowsHoused, [Next]_vars, edits' = 0
               PROVE  Housed(target')
    OBVIOUS
  <2>1. CASE Execute
    <3>1. PICK a \in pending : Handle(a)
      BY <2>1 DEF Execute
    <3>2. PICK after, looked, dropped, fresh : Ended(a, after, looked, dropped, fresh)
      BY <3>1, HandlerEnds
    <3>3. a \in Action /\ edits = 0
      BY <3>2 DEF TypeOK, Ended, Taken
    <3>4. IdsTrueNow /\ Housed(target)
      BY <3>3, UneditedIsTrue
    <3> QED BY <3>2, <3>3, <3>4, EffectsHouse DEF Ended
  <2>2. CASE Operator
    BY <2>2, OperatorCounts
  <2>3. CASE StartRun \/ ConfirmEmpty \/ FinishRun \/ Crash \/ Deliver
    BY <2>3 DEF StartRun, ConfirmEmpty, FinishRun, Crash, Deliver
  <2>4. CASE UNCHANGED vars
    BY <2>4 DEF vars
  <2> QED BY <2>1, <2>2, <2>3, <2>4 DEF Next
<1>3. IdsStayTrue /\ Window /\ RowsHoused => Unmeddled
  BY UneditedIsTrue DEF Unmeddled
<1> HIDE DEF RowsHoused
<1> QED BY <1>1, <1>2, <1>3, TypeCorrect, CachedIdsAreTrue, WindowInvariant, PTL DEF Spec

\* A row in a section of the target that no section of the source maps to is left
\* alone by every handler, whatever cascades from a deletion (section_map,
\* ipamsync/config.py; Executor, ipamsync/target.py) -- unless operators resized it or
\* moved it there, or what it lies in, while the run was under way, or it lies in a row
\* of another section.
THEOREM OthersAreLeftAlone == Spec => OutOfScopeUntouched
<1>1. TypeOK /\ IdsStayTrue /\ [Next]_vars
        => [Execute => \A i \in DOMAIN rows :
              rows[i].section \notin {TargetOf[s] : s \in Section} /\ Settled(i)
                => i \in DOMAIN rows' /\ rows'[i] = rows[i]]_vars
  <2> SUFFICES ASSUME TypeOK, IdsStayTrue, Execute, NEW i \in DOMAIN rows,
                      rows[i].section \notin {TargetOf[s] : s \in Section}, Settled(i)
               PROVE  i \in DOMAIN rows' /\ rows'[i] = rows[i]
    OBVIOUS
  <2>1. PICK a \in pending : Handle(a)
    BY DEF Execute
  <2>2. a \in Action /\ a.section \in Section
    BY DEF TypeOK, Action, ActionRecord
  <2>3. PICK after, looked, dropped, fresh : Ended(a, after, looked, dropped, fresh)
    BY <2>1, HandlerEnds
  <2>4. rows[i].section # T(a)
    BY <2>2 DEF T
  <2>5. CASE target' = target
    BY <2>5 DEF rows
  <2>6. CASE Effect(a, after, looked, dropped, fresh) /\ target' = after
    <3>1. rows' = after.rows
      BY <2>6 DEF rows
    <3>2. \A j \in DOMAIN rows : i \in Below(j) => j \notin renumbered /\ rows[j].section # T(a)
      BY <2>4 DEF Settled
    <3>3. i \in Below(i)
      BY BelowItself
    <3>4. CASE after.rows = rows
      BY <3>1, <3>4
    <3>5. CASE Entered(a, after)
      BY <3>1, <3>5, TargetFacts DEF Entered, Put
    <3>6. CASE Touched(a, after, looked, fresh)
      <4>1. i # KnownId(a)
        BY <2>2, <2>4, <3>2, <3>3, <3>6, SeenIsTrue DEF Touched
      <4> QED BY <3>1, <3>6, <4>1 DEF Touched
    <3>7. ASSUME NEW id, Removed(a, id, after)
          PROVE  i \in DOMAIN rows' /\ rows'[i] = rows[i]
      <4>1. id \in DOMAIN rows /\ id # None /\ rows' = RowsWithout(id)
        BY <3>1, <3>7 DEF Removed
      <4>2. id \notin renumbered => rows[id].section = T(a)
        BY <2>2, <3>7, <4>1, FoundIsNamed DEF Removed, FoundFolder, Action, ActionRecord, SubnetlessKind
      <4>3. i \notin Below(id) /\ i # id
        BY <3>2, <3>3, <4>1, <4>2
      <4> QED BY <4>1, <4>3 DEF RowsWithout
    <3> QED BY <2>2, <2>6, <3>4, <3>5, <3>6, <3>7, EffectOnTable
  <2> QED BY <2>3, <2>5, <2>6 DEF Ended
<1> QED BY <1>1, TypeCorrect, CachedIdsAreTrue, PTL DEF Spec, OutOfScopeUntouched

(***************************************************************************)
(* Deletions that take one row.  A folder is empty when it goes, and where *)
(* phpIPAM does not cascade from a subnet a subnet goes alone.             *)
(***************************************************************************)
\* What the rows lose, when a step of a run nobody disturbed deletes, is one row.
RemovesOne ==
  (Execute /\ Undisturbed) =>
    \A i, j \in DOMAIN rows \ DOMAIN rows' : i = j

OneAtATime == [][RemovesOne]_vars

LEMMA OneRowTakenOut ==
  ASSUME TypeOK, Housed(target), ~ CascadeSubnets, NEW a \in Action, NEW after,
         TakenOut(a, after)
  PROVE  \A i, j \in DOMAIN rows \ DOMAIN after.rows : i = j
<1>1. PICK id \in DOMAIN rows :
        /\ rows[id].section = T(a)
        /\ a.kind = "delete_subnet" => rows[id].cidr = a.cidr
        /\ a.kind = "delete_folder" =>
             \A j \in DOMAIN Listing(rows, T(a)) : rows[j].masterSubnetId # id
        /\ after.rows = RowsWithout(id)
  BY DEF TakenOut
<1>2. CASE a.kind = "delete_subnet"
  <2>1. a.cidr # None
    BY <1>2 DEF Action, SubnetlessKind
  <2>2. rows[id] \in Row
    BY TargetFacts DEF TableType
  <2>3. ~ rows[id].isFolder
    BY <1>1, <1>2, <2>1, <2>2 DEF Row
  <2> QED BY <1>1, <2>3 DEF RowsWithout
<1>3. CASE a.kind = "delete_folder"
  <2>1. ASSUME NEW k \in DOMAIN rows, rows[k].masterSubnetId = id PROVE FALSE
    <3>1. rows[k].section = T(a)
      BY <1>1, <2>1 DEF Housed, rows
    <3> QED BY <1>1, <1>3, <2>1, <3>1 DEF Listing
  <2>2. Below(id) \subseteq {id}
    <3> DEFINE S == {id}
    <3>1. S \in SUBSET DOMAIN rows /\ id \in S
      OBVIOUS
    <3>2. \A k \in DOMAIN rows : rows[k].masterSubnetId \in S => k \in S
      BY <2>1
    <3> HIDE DEF S
    <3>3. Below(id) \subseteq S
      BY <3>1, <3>2 DEF Below
    <3> QED BY <3>3 DEF S
  <2> QED BY <1>1, <2>2 DEF RowsWithout
<1> QED BY <1>2, <1>3 DEF TakenOut

\* Without cascades from subnets every deletion takes one row.
LEMMA RowsLostWithoutCascades ==
  ASSUME TypeOK, IdsTrueNow, Housed(target), ~ CascadeSubnets, Execute
  PROVE  \A i, j \in DOMAIN rows \ DOMAIN rows' : i = j
<1>1. PICK a \in pending : Handle(a)
  BY DEF Execute
<1>2. PICK after, looked, dropped, fresh : Ended(a, after, looked, dropped, fresh)
  BY <1>1, HandlerEnds
<1>3. a \in Action
  BY DEF TypeOK
<1>4. CASE target' = target
  BY <1>4 DEF rows
<1>5. CASE Effect(a, after, looked, dropped, fresh) /\ target' = after
  <2>1. rows' = after.rows
    BY <1>5 DEF rows
  <2>2. CASE DOMAIN rows \subseteq DOMAIN after.rows
    BY <2>1, <2>2
  <2>3. CASE TakenOut(a, after)
    BY <1>3, <2>1, <2>3, OneRowTakenOut
  <2>4. CASE Entered(a, after)
    BY <2>2, <2>4 DEF Entered, Put
  <2>5. CASE Changed(a, after, looked, fresh)
    BY <2>2, <2>5 DEF Changed
  <2> QED BY <1>3, <1>5, <2>2, <2>3, <2>4, <2>5, EffectOnRows
<1> QED BY <1>2, <1>4, <1>5 DEF Ended

(***************************************************************************)
(* The caches of a run that nobody disturbs (CacheCoherent).  Every write  *)
(* drops or reads afresh what it makes stale.  What the code does not drop *)
(* is what it remembers of rows that go with a deleted one: the theorem is *)
(* about runs whose deletions take one row each, which is every run where  *)
(* phpIPAM does not cascade from a subnet to those below it.               *)
(***************************************************************************)
\* Caches c that agree with sections S and rows r.
Agrees(c, S, r) ==
  /\ c.sections = S
  /\ \A k \in DOMAIN c.listings : Shape(c.listings[k]) = Shape(Listing(r, k[1]))
  /\ \A k \in DOMAIN c.ids : c.ids[k] \in SubnetIds(Listing(r, k[1]), k[2])
  /\ \A i \in DOMAIN c.addresses :
       i \in DOMAIN r => InUse(c.addresses[i]) = InUse(r[i].addresses)

\* Two listings look alike.
Alike(L, M) ==
  /\ DOMAIN L = DOMAIN M
  /\ \A i \in DOMAIN L : /\ L[i].isFolder = M[i].isFolder
                         /\ L[i].cidr = M[i].cidr
                         /\ L[i].name = M[i].name
                         /\ L[i].masterSubnetId = M[i].masterSubnetId

LEMMA ShapesAlike ==
  ASSUME NEW L, NEW M
  PROVE  Shape(L) = Shape(M) <=> Alike(L, M)
<1>1. ASSUME NEW K
      PROVE  /\ DOMAIN Shape(K) = DOMAIN K
             /\ \A i \in DOMAIN K :
                  /\ Shape(K)[i].isFolder = K[i].isFolder
                  /\ Shape(K)[i].cidr = K[i].cidr
                  /\ Shape(K)[i].name = K[i].name
                  /\ Shape(K)[i].masterSubnetId = K[i].masterSubnetId
  BY DEF Shape
<1>2. Shape(L) = Shape(M) => Alike(L, M)
  BY <1>1 DEF Alike
<1>3. Alike(L, M) => Shape(L) = Shape(M)
  BY DEF Alike, Shape
<1> QED BY <1>2, <1>3

\* Listings that look alike have the same subnets.
LEMMA AlikeSubnets ==
  ASSUME NEW L, NEW M, Shape(L) = Shape(M), NEW c
  PROVE  /\ SubnetIds(L, c) = SubnetIds(M, c)
         /\ FolderRows(L) = FolderRows(M) /\ DOMAIN L = DOMAIN M
BY ShapesAlike DEF Alike, SubnetIds, SubnetRows, FolderRows

\* Rows r and s that differ in section t at most have the other sections' listings
\* in common.
LEMMA OtherListings ==
  ASSUME NEW r, NEW s, NEW t,
         \A i \in DOMAIN r : r[i].section # t => i \in DOMAIN s /\ s[i] = r[i],
         \A i \in DOMAIN s : s[i].section # t => i \in DOMAIN r /\ s[i] = r[i],
         NEW u, u # t
  PROVE  Listing(r, u) = Listing(s, u)
BY DEF Listing

\* A pick from a set that is not empty is a member.
LEMMA LookedUp ==
  ASSUME NEW L, NEW c, SubnetId(L, c) # None
  PROVE  SubnetId(L, c) \in SubnetIds(L, c)
BY PickType DEF SubnetId

\* What the lookups of an action leave agrees with the target when the caches did.
LEMMA LooksAgree ==
  ASSUME TypeOK, Agrees(cache, sects, rows), NEW a \in Action, NEW looked \in Looks(a)
  PROVE  Agrees(looked, sects, rows)
<1>1. CacheType(cache, target.nextId)
  BY DEF TypeOK
<1>2. \A x : Shape(Listed(T(a), x)) = Shape(Listing(rows, T(a)))
  <2> TAKE x
  <2>1. CASE << T(a), x >> \in DOMAIN cache.listings
    BY <2>1 DEF Listed, Agrees
  <2>2. CASE << T(a), x >> \notin DOMAIN cache.listings
    BY <2>2 DEF Listed
  <2> QED BY <2>1, <2>2
<1>3. ASSUME NEW c, CacheType(c, target.nextId), Agrees(c, sects, rows), NEW x
      PROVE  Agrees(Looked(c, a, x), sects, rows)
  <2> DEFINE k0 == << T(a), x >>
             L == Listed(T(a), x)
  <2>1. k0[1] = T(a) /\ Looked(c, a, x) = [c EXCEPT !.listings = Put(c.listings, k0, L)]
    BY DEF Looked
  <2>2. Shape(L) = Shape(Listing(rows, k0[1]))
    BY <1>2, <2>1
  <2> HIDE DEF k0, L
  <2>3. /\ Looked(c, a, x).sections = c.sections /\ Looked(c, a, x).ids = c.ids
        /\ Looked(c, a, x).addresses = c.addresses
        /\ Looked(c, a, x).listings = Put(c.listings, k0, L)
    BY <1>3, <2>1 DEF CacheType
  <2>4. \A k \in DOMAIN Put(c.listings, k0, L) :
          Shape(Put(c.listings, k0, L)[k]) = Shape(Listing(rows, k[1]))
    BY <1>3, <2>2 DEF Put, Agrees
  <2> QED BY <1>3, <2>3, <2>4 DEF Agrees
<1>4. ASSUME NEW c, CacheType(c, target.nextId), Agrees(c, sects, rows)
      PROVE  Agrees(ParentLooked(c, a), sects, rows)
  BY <1>3, <1>4 DEF ParentLooked
<1>5. KnownId(a) # None => KnownId(a) \in SubnetIds(Listing(rows, T(a)), a.cidr)
  <2>1. CASE Key(a) \in DOMAIN cache.ids
    BY <2>1 DEF KnownId, Agrees, Key
  <2>2. CASE Key(a) \notin DOMAIN cache.ids
    BY <1>2, <2>2, AlikeSubnets, LookedUp DEF KnownId
  <2> QED BY <2>1, <2>2
<1>6. ASSUME a.kind \notin SubnetlessKind
      PROVE  CacheType(Resolved(a), target.nextId) /\ Agrees(Resolved(a), sects, rows)
  <2> DEFINE c == Looked(cache, a, "subnets")
  <2>1. CacheType(c, target.nextId) /\ Agrees(c, sects, rows)
    BY <1>1, <1>3, Seen DEF Index
  <2>2. ASSUME KnownId(a) # None
        PROVE  Agrees([c EXCEPT !.ids = Put(@, Key(a), KnownId(a))], sects, rows)
    <3> DEFINE d == [c EXCEPT !.ids = Put(c.ids, Key(a), KnownId(a))]
    <3>1. /\ d.sections = c.sections /\ d.listings = c.listings /\ d.addresses = c.addresses
          /\ d.ids = Put(c.ids, Key(a), KnownId(a))
      BY <2>1 DEF CacheType
    <3>2. Key(a)[1] = T(a) /\ Key(a)[2] = a.cidr
      BY DEF Key
    <3> HIDE DEF d, c
    <3>3. \A k \in DOMAIN d.ids : d.ids[k] \in SubnetIds(Listing(rows, k[1]), k[2])
      BY <1>5, <2>1, <2>2, <3>1, <3>2 DEF Put, Agrees
    <3>4. Agrees(d, sects, rows)
      BY <2>1, <3>1, <3>3 DEF Agrees
    <3> QED BY <3>4 DEF d
  <2> HIDE DEF c
  <2>3. Agrees(Resolved(a), sects, rows)
    BY <2>1, <2>2 DEF Resolved, c
  <2> QED BY <1>6, <2>3, Seen
<1>7. ASSUME a.kind \notin SubnetlessKind, KnownId(a) # None
      PROVE  Agrees(WithAddresses(a), sects, rows)
  <2> DEFINE c == Resolved(a)
             i0 == KnownId(a)
             table == AddressesListed(i0)
             d == [c EXCEPT !.addresses = Put(c.addresses, i0, table)]
  <2>1. CacheType(c, target.nextId) /\ Agrees(c, sects, rows)
    BY <1>6, <1>7
  <2>2. /\ d.sections = c.sections /\ d.listings = c.listings /\ d.ids = c.ids
        /\ d.addresses = Put(c.addresses, i0, table)
    BY <2>1 DEF CacheType
  <2>3. i0 \in DOMAIN rows => InUse(table) = InUse(rows[i0].addresses)
    BY DEF AddressesListed, Agrees
  <2>4. d = WithAddresses(a)
    BY DEF WithAddresses
  <2> HIDE DEF c, d, table, i0
  <2>5. \A i \in DOMAIN d.addresses :
          i \in DOMAIN rows => InUse(d.addresses[i]) = InUse(rows[i].addresses)
    BY <2>1, <2>2, <2>3 DEF Put, Agrees
  <2>6. Agrees(d, sects, rows)
    BY <2>1, <2>2, <2>5 DEF Agrees
  <2> QED BY <2>4, <2>6
<1>8. looked \in {cache, Looked(cache, a, "subnets"), Looked(cache, a, "folders")}
        => Agrees(looked, sects, rows)
  BY <1>1, <1>3
<1>9. a.kind \notin SubnetlessKind /\ looked \in {Resolved(a), ParentLooked(Resolved(a), a)}
        => Agrees(looked, sects, rows)
  BY <1>4, <1>6
<1> QED BY <1>7, <1>8, <1>9 DEF Looks

\* What the lookups leave has the type of a cache.
LEMMA LooksType ==
  ASSUME TypeOK, NEW a \in Action, NEW looked \in Looks(a)
  PROVE  CacheType(looked, target.nextId)
<1>1. CacheType(cache, target.nextId) /\ "subnets" \in Index /\ "folders" \in Index
  BY DEF TypeOK, Index
<1> QED BY <1>1, Seen DEF Looks

\* Caches whose indexes of a section are dropped, and one of them perhaps read
\* afresh, agree with a table that changed in that section, if the ids and the
\* addresses they hold do.
LEMMA AgreesWithoutSection ==
  ASSUME NEW c, NEW n, CacheType(c, n), NEW S, NEW r, NEW s, NEW t,
         c.sections = S,
         \A k \in DOMAIN c.listings : Shape(c.listings[k]) = Shape(Listing(r, k[1])),
         \A i \in DOMAIN r : r[i].section # t => i \in DOMAIN s /\ s[i] = r[i],
         \A i \in DOMAIN s : s[i].section # t => i \in DOMAIN r /\ s[i] = r[i],
         \A k \in DOMAIN c.ids : c.ids[k] \in SubnetIds(Listing(s, k[1]), k[2]),
         \A i \in DOMAIN c.addresses :
           i \in DOMAIN s => InUse(c.addresses[i]) = InUse(s[i].addresses)
  PROVE  /\ Agrees(Dropped(c, t), S, s)
         /\ \A x : Agrees(Reread(c, t, x, s), S, s)
<1> DEFINE kept == [k \in {j \in DOMAIN c.listings : j[1] # t} |-> c.listings[k]]
           d == [c EXCEPT !.listings = kept]
<1>1. d = Dropped(c, t)
  BY DEF Dropped
<1>2. /\ d.sections = c.sections /\ d.ids = c.ids /\ d.addresses = c.addresses
      /\ d.listings = kept
  BY DEF CacheType
<1>0. ASSUME NEW u, u # t PROVE Listing(r, u) = Listing(s, u)
  BY <1>0 DEF Listing
<1>3. \A k \in DOMAIN kept : Shape(kept[k]) = Shape(Listing(s, k[1]))
  <2> TAKE k \in DOMAIN kept
  <2>1. k \in DOMAIN c.listings /\ k[1] # t /\ kept[k] = c.listings[k]
    OBVIOUS
  <2>2. Listing(r, k[1]) = Listing(s, k[1])
    BY <1>0, <2>1
  <2> QED BY <2>1, <2>2
<1> HIDE DEF kept
<1>4. Agrees(d, S, s)
  BY <1>2, <1>3 DEF Agrees
<1>5. ASSUME NEW x
      PROVE  Agrees([d EXCEPT !.listings = Put(kept, << t, x >>, Listing(s, t))], S, s)
  <2> DEFINE k0 == << t, x >>
             e == [d EXCEPT !.listings = Put(kept, k0, Listing(s, t))]
  <2>1. /\ e.sections = c.sections /\ e.ids = c.ids /\ e.addresses = c.addresses
        /\ e.listings = Put(kept, k0, Listing(s, t))
    BY DEF CacheType
  <2>2. k0[1] = t
    OBVIOUS
  <2> HIDE DEF k0
  <2>3. \A k \in DOMAIN Put(kept, k0, Listing(s, t)) :
          Shape(Put(kept, k0, Listing(s, t))[k]) = Shape(Listing(s, k[1]))
    BY <1>3, <2>2 DEF Put
  <2> HIDE DEF e
  <2>4. Agrees(e, S, s)
    BY <2>1, <2>3 DEF Agrees
  <2> QED BY <2>4 DEF e, k0
<1> QED BY <1>1, <1>2, <1>4, <1>5 DEF Reread

\* A new row: the ids that are remembered still stand for the same subnets, and
\* nothing is remembered of the new one.
LEMMA EntryAgrees ==
  ASSUME TypeOK, NEW c, CacheType(c, target.nextId), Agrees(c, sects, rows), NEW row
  PROVE  \A x : Agrees(Reread(c, row.section, x, Put(rows, target.nextId, row)), sects,
                       Put(rows, target.nextId, row))
<1> DEFINE n == target.nextId
           s == Put(rows, n, row)
<1>1. n \notin DOMAIN rows /\ n \notin Ids(n)
  BY TargetFacts DEF Ids
<1>2. /\ DOMAIN s = DOMAIN rows \cup {n} /\ s[n] = row
      /\ \A i \in DOMAIN rows : s[i] = rows[i]
  BY <1>1 DEF Put
<1> HIDE DEF s
<1>3. \A k \in DOMAIN c.ids : c.ids[k] \in SubnetIds(Listing(s, k[1]), k[2])
  BY <1>2 DEF Agrees, SubnetIds, SubnetRows, Listing
<1>4. \A i \in DOMAIN c.addresses :
        i \in DOMAIN s => InUse(c.addresses[i]) = InUse(s[i].addresses)
  BY <1>1, <1>2 DEF Agrees, CacheType
<1>5. /\ \A i \in DOMAIN rows : rows[i].section # row.section => i \in DOMAIN s /\ s[i] = rows[i]
      /\ \A i \in DOMAIN s : s[i].section # row.section => i \in DOMAIN rows /\ s[i] = rows[i]
  BY <1>2
<1>6. /\ c.sections = sects
      /\ \A k \in DOMAIN c.listings : Shape(c.listings[k]) = Shape(Listing(rows, k[1]))
  BY DEF Agrees
<1>7. \A x : Agrees(Reread(c, row.section, x, s), sects, s)
  BY <1>3, <1>4, <1>5, <1>6, AgreesWithoutSection
<1> QED BY <1>7 DEF s

\* A changed row: whatever the change made stale is dropped.
LEMMA ChangeAgrees ==
  ASSUME TypeOK, NEW a \in Action, a.kind = "update_address" => a.fields # None,
         NEW id \in DOMAIN rows, rows[id].section = T(a),
         NEW looked, CacheType(looked, target.nextId), Agrees(looked, sects, rows),
         NEW row, NEW fresh, Changes(a, id, row, looked, fresh)
  PROVE  Agrees(fresh, sects, [rows EXCEPT ![id] = row])
<1> DEFINE s == [rows EXCEPT ![id] = row]
<1>1. rows[id] \in Row
  BY TargetFacts DEF TableType
<1>2. /\ DOMAIN s = DOMAIN rows /\ s[id] = row
      /\ \A i \in DOMAIN rows \ {id} : s[i] = rows[i]
  OBVIOUS
<1>3. /\ row.section = rows[id].section /\ row.isFolder = rows[id].isFolder
      /\ row.cidr = rows[id].cidr /\ row.name = rows[id].name
  BY <1>1 DEF Changes, WithAddress, Row
<1> HIDE DEF s
<1>4. \A i \in DOMAIN rows : /\ s[i].section = rows[i].section
                             /\ s[i].isFolder = rows[i].isFolder
                             /\ s[i].cidr = rows[i].cidr /\ s[i].name = rows[i].name
  BY <1>2, <1>3
<1>5. \A t, c : SubnetIds(Listing(s, t), c) = SubnetIds(Listing(rows, t), c)
  BY <1>2, <1>4 DEF SubnetIds, SubnetRows, Listing
<1>6. \A k \in DOMAIN looked.ids : looked.ids[k] \in SubnetIds(Listing(s, k[1]), k[2])
  BY <1>5 DEF Agrees
<1>7. CASE a.kind \in {"detach_subnet", "reparent_subnet"}
  <2>1. row.addresses = rows[id].addresses /\ fresh = Dropped(looked, T(a))
    BY <1>1, <1>7 DEF Changes, Row
  <2>2. \A i \in DOMAIN looked.addresses :
          i \in DOMAIN s => InUse(looked.addresses[i]) = InUse(s[i].addresses)
    BY <1>2, <2>1 DEF Agrees
  <2>3. Agrees(Dropped(looked, T(a)), sects, s)
    BY <1>2, <1>3, <1>6, <2>2, AgreesWithoutSection, SMTT(30) DEF Agrees
  <2> QED BY <2>1, <2>3 DEF s
<1>8. CASE a.kind \in {"update_subnet", "update_address", "create_address", "delete_address"}
  <2>1. row.masterSubnetId = rows[id].masterSubnetId
    BY <1>1, <1>8 DEF Changes, WithAddress, Row
  <2>2. \A t : Shape(Listing(s, t)) = Shape(Listing(rows, t))
    BY <1>2, <1>4, <2>1, ShapesAlike DEF Alike, Listing
  <2>3. CASE a.kind = "update_subnet"
    <3>1. row.addresses = rows[id].addresses /\ fresh = looked
      BY <1>1, <2>3 DEF Changes, Row
    <3>2. Agrees(looked, sects, s)
      BY <1>2, <1>6, <2>2, <3>1 DEF Agrees
    <3> QED BY <3>1, <3>2 DEF s
  <2>4. CASE a.kind = "update_address"
    <3>1. /\ fresh = looked /\ row = WithAddress(id, a.ip, a.fields)
          /\ rows[id].addresses[a.ip] # None /\ a.fields # None
      BY <2>4 DEF Changes
    <3>2. InUse(row.addresses) = InUse(rows[id].addresses)
      <4>1. rows[id].addresses \in AddressTable
        BY <1>1 DEF Row
      <4>2. row.addresses = [rows[id].addresses EXCEPT ![a.ip] = a.fields]
        BY <1>1, <3>1 DEF WithAddress, Row
      <4> QED BY <3>1, <4>1, <4>2 DEF InUse, AddressTable
    <3>3. Agrees(looked, sects, s)
      BY <1>2, <1>6, <2>2, <3>2 DEF Agrees
    <3> QED BY <3>1, <3>3 DEF s
  <2>5. CASE a.kind \in {"create_address", "delete_address"}
    <3>1. fresh = [looked EXCEPT !.addresses = Pop(looked.addresses, id)]
      BY <2>5 DEF Changes, Unread
    <3>2. /\ fresh.sections = looked.sections /\ fresh.listings = looked.listings
          /\ fresh.ids = looked.ids /\ fresh.addresses = Pop(looked.addresses, id)
      BY <3>1 DEF CacheType
    <3>3. \A i \in DOMAIN fresh.addresses :
            i \in DOMAIN s => InUse(fresh.addresses[i]) = InUse(s[i].addresses)
      BY <1>2, <3>2 DEF Pop, Agrees
    <3>4. Agrees(fresh, sects, s)
      BY <1>6, <2>2, <3>2, <3>3 DEF Agrees
    <3> QED BY <3>4 DEF s
  <2> QED BY <1>8, <2>3, <2>4, <2>5
<1> QED BY <1>7, <1>8 DEF Changes

\* A row that goes alone: what is remembered of it goes too.
LEMMA DeletionAgrees ==
  ASSUME TypeOK, NEW c, CacheType(c, target.nextId), NEW id \in DOMAIN rows,
         c.sections = sects,
         \A k \in DOMAIN c.listings : Shape(c.listings[k]) = Shape(Listing(rows, k[1])),
         \A k \in DOMAIN c.ids :
           /\ c.ids[k] \in SubnetIds(Listing(rows, k[1]), k[2])
           /\ c.ids[k] # id,
         \A i \in DOMAIN c.addresses :
           i \in DOMAIN rows => InUse(c.addresses[i]) = InUse(rows[i].addresses),
         \A i, j \in DOMAIN rows \ DOMAIN RowsWithout(id) : i = j
  PROVE  /\ Agrees(Dropped(c, rows[id].section), sects, RowsWithout(id))
         /\ \A x : Agrees(Reread(c, rows[id].section, x, RowsWithout(id)), sects, RowsWithout(id))
<1> DEFINE s == RowsWithout(id)
<1>1. /\ DOMAIN s \subseteq DOMAIN rows
      /\ \A i \in DOMAIN s : s[i] = rows[i]
      /\ id \notin DOMAIN s
  <2>1. id \in Below(id)
    BY DEF Below
  <2> QED BY <2>1 DEF RowsWithout
<1>2. DOMAIN s = DOMAIN rows \ {id}
  BY <1>1
<1> HIDE DEF s
<1>3. \A k \in DOMAIN c.ids : c.ids[k] \in SubnetIds(Listing(s, k[1]), k[2])
  <2>1. ASSUME NEW t, NEW cidr, NEW j \in SubnetIds(Listing(rows, t), cidr), j # id
        PROVE  j \in SubnetIds(Listing(s, t), cidr)
    BY <1>1, <1>2, <2>1 DEF SubnetIds, SubnetRows, Listing
  <2> QED BY <2>1
<1>4. \A i \in DOMAIN c.addresses :
        i \in DOMAIN s => InUse(c.addresses[i]) = InUse(s[i].addresses)
  BY <1>1
<1>5. \A i \in DOMAIN rows : rows[i].section # rows[id].section => i \in DOMAIN s /\ s[i] = rows[i]
  BY <1>1, <1>2
<1>6. \A i \in DOMAIN s : i \in DOMAIN rows /\ s[i] = rows[i]
  BY <1>1
<1>7. /\ Agrees(Dropped(c, rows[id].section), sects, s)
      /\ \A x : Agrees(Reread(c, rows[id].section, x, s), sects, s)
  BY <1>3, <1>4, <1>5, <1>6, AgreesWithoutSection
<1> QED BY <1>7 DEF s

\* After an effect that takes one row at most the caches agree with the target.
LEMMA EffectAgrees ==
  ASSUME TypeOK, IdsTrueNow, Agrees(cache, sects, rows), NEW a \in Action,
         a.kind = "update_address" => a.fields # None,
         NEW after, NEW looked, NEW dropped, NEW fresh,
         Effect(a, after, looked, dropped, fresh),
         \A i, j \in DOMAIN rows \ DOMAIN after.rows : i = j
  PROVE  Agrees(fresh, after.sects, after.rows)
<1>1. CASE /\ after = [target EXCEPT !.sects = sects \cup {T(a)}]
           /\ fresh = [cache EXCEPT !.sections = sects \cup {T(a)}]
  <2>1. after.rows = rows /\ after.sects = sects \cup {T(a)}
    BY <1>1, TargetFacts
  <2>2. /\ fresh.sections = sects \cup {T(a)} /\ fresh.listings = cache.listings
        /\ fresh.ids = cache.ids /\ fresh.addresses = cache.addresses
    BY <1>1 DEF TypeOK, CacheType
  <2> QED BY <2>1, <2>2 DEF Agrees
<1>2. ASSUME looked \in Looks(a)
      PROVE  CacheType(looked, target.nextId) /\ Agrees(looked, sects, rows)
  BY <1>2, LooksAgree, LooksType
<1>3. ASSUME NEW x, NEW row, Creates(a, row), after = Created(row), looked \in Looks(a),
             fresh = Reread(looked, T(a), x, after.rows)
      PROVE  Agrees(fresh, after.sects, after.rows)
  <2>1. row.section = T(a)
    BY <1>3 DEF Creates, SubnetRow, FolderRow
  <2>2. after.rows = Put(rows, target.nextId, row) /\ after.sects = sects
    BY <1>3, TargetFacts
  <2> QED BY <1>2, <1>3, <2>1, <2>2, EntryAgrees
<1>4. CASE /\ a.kind \notin SubnetlessKind
           /\ KnownId(a) # None /\ KnownId(a) \in DOMAIN rows
           /\ \E row : /\ Changes(a, KnownId(a), row, looked, fresh)
                       /\ after = WithRow(KnownId(a), row)
           /\ looked \in Looks(a)
  <2> DEFINE id == KnownId(a)
  <2>1. PICK row : Changes(a, id, row, looked, fresh) /\ after = WithRow(id, row)
    BY <1>4
  <2>2. after.rows = [rows EXCEPT ![id] = row] /\ after.sects = sects
    BY <2>1, TargetFacts, SMTT(30)
  <2>3. id \in DOMAIN rows /\ rows[id].section = T(a)
    BY <1>4, SeenIsTrueNow
  <2>4. CacheType(looked, target.nextId) /\ Agrees(looked, sects, rows)
    BY <1>2, <1>4
  <2> HIDE DEF id
  <2> QED BY <2>1, <2>2, <2>3, <2>4, ChangeAgrees
<1>5. \A x : /\ TrueListing(Listed(T(a), x), T(a), rows)
             /\ Shape(Listed(T(a), x)) = Shape(Listing(rows, T(a)))
  <2>1. \A x : TrueListing(Listed(T(a), x), T(a), rows)
    BY SeenIsTrueNow
  <2>2. \A x : Shape(Listed(T(a), x)) = Shape(Listing(rows, T(a)))
    BY DEF Listed, Agrees
  <2> QED BY <2>1, <2>2
<1>6. ASSUME a.kind = "delete_subnet", NEW id \in DOMAIN rows,
             id = SubnetId(Listed(T(a), "subnets"), a.cidr), id # None,
             after = Deleted(id), looked \in Looks(a),
             fresh = Reread(Popped(looked, a, id), T(a), "subnets", after.rows)
      PROVE  Agrees(fresh, after.sects, after.rows)
  <2> DEFINE c == [looked EXCEPT !.addresses = Pop(looked.addresses, id),
                                 !.ids = Pop(looked.ids, Key(a))]
  <2>1. id \in SubnetIds(Listing(rows, T(a)), a.cidr)
    BY <1>5, <1>6, AlikeSubnets, LookedUp
  <2>2. rows[id].section = T(a) /\ rows[id].cidr = a.cidr
    BY <2>1 DEF SubnetIds, SubnetRows, Listing
  <2>3. CacheType(looked, target.nextId) /\ Agrees(looked, sects, rows)
    BY <1>2, <1>6
  <2>4. /\ c.sections = looked.sections /\ c.listings = looked.listings
        /\ c.addresses = Pop(looked.addresses, id) /\ c.ids = Pop(looked.ids, Key(a))
        /\ c = Popped(looked, a, id)
    BY <2>3 DEF CacheType, Popped
  <2> HIDE DEF c
  <2>5. CacheType(c, target.nextId)
    <3>1. CacheType([looked EXCEPT !.addresses = Pop(@, id)], target.nextId)
      BY <2>3, CacheOperations
    <3>2. CacheType([[looked EXCEPT !.addresses = Pop(@, id)] EXCEPT !.ids = Pop(@, Key(a))],
                    target.nextId)
      BY <3>1, CacheOperations
    <3>3. c = [[looked EXCEPT !.addresses = Pop(@, id)] EXCEPT !.ids = Pop(@, Key(a))]
      BY <2>3 DEF c, CacheType
    <3> QED BY <3>2, <3>3
  <2>6. \A k \in DOMAIN c.ids : /\ c.ids[k] \in SubnetIds(Listing(rows, k[1]), k[2])
                                /\ c.ids[k] # id
    <3> TAKE k \in DOMAIN c.ids
    <3>1. k \in DOMAIN looked.ids /\ k # Key(a) /\ c.ids[k] = looked.ids[k]
      BY <2>4 DEF Pop
    <3>2. c.ids[k] \in SubnetIds(Listing(rows, k[1]), k[2])
      BY <2>3, <3>1 DEF Agrees
    <3>3. ASSUME c.ids[k] = id PROVE FALSE
      <4>1. rows[id].section = k[1] /\ rows[id].cidr = k[2]
        BY <3>2, <3>3 DEF SubnetIds, SubnetRows, Listing
      <4>2. k \in TargetSection \X Cidr
        BY <2>3, <3>1 DEF CacheType
      <4>3. k = << k[1], k[2] >>
        BY <4>2
      <4> QED BY <2>2, <3>1, <4>1, <4>3 DEF Key
    <3> QED BY <3>2, <3>3
  <2>7. \A i \in DOMAIN c.addresses :
          i \in DOMAIN rows => InUse(c.addresses[i]) = InUse(rows[i].addresses)
    BY <2>3, <2>4 DEF Pop, Agrees
  <2>8. /\ c.sections = sects
        /\ \A k \in DOMAIN c.listings : Shape(c.listings[k]) = Shape(Listing(rows, k[1]))
    BY <2>3, <2>4 DEF Agrees
  <2>9. after.rows = RowsWithout(id) /\ after.sects = sects
    BY <1>6, TargetFacts
  <2>10. Agrees(Reread(c, T(a), "subnets", RowsWithout(id)), sects, RowsWithout(id))
    BY <2>2, <2>5, <2>6, <2>7, <2>8, <2>9, DeletionAgrees
  <2> QED BY <1>6, <2>4, <2>9, <2>10
<1>7. ASSUME a.kind = "delete_folder", NEW id \in DOMAIN rows, id = FoundFolder(a), id # None,
             after = Deleted(id), looked \in Looks(a), fresh = Dropped(looked, T(a))
      PROVE  Agrees(fresh, after.sects, after.rows)
  <2>1. id \in FolderRows(Listed(T(a), "folders"))
    BY <1>7, PickType DEF FoundFolder, FolderId
  <2>2. id \in FolderRows(Listing(rows, T(a)))
    BY <1>5, <2>1, AlikeSubnets
  <2>3. rows[id].section = T(a) /\ rows[id].isFolder
    BY <2>2 DEF FolderRows, Listing
  <2>4. CacheType(looked, target.nextId) /\ Agrees(looked, sects, rows)
    BY <1>2, <1>7
  <2>5. \A k \in DOMAIN looked.ids : /\ looked.ids[k] \in SubnetIds(Listing(rows, k[1]), k[2])
                                     /\ looked.ids[k] # id
    BY <2>3, <2>4 DEF Agrees, SubnetIds, SubnetRows, Listing
  <2>6. after.rows = RowsWithout(id) /\ after.sects = sects
    BY <1>7, TargetFacts
  <2>7. /\ looked.sections = sects
        /\ \A k \in DOMAIN looked.listings :
             Shape(looked.listings[k]) = Shape(Listing(rows, k[1]))
        /\ \A i \in DOMAIN looked.addresses :
             i \in DOMAIN rows => InUse(looked.addresses[i]) = InUse(rows[i].addresses)
    BY <2>4 DEF Agrees
  <2>8. Agrees(Dropped(looked, T(a)), sects, RowsWithout(id))
    BY <2>3, <2>4, <2>5, <2>6, <2>7, DeletionAgrees
  <2> QED BY <1>7, <2>6, <2>8
<1> QED BY <1>1, <1>3, <1>4, <1>6, <1>7 DEF Effect

\* A planned update of an address gives it a value.
UpdatesGiven == \A a \in pending : a.kind = "update_address" => a.fields # None

LEMMA PlannedUpdatesGiven ==
  ASSUME NEW s, SnapshotOK(s), NEW r, RowsOK(r), NEW S, NEW deleting \in BOOLEAN,
         NEW a \in Plan(s, S, r, deleting), a.kind = "update_address"
  PROVE  a.fields # None
<1> DEFINE docs == Ordered(s.documents)
<1>1. docs \in SUBSET Document
  BY DEF SnapshotOK, Ordered
<1> HIDE DEF docs
<1>2. /\ Writes(SubnetCreates(docs, r), "create_subnet", docs)
      /\ Writes(SubnetUpdates(docs, r), "update_subnet", docs)
      /\ Writes(Detaches(docs, r), "detach_subnet", docs)
      /\ Writes(Reparents(docs, r), "reparent_subnet", docs)
      /\ Writes(AddressCreates(docs, r), "create_address", docs)
  BY <1>1, SubnetWrites, AddressWrites
<1>3. /\ SectionCreates(s, S) \subseteq {b \in Action : b.kind = "create_section"}
      /\ FolderCreates(s, r) \subseteq {b \in Action : b.kind = "create_folder"}
      /\ Deletes(s, r) \subseteq {b \in Action : b.kind \in DeleteKind}
  BY OtherActions
<1>4. a \in AddressUpdates(docs, r)
  BY <1>2, <1>3 DEF Writes, DeleteKind, Plan, docs
<1>5. PICK d \in docs, ip \in Ip : /\ d.addresses[ip] # None
                                   /\ a = OnAddress("update_address", d, docs, 3, ip)
  BY <1>4 DEF AddressUpdates
<1> DEFINE o == OnSubnet("update_address", d, docs, 3, 2, ip)
<1>6. o \in Action
  BY <1>1, OnSubnetType DEF ActionKind, SubnetlessKind
<1> HIDE DEF o
<1>7. [o EXCEPT !.fields = d.addresses[ip]].fields = d.addresses[ip]
  BY <1>6 DEF Action, ActionRecord
<1> QED BY <1>5, <1>7 DEF OnAddress, o

\* The snapshot and the table that a plan is made from.
LEMMA PlanInputs ==
  ASSUME TypeOK
  PROVE  SnapshotOK(snap) /\ RowsOK(rows)
<1>1. SnapshotOK(snap)
  BY ImportAssumption DEF TypeOK, ImportAssumption, SnapshotOK
<1>2. RowsOK(rows)
  BY DEF RowsOK, TypeOK, TargetType, TableType, Ids, None, rows
<1> QED BY <1>1, <1>2

\* What a step makes of the plan: StartRun makes one, all others take from it.
LEMMA PlanSteps ==
  ASSUME TypeOK, [Next]_vars
  PROVE  \/ /\ StartRun /\ RefusedAs = "none"
            /\ pending' = Plan(snap, sects, rows, mode # "additive")
         \/ pending' \subseteq pending
<1>1. CASE StartRun
  BY <1>1 DEF StartRun
<1>2. CASE Execute
  BY <1>2, HandledIsTaken DEF Execute, Taken
<1>3. CASE FinishRun \/ Crash
  BY <1>3 DEF FinishRun, Crash, ProcessEnds
<1>4. CASE Operator
  BY <1>4, OperatorCounts
<1>5. CASE Deliver \/ ConfirmEmpty
  BY <1>5 DEF Deliver, ConfirmEmpty
<1>6. CASE UNCHANGED vars
  BY <1>6 DEF vars
<1> QED BY <1>1, <1>2, <1>3, <1>4, <1>5, <1>6 DEF Next

LEMMA UpdatesGivenInvariant == Spec => []UpdatesGiven
<1>1. Init => UpdatesGiven
  BY DEF Init, UpdatesGiven
<1>2. TypeOK /\ UpdatesGiven /\ [Next]_vars => UpdatesGiven'
  <2> SUFFICES ASSUME TypeOK, UpdatesGiven, [Next]_vars
               PROVE  UpdatesGiven'
    OBVIOUS
  <2>1. CASE pending' = Plan(snap, sects, rows, mode # "additive")
    <3>1. (mode # "additive") \in BOOLEAN
      OBVIOUS
    <3> QED BY <2>1, <3>1, PlanInputs, PlannedUpdatesGiven DEF UpdatesGiven
  <2>2. CASE pending' \subseteq pending
    BY <2>2 DEF UpdatesGiven
  <2> QED BY <2>1, <2>2, PlanSteps
<1> QED BY <1>1, <1>2, TypeCorrect, PTL DEF Spec

\* What build_plan leaves in the caches agrees with the target.
LEMMA StartAgrees ==
  Agrees([sections |-> sects,
          listings |-> [k \in IndexesRead |-> Listing(rows, k[1])],
          addresses |-> [i \in AddressesRead |-> rows[i].addresses],
          ids |-> EmptyMap], sects, rows)
<1>1. DOMAIN EmptyMap = {}
  BY DEF EmptyMap
<1> QED BY <1>1 DEF Agrees

\* After a step that leaves the run undisturbed nothing was lost in it.
LEMMA StaysUndisturbed ==
  ASSUME TypeOK, NEW a \in pending, Handle(a), Undisturbed'
  PROVE  Undisturbed /\ faults' = faults /\ ~ (faults' = faults + 1)
<1>1. faults \in Nat
  BY ImportAssumption DEF TypeOK, ImportAssumption
<1>2. PICK after, looked, dropped, fresh : Ended(a, after, looked, dropped, fresh)
  BY HandlerEnds
<1> QED BY <1>1, <1>2 DEF Undisturbed, Ended, Taken

\* A handler keeps the caches of an undisturbed run in agreement with the target.
LEMMA HandlersAgree ==
  ASSUME TypeOK, IdsTrueNow, UpdatesGiven, Agrees(cache, sects, rows), RemovesOne, Execute,
         Undisturbed'
  PROVE  Agrees(cache', sects', rows')
<1>1. PICK a \in pending : Handle(a)
  BY DEF Execute
<1>2. PICK after, looked, dropped, fresh : Ended(a, after, looked, dropped, fresh)
  BY <1>1, HandlerEnds
<1>3. a \in Action /\ (a.kind = "update_address" => a.fields # None)
  BY DEF TypeOK, UpdatesGiven
<1>5. Undisturbed /\ ~ (faults' = faults + 1)
  BY <1>1, StaysUndisturbed
<1>6. CASE target' = target /\ looked \in Looks(a) /\ cache' \in {cache, looked}
  BY <1>3, <1>6, LooksAgree DEF rows, sects
<1>7. CASE Effect(a, after, looked, dropped, fresh) /\ target' = after /\ cache' = fresh
  <2>1. rows' = after.rows /\ sects' = after.sects
    BY <1>7 DEF rows, sects
  <2>2. \A i, j \in DOMAIN rows \ DOMAIN after.rows : i = j
    BY <1>5, <2>1 DEF RemovesOne
  <2> QED BY <1>3, <1>7, <2>1, <2>2, EffectAgrees
<1> QED BY <1>2, <1>5, <1>6, <1>7 DEF Ended

LEMMA AgreementKept ==
  ASSUME TypeOK, Unmeddled, UpdatesGiven, CacheCoherent, [Next]_vars, [RemovesOne]_vars
  PROVE  CacheCoherent'
<1>0. CacheCoherent <=> ((running /\ Undisturbed) => Agrees(cache, sects, rows))
  BY DEF CacheCoherent, Agrees
<1>01. CacheCoherent' <=> ((running' /\ Undisturbed') => Agrees(cache', sects', rows'))
  BY DEF CacheCoherent, Agrees
<1> SUFFICES ASSUME running', Undisturbed'
             PROVE  Agrees(cache', sects', rows')
  BY <1>01
<1>1. CASE StartRun
  <2>1. ~ running /\ target' = target
    BY <1>1 DEF StartRun
  <2>2. cache' = [sections |-> sects,
                  listings |-> [k \in IndexesRead |-> Listing(rows, k[1])],
                  addresses |-> [i \in AddressesRead |-> rows[i].addresses],
                  ids |-> EmptyMap]
    BY <1>1, <2>1 DEF StartRun
  <2>3. Agrees(cache', sects, rows)
    BY <2>2, StartAgrees
  <2> QED BY <2>1, <2>3 DEF rows, sects
<1>2. CASE Execute /\ ~ UNCHANGED vars
  <2>1. PICK a \in pending : Handle(a)
    BY <1>2 DEF Execute
  <2>2. running /\ Undisturbed
    BY <1>2, <2>1, StaysUndisturbed DEF Execute
  <2>3. RemovesOne
    BY <1>2
  <2>4. IdsTrueNow
    BY <2>2 DEF Unmeddled, Undisturbed
  <2> QED BY <1>0, <1>2, <2>2, <2>3, <2>4, HandlersAgree
<1>3. CASE FinishRun \/ Crash
  BY <1>3 DEF FinishRun, Crash, ProcessEnds
<1>4. CASE Operator
  BY <1>4, OperatorCounts DEF Undisturbed
<1>5. CASE Deliver
  BY <1>5 DEF Deliver
<1>6. CASE UNCHANGED vars
  BY <1>0, <1>6 DEF vars, rows, sects, Undisturbed
<1>7. CASE ConfirmEmpty
  <2>1. PICK a \in pending : cache' = Looked(cache, a, "folders")
    BY <1>7 DEF ConfirmEmpty
  <2>2. a \in Action /\ Looked(cache, a, "folders") \in Looks(a)
    BY LooksFacts DEF TypeOK, Index
  <2>3. /\ running /\ Undisturbed /\ rows' = rows /\ sects' = sects
    BY <1>7 DEF ConfirmEmpty, Undisturbed, rows, sects
  <2> QED BY <1>0, <2>1, <2>2, <2>3, LooksAgree
<1> QED BY <1>1, <1>2, <1>3, <1>4, <1>5, <1>6, <1>7 DEF Next

\* While nobody else writes, no answer is lost and every deletion takes one row, what
\* the process would read from its caches is what it would read from the target: the
\* view is invalidated wherever it must be (TargetView.invalidate_subnets,
\* invalidate_addresses, Executor._subnet_ids; ipamsync/target.py).
THEOREM CachesAgree == Spec /\ OneAtATime => []CacheCoherent
<1>1. Init => CacheCoherent
  BY DEF Init, CacheCoherent
<1>2. TypeOK /\ Unmeddled /\ UpdatesGiven /\ CacheCoherent /\ [Next]_vars /\ [RemovesOne]_vars
        => CacheCoherent'
  BY AgreementKept
<1> QED BY <1>1, <1>2, TypeCorrect, UnmeddledInvariant, UpdatesGivenInvariant, PTL
        DEF Spec, OneAtATime

\* Where phpIPAM does not cascade from a subnet that is every run.
THEOREM CachesAgreeWithoutCascades ==
  ASSUME ~ CascadeSubnets
  PROVE  Spec => []CacheCoherent
<1>1. TypeOK /\ Unmeddled => RemovesOne
  BY RowsLostWithoutCascades DEF Unmeddled, Undisturbed, RemovesOne
<1>2. Spec => OneAtATime
  BY <1>1, TypeCorrect, UnmeddledInvariant, PTL DEF OneAtATime
<1> QED BY <1>2, CachesAgree, PTL

(***************************************************************************)
(* No network twice.  A subnet is planned to be created when the target    *)
(* has no subnet of that CIDR in that section, at most once; and nothing   *)
(* but that action enters it.  So neither a lost answer nor a crash makes  *)
(* two of one -- unless an operator enters it as well.                     *)
(***************************************************************************)
Unique(r) ==
  \A i, j \in DOMAIN r :
    (/\ ~ r[i].isFolder /\ ~ r[j].isFolder
     /\ r[i].section = r[j].section /\ r[i].cidr = r[j].cidr) => i = j

\* What is planned to be created is not there and is planned once.
NewNetworks(plan, r) ==
  \A a \in plan : a.kind = "create_subnet" =>
    /\ SubnetIds(Listing(r, T(a)), a.cidr) = {}
    /\ \A b \in plan : (b.kind = "create_subnet" /\ T(b) = T(a) /\ b.cidr = a.cidr) => a = b

NetworksOnce == edits = 0 => Unique(rows) /\ NewNetworks(pending, rows)

\* Ordered documents have different CIDRs.
LEMMA OrderedApart ==
  ASSUME NEW s, SnapshotOK(s), Filed(s),
         NEW d \in Ordered(s.documents), NEW e \in Ordered(s.documents), d.cidr = e.cidr
  PROVE  d = e
<1>1. d.section \in Nat /\ e.section \in Nat
  BY PlanAssumption DEF PlanAssumption, SnapshotOK, Ordered, Document
<1>2. d.section <= e.section /\ e.section <= d.section
  BY DEF Ordered
<1>3. d.section = e.section
  BY <1>1, <1>2
<1> QED BY <1>3 DEF Filed, Ordered

\* What build_plan plans to create is new.
LEMMA PlannedNetworksAreNew ==
  ASSUME NEW s, SnapshotOK(s), Filed(s), NEW r, RowsOK(r), NEW S, NEW deleting \in BOOLEAN
  PROVE  NewNetworks(Plan(s, S, r, deleting), r)
<1> DEFINE docs == Ordered(s.documents)
           OfKind(b, d) ==
             b = [OnSubnet("create_subnet", d, docs, 3, 0, None) EXCEPT
                    !.fields = d.fields, !.master_subnet = d.master_subnet,
                    !.folder = d.parent_folder]
<1>1. docs \in SUBSET Document
  BY DEF SnapshotOK, Ordered
<1>0. \A d, e \in docs : d.cidr = e.cidr => d = e
  BY OrderedApart
<1> HIDE DEF docs
<1>2. /\ Writes(SubnetUpdates(docs, r), "update_subnet", docs)
      /\ Writes(Detaches(docs, r), "detach_subnet", docs)
      /\ Writes(Reparents(docs, r), "reparent_subnet", docs)
      /\ Writes(AddressCreates(docs, r), "create_address", docs)
      /\ Writes(AddressUpdates(docs, r), "update_address", docs)
  BY <1>1, SubnetWrites, AddressWrites
<1>3. /\ SectionCreates(s, S) \subseteq {b \in Action : b.kind = "create_section"}
      /\ FolderCreates(s, r) \subseteq {b \in Action : b.kind = "create_folder"}
      /\ Deletes(s, r) \subseteq {b \in Action : b.kind \in DeleteKind}
  BY OtherActions
<1>4. ASSUME NEW a \in Plan(s, S, r, deleting), a.kind = "create_subnet"
      PROVE  \E d \in Missing(docs, r) : OfKind(a, d)
  <2>1. a \in SubnetCreates(docs, r)
    BY <1>2, <1>3, <1>4 DEF Writes, DeleteKind, Plan, docs
  <2> QED BY <2>1 DEF SubnetCreates
<1>5. ASSUME NEW a, NEW d \in Missing(docs, r), OfKind(a, d)
      PROVE  /\ a.section = d.section /\ a.cidr = d.cidr /\ d \in docs
             /\ SubnetIds(Listing(r, TargetOf[d.section]), d.cidr) = {}
  <2> DEFINE o == OnSubnet("create_subnet", d, docs, 3, 0, None)
  <2>0. d \in docs /\ SubnetIds(Listing(r, TargetOf[d.section]), d.cidr) = {}
    BY DEF Missing
  <2>1. o \in Action /\ o.section = d.section /\ o.cidr = d.cidr
    BY <1>1, <2>0, OnSubnetType DEF ActionKind, SubnetlessKind
  <2> HIDE DEF o
  <2>2. a.section = o.section /\ a.cidr = o.cidr
    BY <1>5, <2>1 DEF Action, ActionRecord, o
  <2> QED BY <2>0, <2>1, <2>2
<1>6. ASSUME NEW a \in Plan(s, S, r, deleting), a.kind = "create_subnet"
      PROVE  /\ SubnetIds(Listing(r, T(a)), a.cidr) = {}
             /\ \A b \in Plan(s, S, r, deleting) :
                  (b.kind = "create_subnet" /\ T(b) = T(a) /\ b.cidr = a.cidr) => a = b
  <2>1. PICK d \in Missing(docs, r) : OfKind(a, d)
    BY <1>4, <1>6
  <2>2. /\ a.section = d.section /\ a.cidr = d.cidr /\ d \in docs
        /\ SubnetIds(Listing(r, TargetOf[d.section]), d.cidr) = {}
    BY <1>5, <2>1
  <2>3. ASSUME NEW b \in Plan(s, S, r, deleting), b.kind = "create_subnet", b.cidr = a.cidr
        PROVE  a = b
    <3>1. PICK e \in Missing(docs, r) : OfKind(b, e)
      BY <1>4, <2>3
    <3>2. b.cidr = e.cidr /\ e \in docs
      BY <1>5, <3>1
    <3>3. d = e
      BY <1>0, <2>2, <2>3, <3>2
    <3> QED BY <2>1, <3>1, <3>3
  <2> QED BY <2>2, <2>3 DEF T
<1> QED BY <1>6 DEF NewNetworks

\* An effect enters no network a second time, and what is still to be created stays
\* new.
LEMMA EffectKeepsUnique ==
  ASSUME TypeOK, IdsTrueNow, Unique(rows), NewNetworks(pending, rows), NEW a \in pending,
         NEW after, NEW looked, NEW dropped, NEW fresh,
         Effect(a, after, looked, dropped, fresh)
  PROVE  Unique(after.rows) /\ NewNetworks(pending \ {a}, after.rows)
<1> DEFINE s == after.rows
           n == target.nextId
<1>0. a \in Action /\ pending \subseteq Action
  BY DEF TypeOK
<1>1. /\ n \notin DOMAIN rows
      /\ \A i \in DOMAIN rows : rows[i] \in Row
  BY TargetFacts DEF TableType
<1>2. ASSUME DOMAIN s \subseteq DOMAIN rows,
             \A i \in DOMAIN s : /\ s[i].section = rows[i].section
                                 /\ s[i].isFolder = rows[i].isFolder
                                 /\ s[i].cidr = rows[i].cidr
      PROVE  Unique(s) /\ NewNetworks(pending \ {a}, s)
  <2> HIDE DEF s
  <2>1. Unique(s)
    BY <1>2 DEF Unique
  <2>2. \A t, c : SubnetIds(Listing(s, t), c) \subseteq SubnetIds(Listing(rows, t), c)
    BY <1>2 DEF SubnetIds, SubnetRows, Listing
  <2>3. NewNetworks(pending \ {a}, s)
    BY <2>2 DEF NewNetworks
  <2> QED BY <2>1, <2>3
<1>3. CASE s = rows
  BY <1>2, <1>3
<1>4. CASE Changed(a, after, looked, fresh)
  <2> DEFINE id == KnownId(a)
  <2>1. PICK row : Changes(a, id, row, looked, fresh) /\ s = [rows EXCEPT ![id] = row]
    BY <1>4 DEF Changed
  <2>2. id \in DOMAIN rows /\ rows[id] \in Row
    BY <1>1, <1>4 DEF Changed
  <2>3. /\ row.section = rows[id].section /\ row.isFolder = rows[id].isFolder
        /\ row.cidr = rows[id].cidr
    BY <2>1, <2>2 DEF Changes, WithAddress, Row
  <2> HIDE DEF id
  <2> QED BY <1>2, <2>1, <2>2, <2>3
<1>5. CASE TakenOut(a, after)
  BY <1>2, <1>5 DEF TakenOut, RowsWithout
<1>6. CASE Entered(a, after)
  <2>1. PICK row : Creates(a, row) /\ s = Put(rows, n, row)
    BY <1>6 DEF Entered
  <2>2. /\ DOMAIN s = DOMAIN rows \cup {n} /\ s[n] = row
        /\ \A i \in DOMAIN rows : s[i] = rows[i]
    BY <1>1, <2>1 DEF Put
  <2> HIDE DEF s
  <2>3. CASE a.kind = "create_folder"
    <3>1. row.isFolder
      BY <2>1, <2>3 DEF Creates, FolderRow
    <3>2. Unique(s)
      BY <2>2, <3>1 DEF Unique
    <3>3. \A t, c : SubnetIds(Listing(s, t), c) \subseteq SubnetIds(Listing(rows, t), c)
      BY <2>2, <3>1 DEF SubnetIds, SubnetRows, Listing
    <3>4. NewNetworks(pending \ {a}, s)
      BY <3>3 DEF NewNetworks
    <3> QED BY <3>2, <3>4 DEF s
  <2>4. CASE a.kind = "create_subnet"
    <3>1. ~ row.isFolder /\ row.section = T(a) /\ row.cidr = a.cidr
      BY <2>1, <2>4 DEF Creates, SubnetRow
    <3>2. \A i \in DOMAIN rows :
            ~ (~ rows[i].isFolder /\ rows[i].section = T(a) /\ rows[i].cidr = a.cidr)
      BY <2>4 DEF NewNetworks, SubnetIds, SubnetRows, Listing
    <3>3. Unique(s)
      <4> SUFFICES ASSUME NEW i \in DOMAIN s, NEW j \in DOMAIN s,
                          ~ s[i].isFolder, ~ s[j].isFolder,
                          s[i].section = s[j].section, s[i].cidr = s[j].cidr
                   PROVE  i = j
        BY DEF Unique
      <4>1. CASE i \in DOMAIN rows /\ j \in DOMAIN rows
        BY <2>2, <4>1 DEF Unique
      <4>2. CASE i = n \/ j = n
        BY <2>2, <3>1, <3>2, <4>2
      <4> QED BY <2>2, <4>1, <4>2
    <3>4. \A t, c : SubnetIds(Listing(s, t), c) \subseteq SubnetIds(Listing(rows, t), c)
                      \cup (IF t = T(a) /\ c = a.cidr THEN {n} ELSE {})
      BY <2>2, <3>1 DEF SubnetIds, SubnetRows, Listing
    <3>5. \A b \in pending \ {a} : b.kind = "create_subnet" => ~ (T(b) = T(a) /\ b.cidr = a.cidr)
      BY <2>4 DEF NewNetworks
    <3>6. NewNetworks(pending \ {a}, s)
      BY <3>4, <3>5 DEF NewNetworks
    <3> QED BY <3>3, <3>6 DEF s
  <2> QED BY <2>1, <2>3, <2>4 DEF Creates
<1> QED BY <1>0, <1>3, <1>4, <1>5, <1>6, EffectOnRows

\* No step of the process enters a network twice.
LEMMA NetworksOnceKept ==
  ASSUME TypeOK, Unmeddled, NetworksOnce, [Next]_vars
  PROVE  NetworksOnce'
<1>0. edits \in Nat
  BY ImportAssumption DEF TypeOK, ImportAssumption
<1> SUFFICES ASSUME edits' = 0
             PROVE  Unique(rows') /\ NewNetworks(pending', rows')
  BY DEF NetworksOnce
<1>1. CASE StartRun
  <2>1. target' = target /\ edits' = edits
    BY <1>1 DEF StartRun
  <2>2. rows' = rows /\ Unique(rows) /\ NewNetworks(pending, rows)
    BY <2>1 DEF NetworksOnce, rows
  <2>3. NewNetworks(pending', rows)
    <3>1. CASE RefusedAs = "none"
      <4>1. pending' = Plan(snap, sects, rows, mode # "additive")
        BY <1>1, <3>1 DEF StartRun
      <4>2. Filed(snap) /\ (mode # "additive") \in BOOLEAN
        BY FiledAssumption DEF FiledAssumption, TypeOK
      <4> QED BY <4>1, <4>2, PlanInputs, PlannedNetworksAreNew
    <3>2. CASE RefusedAs # "none"
      BY <1>1, <2>2, <3>2 DEF StartRun
    <3> QED BY <3>1, <3>2
  <2> QED BY <2>2, <2>3
<1>2. CASE Execute
  <2>1. PICK a \in pending : Handle(a)
    BY <1>2 DEF Execute
  <2>2. PICK after, looked, dropped, fresh : Ended(a, after, looked, dropped, fresh)
    BY <2>1, HandlerEnds
  <2>3. edits = 0 /\ pending' = pending \ {a} /\ Unique(rows) /\ NewNetworks(pending, rows)
        /\ IdsTrueNow
    BY <2>2 DEF Ended, Taken, NetworksOnce, Unmeddled
  <2>4. CASE target' = target
    BY <2>3, <2>4 DEF rows, NewNetworks
  <2>5. CASE Effect(a, after, looked, dropped, fresh) /\ target' = after
    BY <2>3, <2>5, EffectKeepsUnique DEF rows
  <2> QED BY <2>2, <2>4, <2>5 DEF Ended
<1>3. CASE FinishRun \/ Crash
  BY <1>3 DEF FinishRun, Crash, ProcessEnds, NetworksOnce, NewNetworks, rows
<1>4. CASE Operator
  BY <1>4, OperatorCounts
<1>5. CASE Deliver \/ ConfirmEmpty
  BY <1>5 DEF Deliver, ConfirmEmpty, NetworksOnce, rows
<1>6. CASE UNCHANGED vars
  BY <1>6 DEF vars, NetworksOnce, rows
<1> QED BY <1>1, <1>2, <1>3, <1>4, <1>5, <1>6 DEF Next

LEMMA NetworksOnceInvariant ==
  ASSUME \A t \in Targets : Unique(t.rows)
  PROVE  Spec => []NetworksOnce
<1>1. Init => NetworksOnce
  BY DEF Init, NetworksOnce, NewNetworks, rows
<1>2. TypeOK /\ Unmeddled /\ NetworksOnce /\ [Next]_vars => NetworksOnce'
  BY NetworksOnceKept
<1> QED BY <1>1, <1>2, TypeCorrect, UnmeddledInvariant, PTL DEF Spec

(***************************************************************************)
(* A replica needs no write (MirroredIsQuiet).  Mirrored compares the      *)
(* target with the snapshot subnet by subnet; the planner compares indexes *)
(* keyed by CIDR.  They agree when no key stands for two things: no two    *)
(* subnets of a section share a CIDR, and no two documents of a snapshot.  *)
(***************************************************************************)
\* No CIDR is documented in two sections: order_documents keeps every document.
Apart(s) == \A d, e \in s.documents : d.cidr = e.cidr => d = e

LEMMA ApartIsOrdered ==
  ASSUME NEW s, SnapshotOK(s), Apart(s)
  PROVE  Ordered(s.documents) = s.documents
<1>1. \A d \in s.documents : d.section \in Nat
  BY PlanAssumption DEF PlanAssumption, SnapshotOK, Document
<1>2. \A d, e \in s.documents : e.cidr = d.cidr => e.section <= d.section
  BY <1>1 DEF Apart
<1> QED BY <1>2 DEF Ordered

\* Of a documented subnet of a replica: the row that the planner's index finds is
\* the one that matches.
LEMMA MatchedRow ==
  ASSUME Unique(rows), Mirrored, NEW d \in snap.documents
  PROVE  LET L == Listing(rows, TargetOf[d.section])
             i == SubnetId(L, d.cidr)
         IN  i \in SubnetIds(L, d.cidr) /\ Matches(d, L, i)
<1> DEFINE L == Listing(rows, TargetOf[d.section])
<1>1. PICK j \in SubnetIds(L, d.cidr) : Matches(d, L, j)
  BY DEF Mirrored
<1>2. \A k \in SubnetIds(L, d.cidr) : k = j
  BY DEF SubnetIds, SubnetRows, Listing, Unique
<1> HIDE DEF L
<1>3. SubnetId(L, d.cidr) \in SubnetIds(L, d.cidr)
  BY <1>1 DEF SubnetId, Pick
<1>4. SubnetId(L, d.cidr) = j
  BY <1>2, <1>3
<1> QED BY <1>1, <1>3, <1>4 DEF L

\* The planner finds every part of a replica as it should be.
LEMMA ReplicaNeedsNothing ==
  ASSUME TypeOK, Unique(rows), Apart(snap), Mirrored
  PROVE  Plan(snap, sects, rows, mode # "additive") = {}
<1> DEFINE docs == snap.documents
           Id(d) == SubnetId(Listing(rows, TargetOf[d.section]), d.cidr)
<1>1. SnapshotOK(snap) /\ Filed(snap) /\ docs \in SUBSET Document
  BY PlanInputs, FiledAssumption DEF FiledAssumption, TypeOK, SnapshotOK
<1>2. Ordered(snap.documents) = docs
  BY <1>1, ApartIsOrdered
<1>3. \A s \in snap.sections :
        LET L == Listing(rows, TargetOf[s])
        IN  /\ TargetOf[s] \in sects
            /\ snap.folders[s] \subseteq FoldersOf(L)
            /\ mode # "additive" =>
                 /\ FoldersOf(L) \subseteq snap.folders[s]
                 /\ CidrsOf(L) \subseteq {d.cidr : d \in {e \in snap.documents : e.section = s}}
  BY DEF Mirrored
<1>4. {d.section : d \in docs} \subseteq snap.sections
  BY <1>1 DEF Filed
<1>5. ASSUME NEW d \in docs
      PROVE  LET L == Listing(rows, TargetOf[d.section])
             IN  /\ d \notin Missing(docs, rows)
                 /\ Current(d, rows) = L[SubnetId(L, d.cidr)]
                 /\ Matches(d, L, SubnetId(L, d.cidr))
  <2>1. LET L == Listing(rows, TargetOf[d.section])
        IN  /\ SubnetId(L, d.cidr) \in SubnetIds(L, d.cidr)
            /\ Matches(d, L, SubnetId(L, d.cidr))
    BY MatchedRow
  <2> QED BY <2>1 DEF Missing, Current
<1>6. SectionCreates(snap, sects) = {}
  BY <1>2, <1>3, <1>4 DEF SectionCreates, Unresolved, SectionsNeeded
<1>7. FolderCreates(snap, rows) = {}
  BY <1>3 DEF FolderCreates
<1> HIDE DEF docs
<1>8. Missing(docs, rows) = {}
  BY <1>5 DEF Missing
<1>9. SubnetCreates(docs, rows) = {}
  BY <1>8 DEF SubnetCreates
<1>10. ASSUME NEW d \in docs
       PROVE  /\ d.fields = Current(d, rows).fields
              /\ d.parent_folder = CurrentFolder(d, rows)
              /\ d.parent_folder = NoFolder => d.master_subnet = CurrentMaster(d, rows)
              /\ \A ip \in Ip : d.addresses[ip] # Current(d, rows).addresses[ip]
                                  => d.addresses[ip] = None /\ mode = "additive"
  BY <1>5 DEF Matches, CurrentFolder, CurrentMaster
<1>11. SubnetUpdates(docs, rows) = {}
  BY <1>10 DEF SubnetUpdates
<1>12. FolderMoves(docs, rows) = {} /\ SubnetMoves(docs, rows) = {}
  BY <1>10 DEF FolderMoves, SubnetMoves
<1>13. Detaches(docs, rows) = {} /\ Reparents(docs, rows) = {}
  BY <1>12 DEF Detaches, Reparents
<1>14. \A d \in docs : Present(d, docs, rows) = Current(d, rows).addresses
  BY <1>8 DEF Present
<1>15. AddressCreates(docs, rows) = {} /\ AddressUpdates(docs, rows) = {}
  <2>1. \A q \in docs \X Ip :
          ~ (q[1].addresses[q[2]] # None /\ Present(q[1], docs, rows)[q[2]] # q[1].addresses[q[2]])
    BY <1>10, <1>14
  <2> QED BY <2>1 DEF AddressCreates, AddressUpdates
<1>16. ASSUME mode # "additive" PROVE Deletes(snap, rows) = {}
  <2>1. \A q \in docs \X Ip : Present(q[1], docs, rows)[q[2]] = q[1].addresses[q[2]]
    BY <1>10, <1>14, <1>16
  <2>2. AddressOrphans(docs, rows) = {}
    BY <2>1 DEF AddressOrphans
  <2>3. SubnetOrphans(docs, rows) = {}
    BY <1>3, <1>4, <1>16 DEF SubnetOrphans, docs
  <2>4. FolderOrphans(snap, rows) = {}
    BY <1>3, <1>16 DEF FolderOrphans
  <2> QED BY <1>2, <2>2, <2>3, <2>4 DEF Deletes
<1> QED BY <1>2, <1>6, <1>7, <1>9, <1>11, <1>13, <1>15, <1>16 DEF Plan

\* As long as no operator has edited the target: whatever was refused, lost or
\* interrupted on the way, once the target is a replica of the snapshot the next run
\* plans nothing (build_plan, ipamsync/plan.py).  Of the targets a behaviour starts
\* from it is assumed that no section has a CIDR twice, and of the snapshots that no
\* CIDR is in two sections: of two documents of one CIDR only one is ordered, and the
\* subnet of the other, though it matches, would be planned to be deleted (MCShared).
THEOREM ReplicaIsQuiet ==
  ASSUME \A t \in Targets : Unique(t.rows),
         \A s \in Snapshots : Apart(s)
  PROVE  Spec => [](edits = 0 => MirroredIsQuiet)
<1>1. TypeOK /\ NetworksOnce => (edits = 0 => MirroredIsQuiet)
  BY ReplicaNeedsNothing DEF NetworksOnce, MirroredIsQuiet, TypeOK
<1>2. Spec => []NetworksOnce
  BY NetworksOnceInvariant
<1> QED BY <1>1, <1>2, TypeCorrect, PTL

(***************************************************************************)
(* No folder twice.  A folder is created under the row that stands, in a   *)
(* cached index, at the path above its own; the index may be stale.  But   *)
(* the process neither renames nor moves a folder, and none outlives its   *)
(* parent, so what an index says of a folder that still exists is true as  *)
(* long as nobody else edits.                                              *)
(***************************************************************************)
\* What listing L of section t says of the folders among rows r.
FolderTrue(L, t, r) ==
  \A i \in DOMAIN L : (L[i].isFolder /\ i \in DOMAIN r) =>
    /\ r[i].section = t /\ r[i].isFolder
    /\ r[i].name = L[i].name
    /\ r[i].masterSubnetId = L[i].masterSubnetId
    /\ L[i].masterSubnetId \in FolderRows(L)
         <=> L[i].masterSubnetId \in FolderRows(Listing(r, t))

IndexesTrue(c, r) == \A k \in DOMAIN c.listings : FolderTrue(c.listings[k], k[1], r)

FoldersStayTrue == IndexesTrue(cache, rows)

\* From rows r to rows s, with n the next id to be given out.
FoldersKept(r, s, n) ==
  /\ DOMAIN s \subseteq DOMAIN r \cup {n}
  /\ \A i \in DOMAIN r \cap DOMAIN s :
       /\ s[i].section = r[i].section /\ s[i].isFolder = r[i].isFolder
       /\ r[i].isFolder =>
            LET p == r[i].masterSubnetId
            IN  /\ s[i].name = r[i].name /\ s[i].masterSubnetId = p
                /\ p # n
                /\ (p \in DOMAIN r /\ r[p].isFolder) => p \in DOMAIN s

LEMMA KeptIsFolderTrue ==
  ASSUME NEW n \in Nat, NEW L, DOMAIN L \subseteq Ids(n), NEW t, NEW r, NEW s,
         FolderTrue(L, t, r), FoldersKept(r, s, n)
  PROVE  FolderTrue(L, t, s)
<1> SUFFICES ASSUME NEW i \in DOMAIN L, L[i].isFolder, i \in DOMAIN s
             PROVE  /\ s[i].section = t /\ s[i].isFolder
                    /\ s[i].name = L[i].name
                    /\ s[i].masterSubnetId = L[i].masterSubnetId
                    /\ L[i].masterSubnetId \in FolderRows(L)
                         <=> L[i].masterSubnetId \in FolderRows(Listing(s, t))
  BY DEF FolderTrue
<1>1. i \in DOMAIN r /\ i \in DOMAIN r \cap DOMAIN s
  <2>1. i # n
    BY DEF Ids
  <2> QED BY <2>1 DEF FoldersKept
<1> DEFINE p == L[i].masterSubnetId
<1>2. /\ r[i].section = t /\ r[i].isFolder /\ r[i].name = L[i].name
      /\ r[i].masterSubnetId = p
      /\ p \in FolderRows(L) <=> p \in FolderRows(Listing(r, t))
  BY <1>1 DEF FolderTrue
<1>3. /\ s[i].section = t /\ s[i].isFolder /\ s[i].name = L[i].name
      /\ s[i].masterSubnetId = p /\ p # n
      /\ (p \in DOMAIN r /\ r[p].isFolder) => p \in DOMAIN s
  BY <1>1, <1>2 DEF FoldersKept
<1> HIDE DEF p
<1>4. p \in FolderRows(Listing(r, t)) => p \in FolderRows(Listing(s, t))
  BY <1>3 DEF FolderRows, Listing, FoldersKept
<1>5. p \in FolderRows(Listing(s, t)) => p \in FolderRows(Listing(r, t))
  BY <1>3 DEF FolderRows, Listing, FoldersKept
<1> QED BY <1>2, <1>3, <1>4, <1>5 DEF p

\* A listing read now says what is so.
LEMMA ListingIsFolderTrue == \A r, t : FolderTrue(Listing(r, t), t, r)
BY DEF FolderTrue, Listing, FolderRows

\* Every write keeps the folders that stay as they are, and their parents.
LEMMA DeletionKeepsFolders ==
  ASSUME TypeOK, Housed(target), NEW id
  PROVE  FoldersKept(rows, RowsWithout(id), target.nextId)
<1> DEFINE s == RowsWithout(id)
<1>1. ASSUME NEW i \in DOMAIN s, rows[i].isFolder
      PROVE  LET p == rows[i].masterSubnetId
             IN  /\ p # target.nextId
                 /\ (p \in DOMAIN rows /\ rows[p].isFolder) => p \in DOMAIN s
  <2> DEFINE p == rows[i].masterSubnetId
  <2>1. i \in DOMAIN rows
    BY DEF RowsWithout
  <2>2. p \in Ids(target.nextId) \cup {None}
    BY <2>1 DEF Housed, rows
  <2>3. p # target.nextId
    BY <2>2, TargetFacts DEF Ids, None
  <2>4. ASSUME p \in DOMAIN rows, rows[p].isFolder, p \notin DOMAIN s
        PROVE  FALSE
    <3>1. p \in Below(id) /\ (rows[id].isFolder \/ CascadeSubnets)
      BY <2>4 DEF RowsWithout, Below
    <3>2. i \in Below(id)
      BY <2>1, <3>1, BelowIsClosed
    <3> QED BY <3>1, <3>2 DEF RowsWithout
  <2> QED BY <2>3, <2>4
<1>2. DOMAIN s \subseteq DOMAIN rows /\ \A i \in DOMAIN s : s[i] = rows[i]
  BY DEF RowsWithout
<1> HIDE DEF s
<1>3. FoldersKept(rows, s, target.nextId)
  BY <1>1, <1>2 DEF FoldersKept
<1> QED BY <1>3 DEF s

LEMMA WritesKeepFolders ==
  ASSUME TypeOK, Housed(target)
  PROVE  /\ FoldersKept(rows, rows, target.nextId)
         /\ \A row : FoldersKept(rows, Put(rows, target.nextId, row), target.nextId)
         /\ \A id \in DOMAIN rows : \A row :
              (~ rows[id].isFolder /\ row.isFolder = rows[id].isFolder /\ row.section = rows[id].section)
                => FoldersKept(rows, [rows EXCEPT ![id] = row], target.nextId)
<1> DEFINE n == target.nextId
<1>1. /\ n \notin DOMAIN rows
      /\ \A i \in DOMAIN rows : rows[i].masterSubnetId # n /\ rows[i] \in Row
  <2>1. \A i \in DOMAIN rows : rows[i].masterSubnetId \in Ids(n) \cup {None}
    BY DEF Housed, rows
  <2> QED BY <2>1, TargetFacts DEF Ids, None, TableType
<1> HIDE DEF n
<1>2. FoldersKept(rows, rows, n)
  BY <1>1 DEF FoldersKept
<1>3. ASSUME NEW row PROVE FoldersKept(rows, Put(rows, n, row), n)
  BY <1>1 DEF FoldersKept, Put
<1>4. ASSUME NEW id \in DOMAIN rows, NEW row,
             ~ rows[id].isFolder, row.isFolder = rows[id].isFolder, row.section = rows[id].section
      PROVE  FoldersKept(rows, [rows EXCEPT ![id] = row], n)
  <2> DEFINE s == [rows EXCEPT ![id] = row]
  <2>1. DOMAIN s = DOMAIN rows /\ s[id] = row /\ \A i \in DOMAIN rows \ {id} : s[i] = rows[i]
    OBVIOUS
  <2> HIDE DEF s
  <2>2. \A i \in DOMAIN rows : s[i].section = rows[i].section /\ s[i].isFolder = rows[i].isFolder
    BY <1>1, <1>4, <2>1 DEF Row
  <2>3. FoldersKept(rows, s, n)
    BY <1>1, <1>4, <2>1, <2>2 DEF FoldersKept
  <2> QED BY <2>3 DEF s
<1> QED BY <1>2, <1>3, <1>4 DEF n

\* So does every effect.
LEMMA EffectKeepsFolders ==
  ASSUME TypeOK, IdsTrueNow, Housed(target), NEW a \in Action,
         NEW after, NEW looked, NEW dropped, NEW fresh,
         Effect(a, after, looked, dropped, fresh)
  PROVE  FoldersKept(rows, after.rows, target.nextId)
<1>1. CASE after.rows = rows
  BY <1>1, WritesKeepFolders
<1>2. CASE Entered(a, after)
  BY <1>2, WritesKeepFolders DEF Entered
<1>3. CASE Changed(a, after, looked, fresh)
  <2> DEFINE id == KnownId(a)
  <2>1. PICK row : Changes(a, id, row, looked, fresh) /\ after.rows = [rows EXCEPT ![id] = row]
    BY <1>3 DEF Changed
  <2>2. id \in DOMAIN rows /\ rows[id].cidr = a.cidr /\ a.kind \notin SubnetlessKind
    BY <1>3 DEF Changed
  <2>3. rows[id] \in Row
    BY <2>2, TargetFacts DEF TableType
  <2>4. ~ rows[id].isFolder
    BY <2>2, <2>3 DEF Row, Action
  <2>5. row.section = rows[id].section /\ row.isFolder = rows[id].isFolder
    BY <2>1, <2>3 DEF Changes, WithAddress, Row
  <2> HIDE DEF id
  <2> QED BY <2>1, <2>2, <2>4, <2>5, WritesKeepFolders
<1>4. CASE TakenOut(a, after)
  BY <1>4, DeletionKeepsFolders DEF TakenOut
<1> QED BY <1>1, <1>2, <1>3, <1>4, EffectOnRows

\* What lookups leave, and what invalidation and rereading leave of it.
LEMMA TrueIndexes ==
  ASSUME NEW c, NEW n, CacheType(c, n), NEW r, IndexesTrue(c, r)
  PROVE  /\ \A t : IndexesTrue(Dropped(c, t), r)
         /\ \A t, x : IndexesTrue(Reread(c, t, x, r), r)
         /\ \A k, L : FolderTrue(L, k[1], r) => IndexesTrue([c EXCEPT !.listings = Put(@, k, L)], r)
         /\ \A f : IndexesTrue([c EXCEPT !.ids = f], r)
         /\ \A f : IndexesTrue([c EXCEPT !.addresses = f], r)
         /\ \A f, g : IndexesTrue([c EXCEPT !.addresses = f, !.ids = g], r)
         /\ \A S : IndexesTrue([c EXCEPT !.sections = S], r)
<1> USE DEF CacheType, IndexesTrue
<1>1. ASSUME NEW d, CacheType(d, n), IndexesTrue(d, r), NEW k, NEW L, FolderTrue(L, k[1], r)
      PROVE  IndexesTrue([d EXCEPT !.listings = Put(@, k, L)], r)
  BY <1>1 DEF Put
<1>2. ASSUME NEW t PROVE CacheType(Dropped(c, t), n) /\ IndexesTrue(Dropped(c, t), r)
  BY DEF Dropped
<1>3. ASSUME NEW t, NEW x PROVE IndexesTrue(Reread(c, t, x, r), r)
  <2>1. << t, x >>[1] = t
    OBVIOUS
  <2> HIDE DEF CacheType, IndexesTrue
  <2> QED BY <1>1, <1>2, <2>1, ListingIsFolderTrue DEF Reread
<1>4. /\ \A f : IndexesTrue([c EXCEPT !.ids = f], r)
      /\ \A f : IndexesTrue([c EXCEPT !.addresses = f], r)
      /\ \A f, g : IndexesTrue([c EXCEPT !.addresses = f, !.ids = g], r)
      /\ \A S : IndexesTrue([c EXCEPT !.sections = S], r)
  OBVIOUS
<1> HIDE DEF CacheType, IndexesTrue
<1>5. \A k, L : FolderTrue(L, k[1], r) => IndexesTrue([c EXCEPT !.listings = Put(@, k, L)], r)
  BY <1>1
<1> QED BY <1>2, <1>3, <1>4, <1>5

LEMMA LooksAreFolderTrue ==
  ASSUME TypeOK, FoldersStayTrue, NEW a \in Action
  PROVE  /\ \A x : FolderTrue(Listed(T(a), x), T(a), rows)
         /\ \A looked \in Looks(a) : IndexesTrue(looked, rows)
<1>1. \A x : FolderTrue(Listed(T(a), x), T(a), rows)
  BY ListingIsFolderTrue DEF Listed, FoldersStayTrue, IndexesTrue
<1>2. CacheType(cache, target.nextId) /\ IndexesTrue(cache, rows)
  BY DEF TypeOK, FoldersStayTrue
<1>3. ASSUME NEW c, CacheType(c, target.nextId), IndexesTrue(c, rows), NEW x
      PROVE  IndexesTrue(Looked(c, a, x), rows)
  <2>1. << T(a), x >>[1] = T(a)
    OBVIOUS
  <2> QED BY <1>1, <1>3, <2>1, TrueIndexes DEF Looked
<1>4. "subnets" \in Index
  BY DEF Index
<1>5. ASSUME a.kind \notin SubnetlessKind
      PROVE  CacheType(Resolved(a), target.nextId) /\ IndexesTrue(Resolved(a), rows)
  <2>1. CacheType(Looked(cache, a, "subnets"), target.nextId)
    BY <1>4, Seen
  <2>2. IndexesTrue(Looked(cache, a, "subnets"), rows)
    BY <1>2, <1>3
  <2>3. IndexesTrue([Looked(cache, a, "subnets") EXCEPT !.ids = Put(@, Key(a), KnownId(a))], rows)
    BY <2>1, <2>2, TrueIndexes
  <2> QED BY <1>2, <1>5, <2>2, <2>3, Seen DEF Resolved
<1>6. ASSUME NEW c, CacheType(c, target.nextId), IndexesTrue(c, rows)
      PROVE  IndexesTrue(ParentLooked(c, a), rows)
  BY <1>3, <1>6 DEF ParentLooked
<1>7. a.kind \notin SubnetlessKind => IndexesTrue(WithAddresses(a), rows)
  BY <1>5, TrueIndexes DEF WithAddresses
<1>8. \A looked \in Looks(a) : IndexesTrue(looked, rows)
  BY <1>2, <1>3, <1>5, <1>6, <1>7 DEF Looks
<1> QED BY <1>1, <1>8

\* The caches stay true of the folders when the rows keep theirs.
LEMMA KeptIndexesAreTrue ==
  ASSUME NEW n \in Nat, NEW c, CacheType(c, n), NEW r, NEW s, IndexesTrue(c, r), FoldersKept(r, s, n)
  PROVE  IndexesTrue(c, s)
<1> SUFFICES ASSUME NEW k \in DOMAIN c.listings
             PROVE  FolderTrue(c.listings[k], k[1], s)
  BY DEF IndexesTrue
<1>1. DOMAIN c.listings[k] \subseteq Ids(n) /\ FolderTrue(c.listings[k], k[1], r)
  BY DEF CacheType, TableType, IndexesTrue
<1> QED BY <1>1, KeptIsFolderTrue

\* Whatever caches a handler ends with are true of the folders it leaves.
LEMMA HandlersKeepFolders ==
  ASSUME TypeOK, IdsTrueNow, Housed(target), FoldersStayTrue, NEW a \in pending, Handle(a)
  PROVE  FoldersStayTrue'
<1>1. PICK after, looked, dropped, fresh : Ended(a, after, looked, dropped, fresh)
  BY HandlerEnds
<1>2. a \in Action /\ target.nextId \in Nat
  BY TargetFacts DEF TypeOK
<1>3. CASE target' = target /\ looked \in Looks(a) /\ cache' \in {cache, looked}
  BY <1>2, <1>3, LooksAreFolderTrue DEF FoldersStayTrue, rows
<1>4. CASE /\ Effect(a, after, looked, dropped, fresh) /\ target' = after
           /\ cache' \in {looked, dropped, fresh}
  <2> DEFINE n == target.nextId
             s == after.rows
  <2>1. rows' = s /\ FoldersKept(rows, s, n)
    BY <1>2, <1>4, EffectKeepsFolders DEF rows
  <2>2. looked \in Looks(a)
    BY <1>4, LooksFacts DEF Effect
  <2>3. CacheType(looked, n) /\ IndexesTrue(looked, rows)
    BY <1>2, <2>2, LooksType, LooksAreFolderTrue
  <2>4. IndexesTrue(looked, s)
    BY <1>2, <2>1, <2>3, KeptIndexesAreTrue
  <2>5. CacheType(cache, n) /\ IndexesTrue(cache, s)
    BY <1>2, <2>1, KeptIndexesAreTrue DEF TypeOK, FoldersStayTrue
  <2> HIDE DEF n, s
  <2>6. /\ \A t : CacheType(Dropped(looked, t), n) /\ IndexesTrue(Dropped(looked, t), s)
        /\ \A t, x : IndexesTrue(Reread(looked, t, x, s), s)
        /\ \A f : IndexesTrue([looked EXCEPT !.addresses = f], s)
        /\ \A S : IndexesTrue([cache EXCEPT !.sections = S], s)
    BY <2>3, <2>4, <2>5, TrueIndexes, CacheOperations
  <2>7. \A id : LET c == Popped(looked, a, id)
                IN  /\ \A t : IndexesTrue(Dropped(c, t), s)
                    /\ \A t, x : IndexesTrue(Reread(c, t, x, s), s)
    <3> TAKE id
    <3> DEFINE unread == [looked EXCEPT !.addresses = Pop(@, id)]
    <3>1. CacheType(unread, n)
      BY <2>3, CacheOperations
    <3>2. Popped(looked, a, id) = [unread EXCEPT !.ids = Pop(@, Key(a))]
      BY <2>3 DEF Popped, CacheType
    <3> HIDE DEF unread
    <3>3. CacheType(Popped(looked, a, id), n)
      BY <3>1, <3>2, CacheOperations
    <3>4. IndexesTrue(Popped(looked, a, id), s)
      BY <2>3, <2>4, TrueIndexes DEF Popped
    <3> QED BY <3>3, <3>4, TrueIndexes
  <2>8. IndexesTrue(dropped, s) /\ IndexesTrue(fresh, s)
    <3>1. CASE a.kind = "create_section" /\ dropped = fresh
               /\ fresh = [cache EXCEPT !.sections = sects \cup {T(a)}]
      BY <2>6, <3>1
    <3>2. CASE /\ dropped = Dropped(looked, T(a))
               /\ \E x : fresh = Reread(looked, T(a), x, after.rows)
      BY <2>6, <3>2 DEF s
    <3>3. CASE dropped = looked /\ \E row : Changes(a, KnownId(a), row, looked, fresh)
      BY <2>4, <2>6, <3>3 DEF Changes, Unread
    <3>4. CASE \E id : /\ dropped = Dropped(Popped(looked, a, id), T(a))
                       /\ fresh = Reread(Popped(looked, a, id), T(a), "subnets", after.rows)
      BY <2>7, <3>4 DEF s
    <3>5. CASE dropped = looked /\ fresh = Dropped(looked, T(a))
      BY <2>4, <2>6, <3>5
    <3> QED BY <1>4, <3>1, <3>2, <3>3, <3>4, <3>5 DEF Effect
  <2> QED BY <1>4, <2>1, <2>4, <2>8 DEF FoldersStayTrue
<1> QED BY <1>1, <1>3, <1>4 DEF Ended

\* As long as nobody else edits, what the indexes say of the folders that still exist
\* is true.
FoldersTrueNow == edits = 0 => FoldersStayTrue

LEMMA FoldersTrueInvariant == Spec => []FoldersTrueNow
<1>0. \A r : IndexesTrue(NoCache, r)
  BY DEF IndexesTrue, NoCache, EmptyMap
<1>1. Init => FoldersTrueNow
  BY <1>0 DEF Init, FoldersTrueNow, FoldersStayTrue
<1>2. TypeOK /\ Unmeddled /\ FoldersTrueNow /\ [Next]_vars => FoldersTrueNow'
  <2> SUFFICES ASSUME TypeOK, Unmeddled, FoldersTrueNow, [Next]_vars, edits' = 0
               PROVE  FoldersStayTrue'
    BY DEF FoldersTrueNow
  <2>1. CASE StartRun
    <3>1. rows' = rows /\ FoldersStayTrue
      BY <2>1 DEF StartRun, FoldersTrueNow, rows
    <3>2. CASE cache' = cache
      BY <3>1, <3>2 DEF FoldersStayTrue
    <3>3. CASE cache' = [sections |-> sects,
                         listings |-> [k \in IndexesRead |-> Listing(rows, k[1])],
                         addresses |-> [i \in AddressesRead |-> rows[i].addresses],
                         ids |-> EmptyMap]
      BY <3>1, <3>3, ListingIsFolderTrue DEF FoldersStayTrue, IndexesTrue
    <3> QED BY <2>1, <3>2, <3>3 DEF StartRun
  <2>2. CASE Execute
    <3>1. PICK a \in pending : Handle(a)
      BY <2>2 DEF Execute
    <3>2. edits = 0
      BY <3>1, HandledIsTaken DEF Taken
    <3> QED BY <3>1, <3>2, HandlersKeepFolders DEF Unmeddled, FoldersTrueNow
  <2>3. CASE FinishRun \/ Crash
    BY <1>0, <2>3 DEF FinishRun, Crash, ProcessEnds, FoldersStayTrue
  <2>4. CASE Operator
    BY <2>4, OperatorCounts
  <2>5. CASE Deliver
    BY <2>5 DEF Deliver, FoldersTrueNow, FoldersStayTrue, rows
  <2>6. CASE UNCHANGED vars
    BY <2>6 DEF vars, FoldersTrueNow, FoldersStayTrue, rows
  <2>7. CASE ConfirmEmpty
    <3>1. PICK a \in pending : cache' = Looked(cache, a, "folders")
      BY <2>7 DEF ConfirmEmpty
    <3>2. a \in Action /\ Looked(cache, a, "folders") \in Looks(a)
      BY LooksFacts DEF TypeOK, Index
    <3>3. rows' = rows /\ FoldersStayTrue
      BY <2>7 DEF ConfirmEmpty, FoldersTrueNow, rows
    <3> QED BY <3>1, <3>2, <3>3, LooksAreFolderTrue DEF FoldersStayTrue
  <2> QED BY <2>1, <2>2, <2>3, <2>4, <2>5, <2>6, <2>7 DEF Next
<1> QED BY <1>1, <1>2, TypeCorrect, UnmeddledInvariant, PTL DEF Spec

(***************************************************************************)
(* Paths.  A folder stands at one path at most; a path that is found in a  *)
(* true index leads to the same folder in the target; and a write leaves   *)
(* every folder where it was.                                              *)
(***************************************************************************)
\* A chain of folders of L from the top down path p.
Chain(L, p, chain) ==
  /\ chain \in [1 .. Len(p) -> FolderRows(L)]
  /\ \A k \in 1 .. Len(p) : L[chain[k]].name = p[k]
  /\ L[chain[1]].masterSubnetId \notin FolderRows(L)
  /\ \A k \in 2 .. Len(p) : L[chain[k]].masterSubnetId = chain[k - 1]

LEMMA ChainAt ==
  ASSUME NEW L, NEW i, NEW p
  PROVE  IsFolderAt(L, i, p) <=> \E chain : Chain(L, p, chain) /\ chain[Len(p)] = i
BY DEF IsFolderAt, Chain

\* Two chains that end in one folder are one.
LEMMA OnePath ==
  ASSUME NEW L, NEW i, NEW p \in Seq(Nat) \ {NoFolder}, NEW q \in Seq(Nat) \ {NoFolder},
         Len(p) <= Len(q), IsFolderAt(L, i, p), IsFolderAt(L, i, q)
  PROVE  p = q
<1> DEFINE m == Len(p)
           n == Len(q)
<1>1. m \in Nat \ {0} /\ n \in Nat \ {0} /\ m <= n
  BY DEF NoFolder
<1>2. PICK c : Chain(L, p, c) /\ c[m] = i
  BY ChainAt
<1>3. PICK d : Chain(L, q, d) /\ d[n] = i
  BY ChainAt
<1>4. /\ \A k \in 2 .. m : L[c[k]].masterSubnetId = c[k - 1]
      /\ \A k \in 2 .. n : L[d[k]].masterSubnetId = d[k - 1]
      /\ \A k \in 1 .. n : d[k] \in FolderRows(L)
      /\ L[c[1]].masterSubnetId \notin FolderRows(L)
      /\ \A k \in 1 .. m : L[c[k]].name = p[k]
      /\ \A k \in 1 .. n : L[d[k]].name = q[k]
  BY <1>2, <1>3 DEF Chain
<1> HIDE DEF m, n
<1> DEFINE Differs == {k \in 0 .. (m - 1) : c[m - k] # d[n - k]}
<1>5. Differs = {}
  <2> SUFFICES ASSUME Differs # {} PROVE FALSE
    OBVIOUS
  <2>1. Differs \in SUBSET Nat
    BY <1>1
  <2> HIDE DEF Differs
  <2>2. PICK k \in Differs : \A j \in Differs : k <= j
    BY <2>1, LeastExists
  <2>3. k \in 0 .. (m - 1) /\ c[m - k] # d[n - k]
    BY <2>2 DEF Differs
  <2>4. k # 0
    BY <1>1, <1>2, <1>3, <2>3 DEF m, n
  <2>5. k - 1 \in 0 .. (m - 1) /\ k - 1 \notin Differs
    BY <1>1, <2>2, <2>3, <2>4
  <2>6. c[m - (k - 1)] = d[n - (k - 1)]
    BY <2>5 DEF Differs
  <2> DEFINE x == m - (k - 1)
             y == n - (k - 1)
  <2>7. /\ x \in 2 .. m /\ x - 1 = m - k
        /\ y \in 2 .. n /\ y - 1 = n - k
    <3>1. /\ m \in Int /\ n \in Int /\ k \in Int
          /\ 1 <= k /\ k <= m - 1 /\ m <= n
      BY <1>1, <2>3, <2>4
    <3> QED BY <3>1
  <2> HIDE DEF x, y
  <2>8. c[m - k] = d[n - k]
    <3>1. L[c[x]].masterSubnetId = c[x - 1] /\ L[d[y]].masterSubnetId = d[y - 1]
      BY <1>4, <2>7
    <3>2. c[x] = d[y]
      BY <2>6 DEF x, y
    <3>3. c[x - 1] = d[y - 1]
      BY <3>1, <3>2
    <3> QED BY <2>7, <3>3
  <2> QED BY <2>3, <2>8
<1>6. \A k \in 1 .. m : c[k] = d[n - (m - k)]
  <2> TAKE k \in 1 .. m
  <2>1. m - k \in 0 .. (m - 1) /\ m - (m - k) = k
    BY <1>1
  <2>2. m - k \notin Differs
    BY <1>5
  <2> QED BY <2>1, <2>2
<1>7. m = n
  <2> SUFFICES ASSUME m < n PROVE FALSE
    BY <1>1
  <2>1. 1 \in 1 .. m /\ n - (m - 1) \in 2 .. n /\ (n - (m - 1)) - 1 \in 1 .. n
    BY <1>1
  <2>2. c[1] = d[n - (m - 1)]
    BY <1>6, <2>1
  <2>3. L[d[n - (m - 1)]].masterSubnetId = d[(n - (m - 1)) - 1]
    BY <1>4, <2>1
  <2> QED BY <1>4, <2>1, <2>2, <2>3
<1>8. \A k \in 1 .. m : p[k] = q[k]
  <2> TAKE k \in 1 .. m
  <2>1. n - (m - k) = k
    BY <1>1, <1>7
  <2> QED BY <1>4, <1>6, <1>7, <2>1, ZenonT(60)
<1> QED BY <1>7, <1>8 DEF m, n

LEMMA PathsDiffer ==
  ASSUME NEW L, NEW i, NEW p \in Seq(Nat) \ {NoFolder}, NEW q \in Seq(Nat) \ {NoFolder},
         IsFolderAt(L, i, p), IsFolderAt(L, i, q)
  PROVE  p = q
<1>1. Len(p) <= Len(q) \/ Len(q) <= Len(p)
  OBVIOUS
<1> QED BY <1>1, OnePath

\* Where a true index finds a folder that still exists, there it is.
LEMMA FoundIsThere ==
  ASSUME NEW L, NEW t, NEW r, FolderTrue(L, t, r),
         NEW p \in Seq(Nat) \ {NoFolder}, NEW i \in DOMAIN r, IsFolderAt(L, i, p)
  PROVE  IsFolderAt(Listing(r, t), i, p)
<1> DEFINE M == Listing(r, t)
           m == Len(p)
<1>1. m \in Nat \ {0}
  BY DEF NoFolder
<1>2. PICK c : Chain(L, p, c) /\ c[m] = i
  BY ChainAt
<1>3. \A k \in 1 .. m : c[k] \in FolderRows(L) /\ L[c[k]].name = p[k]
  BY <1>2 DEF Chain
<1>4. /\ L[c[1]].masterSubnetId \notin FolderRows(L)
      /\ \A k \in 2 .. m : L[c[k]].masterSubnetId = c[k - 1]
  BY <1>2 DEF Chain
<1>5. ASSUME NEW j \in FolderRows(L), j \in DOMAIN r
      PROVE  /\ j \in FolderRows(M) /\ M[j].name = L[j].name
             /\ M[j].masterSubnetId = L[j].masterSubnetId
             /\ L[j].masterSubnetId \in FolderRows(L) <=> L[j].masterSubnetId \in FolderRows(M)
  BY <1>5 DEF FolderTrue, FolderRows, Listing
<1>6. FolderRows(M) \subseteq DOMAIN r
  BY DEF FolderRows, Listing
<1> HIDE DEF M, m
<1> DEFINE Gone == {k \in 1 .. m : c[k] \notin DOMAIN r}
<1>7. Gone = {}
  <2> SUFFICES ASSUME Gone # {} PROVE FALSE
    OBVIOUS
  <2>1. Gone \in SUBSET Nat /\ m \in Nat /\ \A x \in Gone : x <= m
    BY <1>1
  <2> HIDE DEF Gone
  <2>2. PICK k \in Gone : \A x \in Gone : x <= k
    BY <2>1, GreatestExists
  <2>3. k \in 1 .. m /\ c[k] \notin DOMAIN r
    BY <2>2 DEF Gone
  <2>4. k # m
    BY <1>2, <2>3 DEF m
  <2>5. k + 1 \in 2 .. m /\ (k + 1) - 1 = k /\ k + 1 \notin Gone
    BY <1>1, <2>2, <2>3, <2>4
  <2>6. c[k + 1] \in DOMAIN r
    BY <2>5 DEF Gone
  <2>7. c[k + 1] \in FolderRows(L) /\ L[c[k + 1]].masterSubnetId = c[k] /\ c[k] \in FolderRows(L)
    BY <1>1, <1>3, <1>4, <2>3, <2>5
  <2>8. c[k] \in FolderRows(M)
    BY <1>5, <2>6, <2>7
  <2> QED BY <1>6, <2>3, <2>8
<1>8. \A k \in 1 .. m : c[k] \in DOMAIN r
  BY <1>7
<1>9. \A k \in 1 .. m : /\ c[k] \in FolderRows(M) /\ M[c[k]].name = p[k]
                        /\ M[c[k]].masterSubnetId = L[c[k]].masterSubnetId
  BY <1>3, <1>5, <1>8
<1>10. M[c[1]].masterSubnetId \notin FolderRows(M)
  <2>1. 1 \in 1 .. m
    BY <1>1
  <2> QED BY <1>3, <1>4, <1>5, <1>8, <1>9, <2>1
<1>11. \A k \in 2 .. m : M[c[k]].masterSubnetId = c[k - 1]
  BY <1>1, <1>4, <1>9
<1>12. c \in [1 .. m -> FolderRows(M)]
  <2>1. c \in [1 .. m -> FolderRows(L)]
    BY <1>2 DEF Chain, m
  <2> QED BY <1>9, <2>1
<1>13. Chain(M, p, c)
  BY <1>9, <1>10, <1>11, <1>12 DEF Chain, m
<1> QED BY <1>2, <1>13, ChainAt DEF M, m

\* A folder that was there before a write, and whose whole chain was, is where it was.
LEMMA FoldersStayPut ==
  ASSUME NEW r, NEW s, NEW n, FoldersKept(r, s, n), NEW t, NEW p \in Seq(Nat) \ {NoFolder},
         NEW c, Chain(Listing(s, t), p, c), \A k \in 1 .. Len(p) : c[k] \in DOMAIN r
  PROVE  Chain(Listing(r, t), p, c)
<1> DEFINE L == Listing(r, t)
           M == Listing(s, t)
           m == Len(p)
<1>1. m \in Nat \ {0} /\ 1 \in 1 .. m
  BY DEF NoFolder
<1>2. ASSUME NEW j \in FolderRows(M), j \in DOMAIN r
      PROVE  /\ j \in FolderRows(L) /\ M[j].name = L[j].name
             /\ M[j].masterSubnetId = L[j].masterSubnetId
             /\ L[j].masterSubnetId \in FolderRows(L) => L[j].masterSubnetId \in FolderRows(M)
  <2>1. j \in DOMAIN r \cap DOMAIN s /\ s[j].section = t /\ s[j].isFolder
    BY <1>2 DEF FolderRows, Listing
  <2>2. /\ r[j].section = t /\ r[j].isFolder /\ s[j].name = r[j].name
        /\ s[j].masterSubnetId = r[j].masterSubnetId
        /\ (r[j].masterSubnetId \in DOMAIN r /\ r[r[j].masterSubnetId].isFolder)
             => r[j].masterSubnetId \in DOMAIN s
    BY <2>1 DEF FoldersKept
  <2>3. j \in FolderRows(L) /\ L[j] = r[j] /\ M[j] = s[j]
    BY <2>1, <2>2 DEF FolderRows, Listing
  <2>4. ASSUME NEW x \in FolderRows(L), x \in DOMAIN s PROVE x \in FolderRows(M)
    BY <2>4 DEF FolderRows, Listing, FoldersKept
  <2>5. \A x \in FolderRows(L) : x \in DOMAIN r /\ r[x].isFolder
    BY DEF FolderRows, Listing
  <2> HIDE DEF L, M
  <2> QED BY <2>2, <2>3, <2>4, <2>5
<1>3. /\ c \in [1 .. m -> FolderRows(M)]
      /\ \A k \in 1 .. m : M[c[k]].name = p[k]
      /\ M[c[1]].masterSubnetId \notin FolderRows(M)
      /\ \A k \in 2 .. m : M[c[k]].masterSubnetId = c[k - 1]
  BY DEF Chain
<1>4. \A k \in 1 .. m : c[k] \in FolderRows(M) /\ c[k] \in DOMAIN r
  BY <1>3
<1> HIDE DEF L, M, m
<1>5. \A k \in 1 .. m : /\ c[k] \in FolderRows(L) /\ L[c[k]].name = p[k]
                        /\ L[c[k]].masterSubnetId = M[c[k]].masterSubnetId
  BY <1>2, <1>3, <1>4
<1>6. L[c[1]].masterSubnetId \notin FolderRows(L)
  BY <1>1, <1>2, <1>3, <1>4, <1>5
<1>7. \A k \in 2 .. m : L[c[k]].masterSubnetId = c[k - 1]
  BY <1>1, <1>3, <1>5
<1>8. c \in [1 .. m -> FolderRows(L)]
  BY <1>3, <1>5
<1> QED BY <1>5, <1>6, <1>7, <1>8 DEF Chain, L, m

\* The path above a path.
Above(p) == SubSeq(p, 1, Len(p) - 1)

LEMMA AbovePath ==
  ASSUME NEW p \in Seq(Nat), Len(p) > 1
  PROVE  /\ Above(p) \in Seq(Nat) \ {NoFolder} /\ Len(Above(p)) = Len(p) - 1
         /\ \A k \in 1 .. (Len(p) - 1) : Above(p)[k] = p[k]
<1>1. /\ Above(p) \in Seq(Nat) /\ Len(Above(p)) = Len(p) - 1
      /\ \A k \in 1 .. (Len(p) - 1) : Above(p)[k] = p[k]
  BY DEF Above
<1>2. Len(NoFolder) = 0
  BY DEF NoFolder
<1>3. Len(p) \in Nat
  OBVIOUS
<1> QED BY <1>1, <1>2, <1>3

\* The chain to a folder begins with the chain to the folder above it.
LEMMA ChainAbove ==
  ASSUME NEW L, NEW p \in Seq(Nat), Len(p) > 1, NEW c, Chain(L, p, c)
  PROVE  Chain(L, Above(p), [k \in 1 .. (Len(p) - 1) |-> c[k]])
<1> DEFINE m == Len(p)
           d == [k \in 1 .. (m - 1) |-> c[k]]
<1>1. m \in Nat /\ m > 1
  OBVIOUS
<1>2. /\ c \in [1 .. m -> FolderRows(L)]
      /\ \A k \in 1 .. m : L[c[k]].name = p[k]
      /\ L[c[1]].masterSubnetId \notin FolderRows(L)
      /\ \A k \in 2 .. m : L[c[k]].masterSubnetId = c[k - 1]
  BY DEF Chain
<1>3. Len(Above(p)) = m - 1 /\ \A k \in 1 .. (m - 1) : Above(p)[k] = p[k]
  BY AbovePath
<1> HIDE DEF m
<1>4. d \in [1 .. (m - 1) -> FolderRows(L)] /\ \A k \in 1 .. (m - 1) : L[d[k]].name = p[k]
  BY <1>1, <1>2
<1>5. L[d[1]].masterSubnetId \notin FolderRows(L)
  BY <1>1, <1>2
<1>6. \A k \in 2 .. (m - 1) : L[d[k]].masterSubnetId = d[k - 1]
  <2> TAKE k \in 2 .. (m - 1)
  <2>1. k \in 2 .. m /\ k \in 1 .. (m - 1) /\ k - 1 \in 1 .. (m - 1)
    BY <1>1
  <2> QED BY <1>2, <2>1
<1> HIDE DEF d
<1>7. Chain(L, Above(p), d)
  BY <1>3, <1>4, <1>5, <1>6 DEF Chain
<1> QED BY <1>7 DEF d, m

\* A folder of the right name in the folder above is at the path.
LEMMA ChainGrows ==
  ASSUME NEW L, NEW p \in Seq(Nat), Len(p) > 1, NEW i, IsFolderAt(L, i, Above(p)),
         NEW j \in FolderRows(L), L[j].name = p[Len(p)], L[j].masterSubnetId = i
  PROVE  IsFolderAt(L, j, p)
<1> DEFINE m == Len(p)
<1>1. m \in Nat /\ m > 1
  OBVIOUS
<1>2. Len(Above(p)) = m - 1 /\ \A k \in 1 .. (m - 1) : Above(p)[k] = p[k]
  BY AbovePath
<1>3. PICK c : Chain(L, Above(p), c) /\ c[m - 1] = i
  BY <1>2, ChainAt
<1>4. /\ c \in [1 .. (m - 1) -> FolderRows(L)]
      /\ \A k \in 1 .. (m - 1) : L[c[k]].name = p[k]
      /\ L[c[1]].masterSubnetId \notin FolderRows(L)
      /\ \A k \in 2 .. (m - 1) : L[c[k]].masterSubnetId = c[k - 1]
  BY <1>2, <1>3 DEF Chain
<1>0. L[j].name = p[m] /\ L[j].masterSubnetId = i
  OBVIOUS
<1> HIDE DEF m
<1> DEFINE d == [k \in 1 .. m |-> IF k = m THEN j ELSE c[k]]
<1>5. /\ d[m] = j /\ \A k \in 1 .. (m - 1) : d[k] = c[k]
      /\ d \in [1 .. m -> FolderRows(L)]
  BY <1>1, <1>4
<1> HIDE DEF d
<1>6. \A k \in 1 .. m : k = m \/ k \in 1 .. (m - 1)
  BY <1>1
<1>7. \A k \in 1 .. m : L[d[k]].name = p[k]
  BY <1>0, <1>4, <1>5, <1>6
<1>8. L[d[1]].masterSubnetId \notin FolderRows(L)
  BY <1>1, <1>4, <1>5
<1>9. \A k \in 2 .. m : L[d[k]].masterSubnetId = d[k - 1]
  <2> TAKE k \in 2 .. m
  <2>1. k - 1 \in 1 .. (m - 1)
    BY <1>1
  <2>2. CASE k = m
    BY <1>0, <1>3, <1>5, <2>1, <2>2
  <2>3. CASE k # m
    <3>1. k \in 2 .. (m - 1) /\ k \in 1 .. (m - 1)
      BY <1>1, <2>3
    <3> QED BY <1>4, <1>5, <2>1, <3>1
  <2> QED BY <2>2, <2>3
<1>10. Chain(L, p, d)
  BY <1>5, <1>7, <1>8, <1>9 DEF Chain, m
<1> QED BY <1>5, <1>10, ChainAt DEF m

\* A folder of the right name that lies in no folder is at a path of one name.
LEMMA ChainBegins ==
  ASSUME NEW L, NEW p \in Seq(Nat), Len(p) = 1,
         NEW j \in FolderRows(L), L[j].name = p[1], L[j].masterSubnetId \notin FolderRows(L)
  PROVE  IsFolderAt(L, j, p)
<1> DEFINE d == [k \in 1 .. 1 |-> j]
<1>1. d[1] = j /\ d \in [1 .. 1 -> FolderRows(L)] /\ \A k \in 1 .. 1 : k = 1
  OBVIOUS
<1> HIDE DEF d
<1>2. Chain(L, p, d)
  BY <1>1 DEF Chain
<1> QED BY <1>1, <1>2, ChainAt

(***************************************************************************)
(* The folders of the target, and those that are still to be created.      *)
(***************************************************************************)
UniqueFolders(r) ==
  \A i, j \in DOMAIN r :
    (/\ r[i].isFolder /\ r[j].isFolder /\ r[i].section = r[j].section
     /\ r[i].name = r[j].name /\ r[i].masterSubnetId = r[j].masterSubnetId) => i = j

NewFolders(plan, r) ==
  \A a \in plan : a.kind = "create_folder" =>
    /\ \A i : ~ IsFolderAt(Listing(r, T(a)), i, a.folder)
    /\ \A b \in plan : (b.kind = "create_folder" /\ T(b) = T(a) /\ b.folder = a.folder) => a = b

FoldersOnce == edits = 0 => UniqueFolders(rows) /\ NewFolders(pending, rows)

\* A path has a name in it; two paths of the same names are one.
LEMMA PathLength ==
  ASSUME NEW p \in Seq(Nat) \ {NoFolder}
  PROVE  Len(p) \in Nat /\ (Len(p) = 1 \/ Len(p) > 1) /\ Len(p) \in 1 .. Len(p)
<1> DEFINE m == Len(p)
<1>1. m \in Nat \ {0}
  BY DEF NoFolder
<1> HIDE DEF m
<1>2. m \in Nat /\ (m = 1 \/ m > 1) /\ m \in 1 .. m
  BY <1>1
<1> QED BY <1>2 DEF m

LEMMA SamePath ==
  ASSUME NEW p \in Seq(Nat), NEW q \in Seq(Nat), Len(p) = Len(q),
         \A k \in 1 .. Len(p) : p[k] = q[k]
  PROVE  p = q
OBVIOUS

\* Paths of folders that are to be created.
LEMMA FolderPaths ==
  ASSUME NEW a \in Action, a.kind = "create_folder"
  PROVE  /\ a.folder \in Seq(Nat) \ {NoFolder} /\ Len(a.folder) \in Nat
         /\ Len(a.folder) = 1 \/ Len(a.folder) > 1
<1>1. a.folder \in FolderPath
  BY ActionFacts
<1>2. a.folder \in Seq(Nat) \ {NoFolder}
  BY <1>1, PlanAssumption DEF PlanAssumption
<1> QED BY <1>2, PathLength

\* A write that enters no folder leaves no folder twice, and none where one is still
\* to be created.
LEMMA NoFolderEntered ==
  ASSUME NEW r, NEW s, NEW n, n \notin DOMAIN r, FoldersKept(r, s, n),
         n \in DOMAIN s => ~ s[n].isFolder,
         UniqueFolders(r), NEW plan \in SUBSET Action, NewFolders(plan, r)
  PROVE  UniqueFolders(s) /\ NewFolders(plan, s)
<1>1. \A i \in DOMAIN s : s[i].isFolder => i \in DOMAIN r \cap DOMAIN s
  BY DEF FoldersKept
<1>2. \A i \in DOMAIN s : s[i].isFolder =>
        /\ i \in DOMAIN r /\ r[i].isFolder /\ r[i].section = s[i].section
        /\ r[i].name = s[i].name /\ r[i].masterSubnetId = s[i].masterSubnetId
  BY <1>1 DEF FoldersKept
<1>3. UniqueFolders(s)
  BY <1>2 DEF UniqueFolders
<1>4. ASSUME NEW a \in plan, a.kind = "create_folder", NEW i,
             IsFolderAt(Listing(s, T(a)), i, a.folder)
      PROVE  FALSE
  <2>1. a.folder \in Seq(Nat) \ {NoFolder}
    BY <1>4, FolderPaths
  <2>2. PICK c : Chain(Listing(s, T(a)), a.folder, c) /\ c[Len(a.folder)] = i
    BY <1>4, ChainAt
  <2>3. \A k \in 1 .. Len(a.folder) : c[k] \in FolderRows(Listing(s, T(a)))
    BY <2>2 DEF Chain
  <2>4. \A k \in 1 .. Len(a.folder) : c[k] \in DOMAIN r
    BY <1>2, <2>3 DEF FolderRows, Listing
  <2>5. IsFolderAt(Listing(r, T(a)), i, a.folder)
    BY <2>1, <2>2, <2>4, FoldersStayPut, ChainAt
  <2> QED BY <1>4, <2>5 DEF NewFolders
<1>5. NewFolders(plan, s)
  BY <1>4 DEF NewFolders
<1> QED BY <1>3, <1>5

\* The parent that a folder is created under: none, or the folder found above it.
Nests(a, parent) ==
  IF Len(a.folder) > 1
  THEN parent = FolderId(Listed(T(a), "folders"), Above(a.folder)) /\ parent # None
  ELSE parent = None

\* What creating a folder makes of the rows.
LEMMA FolderCreated ==
  ASSUME TypeOK, NEW a \in pending, a.kind = "create_folder", Handle(a)
  PROVE  \/ rows' = rows
         \/ \E parent :
              /\ Nests(a, parent) /\ AcceptsFolder(parent)
              /\ rows' = Put(rows, target.nextId, FolderRow(T(a), a.folder[Len(a.folder)], parent))
<1>1. CASE DoWithoutSection(a)
  BY <1>1 DEF DoWithoutSection, Fail, LookupLost, rows
<1>2. CASE DoCreateFolder(a)
  <2> DEFINE p == a.folder
             nested == Len(p) > 1
             parent == IF nested
                       THEN FolderId(Listed(T(a), "folders"), SubSeq(p, 1, Len(p) - 1))
                       ELSE None
             looked == IF nested THEN Looked(cache, a, "folders") ELSE cache
             after == Created(FolderRow(T(a), p[Len(p)], parent))
             dropped == Dropped(looked, T(a))
             fresh == Reread(looked, T(a), "folders", after.rows)
  <2>1. IF nested /\ parent = None THEN Fail(a, "unresolved", looked)
        ELSE WriteAndConfirm(a, AcceptsFolder(parent), after, looked, dropped, fresh, TRUE)
    BY <1>2 DEF DoCreateFolder
  <2>2. after.rows = Put(rows, target.nextId, FolderRow(T(a), p[Len(p)], parent))
    BY TargetFacts
  <2>3. ~ (nested /\ parent = None) => Nests(a, parent)
    BY DEF Nests, Above
  <2> HIDE DEF parent, looked, after, dropped, fresh
  <2>4. CASE nested /\ parent = None
    BY <2>1, <2>4 DEF Fail, LookupLost, rows
  <2>5. CASE ~ (nested /\ parent = None)
    <3>1. \/ target' = target
          \/ AcceptsFolder(parent) /\ target' = after
      BY <2>1, <2>5 DEF WriteAndConfirm, LookupLost
    <3> QED BY <2>2, <2>3, <2>5, <3>1 DEF rows
  <2> QED BY <2>4, <2>5
<1> QED BY <1>1, <1>2 DEF Handle, DoCreateSection, DoCreateSubnet, DoUpdateSubnet, DoDetachSubnet,
           DoReparentSubnet, DoCreateAddress, DoUpdateAddress, DoDeleteAddress, DoDeleteSubnet,
           DoDeleteFolder, On

\* A folder is created where there is none, and what is still to be created is
\* created elsewhere.
LEMMA FolderEntered ==
  ASSUME TypeOK, Housed(target), FoldersStayTrue, UniqueFolders(rows), NewFolders(pending, rows),
         NEW a \in pending, a.kind = "create_folder", NEW parent, Nests(a, parent),
         AcceptsFolder(parent), NEW s,
         s = Put(rows, target.nextId, FolderRow(T(a), a.folder[Len(a.folder)], parent))
  PROVE  UniqueFolders(s) /\ NewFolders(pending \ {a}, s)
<1> DEFINE p == a.folder
           m == Len(p)
           t == T(a)
           n == target.nextId
           L == Listing(rows, t)
<1>0. a \in Action /\ pending \subseteq Action
  BY DEF TypeOK
<1>1. p \in Seq(Nat) \ {NoFolder} /\ m \in Nat /\ (m = 1 \/ m > 1)
  BY <1>0, FolderPaths
<1>2. /\ n \notin DOMAIN rows /\ None \notin DOMAIN rows /\ n # None
      /\ \A i \in DOMAIN rows : rows[i].masterSubnetId # n
  <2>1. \A i \in DOMAIN rows : rows[i].masterSubnetId \in Ids(n) \cup {None}
    BY DEF Housed, rows
  <2> QED BY <2>1, TargetFacts DEF Ids, None, TableType
<1>3. parent \in DOMAIN rows \cup {None} /\ parent # n
  BY <1>2 DEF AcceptsFolder
<1>4. /\ DOMAIN s = DOMAIN rows \cup {n} /\ \A i \in DOMAIN rows : s[i] = rows[i]
      /\ s[n].isFolder /\ s[n].section = t /\ s[n].name = p[m] /\ s[n].masterSubnetId = parent
  BY <1>2 DEF Put, FolderRow
<1>5. m > 1 => IsFolderAt(L, parent, Above(p)) /\ parent \in FolderRows(L)
  <2> SUFFICES ASSUME m > 1 PROVE IsFolderAt(L, parent, Above(p)) /\ parent \in FolderRows(L)
    OBVIOUS
  <2> DEFINE Lc == Listed(t, "folders")
  <2>1. parent = FolderId(Lc, Above(p)) /\ parent # None
    BY DEF Nests
  <2>2. parent \in FolderRows(Lc) /\ IsFolderAt(Lc, parent, Above(p))
    BY <2>1 DEF FolderId, Pick
  <2>3. FolderTrue(Lc, t, rows)
    BY <1>0, LooksAreFolderTrue
  <2>4. parent \in DOMAIN rows
    BY <2>1 DEF AcceptsFolder
  <2>5. Above(p) \in Seq(Nat) \ {NoFolder}
    BY <1>1, AbovePath
  <2>6. IsFolderAt(L, parent, Above(p))
    BY <2>2, <2>3, <2>4, <2>5, FoundIsThere
  <2>7. parent \in FolderRows(L)
    BY <2>2, <2>3, <2>4 DEF FolderTrue, FolderRows, Listing
  <2> QED BY <2>6, <2>7
<1>6. m = 1 => parent = None
  BY DEF Nests
<1>7. ASSUME NEW j \in DOMAIN rows, rows[j].isFolder, rows[j].section = t, rows[j].name = p[m],
             rows[j].masterSubnetId = parent
      PROVE  FALSE
  <2>1. /\ j \in FolderRows(L) /\ L[j].name = p[m] /\ L[j].masterSubnetId = parent
        /\ None \notin FolderRows(L)
    BY <1>2, <1>7 DEF FolderRows, Listing
  <2>2. CASE m = 1
    <3>1. IsFolderAt(L, j, p)
      BY <1>1, <1>6, <2>1, <2>2, ChainBegins
    <3> QED BY <3>1 DEF NewFolders
  <2>3. CASE m > 1
    <3>1. IsFolderAt(L, j, p)
      BY <1>1, <1>5, <2>1, <2>3, ChainGrows
    <3> QED BY <3>1 DEF NewFolders
  <2> QED BY <1>1, <2>2, <2>3
<1> HIDE DEF L
<1>8. UniqueFolders(s)
  <2> SUFFICES ASSUME NEW i \in DOMAIN s, NEW j \in DOMAIN s, s[i].isFolder, s[j].isFolder,
                      s[i].section = s[j].section, s[i].name = s[j].name,
                      s[i].masterSubnetId = s[j].masterSubnetId
               PROVE  i = j
    BY DEF UniqueFolders
  <2>1. CASE i \in DOMAIN rows /\ j \in DOMAIN rows
    BY <1>4, <2>1 DEF UniqueFolders
  <2>2. CASE i = n \/ j = n
    BY <1>4, <1>7, <2>2
  <2> QED BY <1>4, <2>1, <2>2
<1>9. ASSUME NEW b \in pending \ {a}, b.kind = "create_folder", NEW i,
             IsFolderAt(Listing(s, T(b)), i, b.folder)
      PROVE  FALSE
  <2> DEFINE q == b.folder
             M == Listing(s, T(b))
             K == Listing(rows, T(b))
  <2>1. q \in Seq(Nat) \ {NoFolder} /\ Len(q) \in Nat /\ (Len(q) = 1 \/ Len(q) > 1)
    BY <1>0, <1>9, FolderPaths
  <2>2. PICK c : Chain(M, q, c) /\ c[Len(q)] = i
    BY <1>9, ChainAt
  <2>3. FoldersKept(rows, s, n)
    BY WritesKeepFolders
  <2>4. \A k \in 1 .. Len(q) : c[k] \in FolderRows(M)
    BY <2>2 DEF Chain
  <2>5. \A x \in FolderRows(M) : /\ x \in DOMAIN rows \cup {n} /\ M[x] = s[x]
                                 /\ s[x].section = T(b) /\ s[x].masterSubnetId # n
    <3> TAKE x \in FolderRows(M)
    <3>1. x \in DOMAIN s /\ M[x] = s[x] /\ s[x].section = T(b)
      BY DEF FolderRows, Listing
    <3> HIDE DEF M, K
    <3> QED BY <1>2, <1>3, <1>4, <3>1
  <2>6. ASSUME \A k \in 1 .. Len(q) : c[k] # n PROVE FALSE
    <3>1. \A k \in 1 .. Len(q) : c[k] \in DOMAIN rows
      BY <2>4, <2>5, <2>6
    <3>2. IsFolderAt(K, i, q)
      BY <2>1, <2>2, <2>3, <3>1, FoldersStayPut, ChainAt
    <3> QED BY <1>9, <3>2 DEF NewFolders
  <2>7. PICK k \in 1 .. Len(q) : c[k] = n
    BY <2>6
  <2>8. \A x \in 2 .. Len(q) : M[c[x]].masterSubnetId = c[x - 1]
    BY <2>2 DEF Chain
  <2>9. \A x \in 1 .. Len(q) : x < Len(q) => c[x] # n
    <3> SUFFICES ASSUME NEW x \in 1 .. Len(q), x < Len(q) PROVE c[x] # n
      OBVIOUS
    <3>1. x + 1 \in 2 .. Len(q) /\ (x + 1) - 1 = x /\ x + 1 \in 1 .. Len(q)
      BY <2>1
    <3> QED BY <2>4, <2>5, <2>8, <3>1
  <2>10. c[Len(q)] = n
    BY <2>1, <2>7, <2>9
  <2>11. T(b) = t /\ M[n] = s[n] /\ q[Len(q)] = p[m]
    <3>1. Len(q) \in 1 .. Len(q)
      BY <2>1
    <3>2. M[c[Len(q)]].name = q[Len(q)]
      BY <2>2, <3>1 DEF Chain
    <3> QED BY <1>4, <2>4, <2>5, <2>10, <3>1, <3>2
  <2>12. K = L /\ FolderRows(L) \subseteq FolderRows(M) /\ None \notin FolderRows(M)
    <3>1. K = L
      BY <2>11 DEF L
    <3>2. \A x \in FolderRows(L) : x \in DOMAIN rows /\ rows[x].section = t /\ rows[x].isFolder
      BY DEF L, FolderRows, Listing
    <3>3. \A x \in DOMAIN s : s[x].section = t /\ s[x].isFolder => x \in FolderRows(M)
      BY <2>11 DEF FolderRows, Listing
    <3>4. None \notin FolderRows(M)
      BY <1>2, <2>5
    <3> HIDE DEF K, M
    <3> QED BY <1>4, <3>1, <3>2, <3>3, <3>4
  <2>13. p = q
    <3>1. CASE Len(q) = 1
      <4>1. M[c[1]].masterSubnetId \notin FolderRows(M)
        BY <2>2 DEF Chain
      <4>2. parent \notin FolderRows(M)
        BY <1>4, <2>10, <2>11, <3>1, <4>1
      <4>3. m = 1
        BY <1>1, <1>5, <2>12, <4>2
      <4> QED BY <1>1, <2>1, <2>11, <3>1, <4>3
    <3>2. CASE Len(q) > 1
      <4> DEFINE d == [x \in 1 .. (Len(q) - 1) |-> c[x]]
      <4>0. Len(q) \in 2 .. Len(q)
        BY <2>1, <3>2
      <4>1. M[c[Len(q)]].masterSubnetId = c[Len(q) - 1]
        BY <2>8, <4>0
      <4>2. parent = c[Len(q) - 1]
        BY <1>4, <2>10, <2>11, <4>1
      <4>3. Len(q) - 1 \in 1 .. Len(q) /\ Len(q) - 1 \in 1 .. (Len(q) - 1)
        BY <2>1, <3>2
      <4>4. parent \in FolderRows(M)
        BY <2>4, <4>2, <4>3
      <4>5. m > 1
        BY <1>1, <1>6, <2>12, <4>4
      <4>6. Chain(M, Above(q), d)
        BY <2>1, <2>2, <3>2, ChainAbove
      <4>7. Above(q) \in Seq(Nat) \ {NoFolder} /\ Len(Above(q)) = Len(q) - 1
        BY <2>1, <3>2, AbovePath
      <4>8. \A x \in 1 .. (Len(q) - 1) : d[x] \in DOMAIN rows
        <5> TAKE x \in 1 .. (Len(q) - 1)
        <5>1. x \in 1 .. Len(q) /\ x < Len(q) /\ d[x] = c[x]
          BY <2>1
        <5> QED BY <2>4, <2>5, <2>9, <5>1
      <4>9. d[Len(q) - 1] = parent
        BY <4>2, <4>3
      <4> HIDE DEF d
      <4>10. Chain(K, Above(q), d)
        BY <2>3, <4>6, <4>7, <4>8, FoldersStayPut
      <4>11. IsFolderAt(L, parent, Above(q))
        BY <2>12, <4>7, <4>9, <4>10, ChainAt
      <4>12. Above(p) = Above(q)
        BY <1>1, <1>5, <4>5, <4>7, <4>11, AbovePath, PathsDiffer
      <4>13. m = Len(q)
        <5>1. Len(Above(p)) = m - 1
          BY <1>1, <4>5, AbovePath
        <5> QED BY <1>1, <2>1, <4>7, <4>12, <5>1
      <4>14. \A x \in 1 .. m : p[x] = q[x]
        <5> TAKE x \in 1 .. m
        <5>1. CASE x = m
          BY <2>11, <4>13, <5>1
        <5>2. CASE x # m
          <6>1. x \in 1 .. (m - 1)
            BY <1>1, <5>2
          <6>2. Above(p)[x] = p[x] /\ Above(q)[x] = q[x]
            BY <1>1, <2>1, <3>2, <4>5, <4>13, <6>1, AbovePath
          <6> QED BY <4>12, <6>2
        <5> QED BY <5>1, <5>2
      <4> QED BY <1>1, <2>1, <4>13, <4>14, SamePath
    <3> QED BY <2>1, <3>1, <3>2
  <2> QED BY <1>9, <2>11, <2>13 DEF NewFolders
<1>10. NewFolders(pending \ {a}, s)
  BY <1>9 DEF NewFolders
<1> QED BY <1>8, <1>10

\* No two sections of the source map to one section of the target.
SectionsApart == \A s, t \in Section : TargetOf[s] = TargetOf[t] => s = t

\* The action that the planner makes for path p of section s.
FolderAction(s, p) ==
  [Blank("create_folder", s, << 2, s, Len(p), 0, 0 >>) EXCEPT !.folder = p]

LEMMA PlannedFolder ==
  ASSUME NEW s, SnapshotOK(s), NEW r, RowsOK(r), NEW S, NEW deleting \in BOOLEAN,
         NEW a \in Plan(s, S, r, deleting), a.kind = "create_folder"
  PROVE  /\ a = FolderAction(a.section, a.folder)
         /\ a.section \in Section /\ a.section \in s.sections /\ a.folder \in s.folders[a.section]
         /\ a.folder \in FolderPath /\ a.folder \notin FoldersOf(Listing(r, T(a)))
<1> DEFINE docs == Ordered(s.documents)
<1>1. docs \in SUBSET Document
  BY DEF SnapshotOK, Ordered
<1> HIDE DEF docs
<1>2. /\ Writes(SubnetCreates(docs, r), "create_subnet", docs)
      /\ Writes(SubnetUpdates(docs, r), "update_subnet", docs)
      /\ Writes(Detaches(docs, r), "detach_subnet", docs)
      /\ Writes(Reparents(docs, r), "reparent_subnet", docs)
      /\ Writes(AddressCreates(docs, r), "create_address", docs)
      /\ Writes(AddressUpdates(docs, r), "update_address", docs)
  BY <1>1, SubnetWrites, AddressWrites
<1>3. /\ SectionCreates(s, S) \subseteq {b \in Action : b.kind = "create_section"}
      /\ Deletes(s, r) \subseteq {b \in Action : b.kind \in DeleteKind}
  BY OtherActions
<1>4. a \in FolderCreates(s, r)
  BY <1>2, <1>3 DEF Writes, DeleteKind, Plan, docs
<1>5. PICK x \in s.sections : \E p \in s.folders[x] \ FoldersOf(Listing(r, TargetOf[x])) :
        a = [Blank("create_folder", x, << 2, x, Len(p), 0, 0 >>) EXCEPT !.folder = p]
  BY <1>4 DEF FolderCreates
<1>6. PICK p \in s.folders[x] \ FoldersOf(Listing(r, TargetOf[x])) :
        a = [Blank("create_folder", x, << 2, x, Len(p), 0, 0 >>) EXCEPT !.folder = p]
  BY <1>5
<1>7. x \in Section /\ p \in FolderPath
  BY DEF SnapshotOK
<1>8. a.section = x /\ a.folder = p
  BY <1>6 DEF Blank
<1> QED BY <1>6, <1>7, <1>8 DEF T, FolderAction

\* What build_plan plans to create is new.
LEMMA PlannedFoldersAreNew ==
  ASSUME SectionsApart,
         NEW s, SnapshotOK(s), NEW r, RowsOK(r), NEW S, NEW deleting \in BOOLEAN
  PROVE  NewFolders(Plan(s, S, r, deleting), r)
<1> SUFFICES ASSUME NEW a \in Plan(s, S, r, deleting), a.kind = "create_folder"
             PROVE  /\ \A i : ~ IsFolderAt(Listing(r, T(a)), i, a.folder)
                    /\ \A b \in Plan(s, S, r, deleting) :
                         (b.kind = "create_folder" /\ T(b) = T(a) /\ b.folder = a.folder) => a = b
  BY DEF NewFolders
<1>1. a.folder \in FolderPath /\ a.folder \notin FoldersOf(Listing(r, T(a)))
  BY PlannedFolder
<1>2. ASSUME NEW i, IsFolderAt(Listing(r, T(a)), i, a.folder) PROVE FALSE
  <2> DEFINE L == Listing(r, T(a))
  <2>1. PICK c : Chain(L, a.folder, c) /\ c[Len(a.folder)] = i
    BY <1>2, ChainAt
  <2>2. a.folder \in Seq(Nat) \ {NoFolder}
    BY <1>1, PlanAssumption DEF PlanAssumption
  <2>3. Len(a.folder) \in 1 .. Len(a.folder)
    BY <2>2, PathLength
  <2>4. i \in FolderRows(L)
    BY <2>1, <2>3 DEF Chain
  <2> QED BY <1>1, <1>2, <2>4 DEF FoldersOf
<1>3. ASSUME NEW b \in Plan(s, S, r, deleting), b.kind = "create_folder",
             T(b) = T(a), b.folder = a.folder
      PROVE  a = b
  <2>1. a.section \in Section /\ b.section \in Section
    BY <1>3, PlannedFolder
  <2>2. a.section = b.section
    BY <1>3, <2>1 DEF SectionsApart, T
  <2>3. a = FolderAction(a.section, a.folder)
    BY PlannedFolder
  <2>4. b = FolderAction(b.section, b.folder)
    BY <1>3, PlannedFolder
  <2> QED BY <1>3, <2>2, <2>3, <2>4
<1> QED BY <1>2, <1>3

\* No handler creates a folder where there is one.
LEMMA HandlersKeepFoldersOnce ==
  ASSUME TypeOK, IdsTrueNow, Housed(target), FoldersStayTrue,
         UniqueFolders(rows), NewFolders(pending, rows), NEW a \in pending, Handle(a)
  PROVE  UniqueFolders(rows') /\ NewFolders(pending \ {a}, rows')
<1>0. a \in Action /\ pending \ {a} \in SUBSET Action /\ NewFolders(pending \ {a}, rows)
  BY DEF TypeOK, NewFolders
<1>1. CASE a.kind = "create_folder"
  BY <1>0, <1>1, FolderCreated, FolderEntered
<1>2. CASE a.kind # "create_folder"
  <2>1. PICK after, looked, dropped, fresh : Ended(a, after, looked, dropped, fresh)
    BY HandlerEnds
  <2>2. CASE target' = target
    BY <1>0, <2>2 DEF rows
  <2>3. CASE Effect(a, after, looked, dropped, fresh) /\ target' = after
    <3> DEFINE n == target.nextId
               s == after.rows
    <3>1. rows' = s /\ FoldersKept(rows, s, n) /\ n \notin DOMAIN rows
      BY <1>0, <2>3, EffectKeepsFolders, TargetFacts DEF rows
    <3>2. n \in DOMAIN s => ~ s[n].isFolder
      <4>1. CASE DOMAIN s \subseteq DOMAIN rows
        BY <3>1, <4>1
      <4>2. CASE Entered(a, after)
        <5>1. PICK row : Creates(a, row) /\ s = Put(rows, n, row)
          BY <4>2 DEF Entered
        <5>2. ~ row.isFolder
          BY <1>2, <5>1 DEF Creates, SubnetRow
        <5> QED BY <5>1, <5>2 DEF Put
      <4>3. CASE Changed(a, after, looked, fresh)
        BY <4>1, <4>3 DEF Changed
      <4>4. CASE TakenOut(a, after)
        BY <4>1, <4>4 DEF TakenOut, RowsWithout
      <4> QED BY <1>0, <2>3, <4>1, <4>2, <4>3, <4>4, EffectOnRows
    <3> HIDE DEF n, s
    <3> QED BY <1>0, <3>1, <3>2, NoFolderEntered
  <2> QED BY <2>1, <2>2, <2>3 DEF Ended
<1> QED BY <1>1, <1>2

LEMMA FoldersOnceKept ==
  ASSUME SectionsApart, TypeOK, Unmeddled, FoldersTrueNow, FoldersOnce, [Next]_vars
  PROVE  FoldersOnce'
<1>0. edits \in Nat
  BY ImportAssumption DEF TypeOK, ImportAssumption
<1> SUFFICES ASSUME edits' = 0
             PROVE  UniqueFolders(rows') /\ NewFolders(pending', rows')
  BY DEF FoldersOnce
<1>1. CASE StartRun
  <2>1. target' = target /\ edits' = edits
    BY <1>1 DEF StartRun
  <2>2. rows' = rows /\ UniqueFolders(rows) /\ NewFolders(pending, rows)
    BY <2>1 DEF FoldersOnce, rows
  <2>3. NewFolders(pending', rows)
    <3>1. CASE RefusedAs = "none"
      <4>1. pending' = Plan(snap, sects, rows, mode # "additive")
        BY <1>1, <3>1 DEF StartRun
      <4>2. (mode # "additive") \in BOOLEAN
        OBVIOUS
      <4> QED BY <4>1, <4>2, PlanInputs, PlannedFoldersAreNew
    <3>2. CASE RefusedAs # "none"
      BY <1>1, <2>2, <3>2 DEF StartRun
    <3> QED BY <3>1, <3>2
  <2> QED BY <2>2, <2>3
<1>2. CASE Execute
  <2>1. PICK a \in pending : Handle(a)
    BY <1>2 DEF Execute
  <2>2. pending' = pending \ {a} /\ edits' = edits
    BY <2>1, HandledIsTaken DEF Taken
  <2>3. /\ UniqueFolders(rows) /\ NewFolders(pending, rows) /\ Housed(target)
        /\ IdsTrueNow /\ FoldersStayTrue
    BY <2>2 DEF FoldersOnce, Unmeddled, FoldersTrueNow
  <2> QED BY <2>1, <2>2, <2>3, HandlersKeepFoldersOnce
<1>3. CASE FinishRun \/ Crash
  BY <1>3 DEF FinishRun, Crash, ProcessEnds, FoldersOnce, NewFolders, rows
<1>4. CASE Operator
  BY <1>4, OperatorCounts
<1>5. CASE Deliver \/ ConfirmEmpty
  BY <1>5 DEF Deliver, ConfirmEmpty, FoldersOnce, rows
<1>6. CASE UNCHANGED vars
  BY <1>6 DEF vars, FoldersOnce, rows
<1> QED BY <1>1, <1>2, <1>3, <1>4, <1>5, <1>6 DEF Next

LEMMA FoldersOnceInvariant ==
  ASSUME SectionsApart, \A t \in Targets : UniqueFolders(t.rows)
  PROVE  Spec => []FoldersOnce
<1>1. Init => FoldersOnce
  BY DEF Init, FoldersOnce, NewFolders, rows
<1>2. TypeOK /\ Unmeddled /\ FoldersTrueNow /\ FoldersOnce /\ [Next]_vars
        => FoldersOnce'
  BY FoldersOnceKept
<1> QED BY <1>1, <1>2, TypeCorrect, UnmeddledInvariant, FoldersTrueInvariant, PTL DEF Spec

\* Where operators keep their hands off: a write whose answer was lost is repeated by
\* no later handler and by no later run, and neither is one that a run was killed
\* after; no handler enters a subnet or a folder that is there already, whether
\* phpIPAM would accept it or not (build_plan in ipamsync/plan.py, _do_create_subnet
\* and _do_create_folder in ipamsync/target.py).  Of the configuration it is assumed
\* that it maps no two sections to one, and of the targets a behaviour starts from
\* that they hold nothing twice.
THEOREM NothingIsEnteredTwice ==
  ASSUME MaxEdits = 0, SectionsApart,
         \A t \in Targets : Unique(t.rows) /\ UniqueFolders(t.rows)
  PROVE  Spec => NeverDuplicates
<1> DEFINE Once ==
      \A i \in DOMAIN rows' \ DOMAIN rows : \A j \in DOMAIN rows' \ {i} :
         ~ /\ rows'[i].section = rows'[j].section
           /\ rows'[i].isFolder = rows'[j].isFolder
           /\ rows'[i].cidr = rows'[j].cidr
           /\ rows'[i].isFolder =>
                /\ rows'[i].name = rows'[j].name
                /\ rows'[i].masterSubnetId = rows'[j].masterSubnetId
<1>1. TypeOK' /\ NetworksOnce' /\ FoldersOnce' => Once
  <2> SUFFICES ASSUME TypeOK', NetworksOnce', FoldersOnce' PROVE Once
    OBVIOUS
  <2>1. edits' = 0
    BY DEF TypeOK
  <2>2. Unique(rows') /\ UniqueFolders(rows')
    BY <2>1 DEF NetworksOnce, FoldersOnce
  <2>3. \A i \in DOMAIN rows' : rows'[i].isFolder \in BOOLEAN
    BY DEF TypeOK, TargetType, TableType, rows, Row
  <2> QED BY <2>2, <2>3 DEF Unique, UniqueFolders
<1>2. TypeOK' /\ NetworksOnce' /\ FoldersOnce' => [Execute => Once]_vars
  BY <1>1
<1>3. Spec => []NetworksOnce
  BY NetworksOnceInvariant
<1>4. Spec => []FoldersOnce
  BY FoldersOnceInvariant
<1> QED BY <1>2, <1>3, <1>4, TypeCorrect, PTL DEF Spec, NeverDuplicates

(***************************************************************************)
(* Only orphans go.  A planned deletion names a subnet that no document    *)
(* has, the row it takes is of that name or a folder, and the snapshot     *)
(* does not change while a plan is carried out.                            *)
(***************************************************************************)
\* A planned deletion of a subnet is one that the planner finds orphaned.
LEMMA PlannedSubnetDeletion ==
  ASSUME NEW s, SnapshotOK(s), NEW r, RowsOK(r), NEW S, NEW deleting \in BOOLEAN,
         NEW a \in Plan(s, S, r, deleting), a.kind = "delete_subnet"
  PROVE  /\ \A d \in Ordered(s.documents) : ~ (d.section = a.section /\ d.cidr = a.cidr)
         /\ \E d \in Ordered(s.documents) : d.section = a.section
         /\ deleting
<1> DEFINE docs == Ordered(s.documents)
<1>1. docs \in SUBSET Document
  BY DEF SnapshotOK, Ordered
<1> HIDE DEF docs
<1>2. /\ Writes(SubnetCreates(docs, r), "create_subnet", docs)
      /\ Writes(SubnetUpdates(docs, r), "update_subnet", docs)
      /\ Writes(Detaches(docs, r), "detach_subnet", docs)
      /\ Writes(Reparents(docs, r), "reparent_subnet", docs)
      /\ Writes(AddressCreates(docs, r), "create_address", docs)
      /\ Writes(AddressUpdates(docs, r), "update_address", docs)
  BY <1>1, SubnetWrites, AddressWrites
<1>3. /\ SectionCreates(s, S) \subseteq {b \in Action : b.kind = "create_section"}
      /\ FolderCreates(s, r) \subseteq {b \in Action : b.kind = "create_folder"}
  BY OtherActions
<1>4. /\ a \in AddressOrphans(docs, r) \cup SubnetOrphans(docs, r) \cup FolderOrphans(s, r)
      /\ deleting
  BY <1>2, <1>3 DEF Writes, Plan, Deletes, docs
<1>5. a \notin AddressOrphans(docs, r)
  <2> SUFFICES ASSUME NEW d \in docs, NEW ip \in Ip, a = OnAddress("delete_address", d, docs, 4, ip)
               PROVE  FALSE
    BY DEF AddressOrphans
  <2> DEFINE o == OnSubnet("delete_address", d, docs, 4, 2, ip)
  <2>1. o \in Action /\ o.kind = "delete_address"
    BY <1>1, OnSubnetType DEF ActionKind, SubnetlessKind
  <2> HIDE DEF o
  <2>2. [o EXCEPT !.fields = d.addresses[ip]].kind = "delete_address"
    BY <2>1 DEF Action, ActionRecord
  <2> QED BY <2>2 DEF OnAddress, o
<1>6. a \notin FolderOrphans(s, r)
  <2> SUFFICES ASSUME a \in FolderOrphans(s, r) PROVE FALSE
    OBVIOUS
  <2>1. PICK x \in s.sections : \E p \in FoldersOf(Listing(r, TargetOf[x])) \ s.folders[x] :
          a = [Blank("delete_folder", x, << 6, - Len(p), x, 0, 0 >>) EXCEPT !.folder = p]
    BY DEF FolderOrphans
  <2> QED BY <2>1 DEF Blank
<1>7. PICK x \in {d.section : d \in docs} :
        \E c \in CidrsOf(Listing(r, TargetOf[x])) \ {d.cidr : d \in {e \in docs : e.section = x}} :
          a = [Blank("delete_subnet", x, << 5, - PrefixLen[c], x, c, 0 >>) EXCEPT !.cidr = c]
  BY <1>4, <1>5, <1>6, SMTT(30) DEF SubnetOrphans
<1>8. PICK c \in CidrsOf(Listing(r, TargetOf[x])) \ {d.cidr : d \in {e \in docs : e.section = x}} :
        a = [Blank("delete_subnet", x, << 5, - PrefixLen[c], x, c, 0 >>) EXCEPT !.cidr = c]
  BY <1>7
<1>9. a.section = x /\ a.cidr = c
  BY <1>8 DEF Blank
<1>10. /\ \A d \in docs : ~ (d.section = a.section /\ d.cidr = a.cidr)
       /\ \E d \in docs : d.section = a.section
  BY <1>7, <1>8, <1>9
<1> QED BY <1>4, <1>10 DEF docs

\* As long as a plan is carried out, what it deletes is not listed.
OrphansPlanned ==
  /\ ~ running => pending = {}
  /\ MatchedBySection

LEMMA OrphansPlannedInvariant ==
  ASSUME \A s \in Snapshots : Apart(s)
  PROVE  Spec => []OrphansPlanned
<1> USE DEF OrphansPlanned, MatchedBySection
<1>1. Init => OrphansPlanned
  BY DEF Init
<1>2. TypeOK /\ OrphansPlanned /\ [Next]_vars => OrphansPlanned'
  <2> SUFFICES ASSUME TypeOK, OrphansPlanned, [Next]_vars
               PROVE  OrphansPlanned'
    OBVIOUS
  <2>1. CASE StartRun
    <3>1. snap' = snap
      BY <2>1 DEF StartRun
    <3>2. CASE RefusedAs = "none"
      <4>1. running' = TRUE /\ pending' = Plan(snap, sects, rows, mode # "additive")
        BY <2>1, <3>2 DEF StartRun
      <4>2. Ordered(snap.documents) = snap.documents
        BY PlanInputs, ApartIsOrdered DEF TypeOK
      <4>3. (mode # "additive") \in BOOLEAN
        OBVIOUS
      <4>4. ASSUME NEW a \in pending', a.kind = "delete_subnet"
            PROVE  \A d \in snap.documents : ~ (d.section = a.section /\ d.cidr = a.cidr)
        <5> DEFINE deleting == mode # "additive"
        <5>1. deleting \in BOOLEAN /\ a \in Plan(snap, sects, rows, deleting)
          BY <4>1, <4>3, <4>4
        <5> HIDE DEF deleting
        <5>2. \A d \in Ordered(snap.documents) : ~ (d.section = a.section /\ d.cidr = a.cidr)
          BY <4>4, <5>1, PlanInputs, PlannedSubnetDeletion
        <5> QED BY <4>2, <5>2
      <4> QED BY <3>1, <4>1, <4>4
    <3>3. CASE RefusedAs # "none"
      BY <2>1, <3>1, <3>3 DEF StartRun
    <3> QED BY <3>2, <3>3
  <2>2. CASE Execute
    <3>1. running /\ pending' \subseteq pending /\ snap' = snap /\ running' = running
      BY <2>2, HandledIsTaken DEF Execute, Taken
    <3> QED BY <3>1
  <2>3. CASE FinishRun \/ Crash
    BY <2>3 DEF FinishRun, Crash, ProcessEnds
  <2>4. CASE Operator
    BY <2>4, OperatorCounts
  <2>5. CASE Deliver \/ ConfirmEmpty
    BY <2>5 DEF Deliver, ConfirmEmpty
  <2>6. CASE UNCHANGED vars
    BY <2>6 DEF vars
  <2> QED BY <2>1, <2>2, <2>3, <2>4, <2>5, <2>6 DEF Next
<1> QED BY <1>1, <1>2, TypeCorrect, PTL DEF Spec

\* Where no CIDR is documented in two sections, subnets do match on section and CIDR
\* (plan.py:77): one that has a document is never planned to be deleted, whatever is
\* edited or delivered since (MCShared shows the case that is excluded).
THEOREM ApartIsMatched ==
  ASSUME \A s \in Snapshots : Apart(s)
  PROVE  Spec => []MatchedBySection
<1>1. Spec => []OrphansPlanned
  BY OrphansPlannedInvariant
<1>2. OrphansPlanned => MatchedBySection
  BY DEF OrphansPlanned
<1> QED BY <1>1, <1>2, PTL

\* The row that a deletion names is an orphan, or a folder, or was renumbered.
LEMMA NamedIsOrphan ==
  ASSUME SectionsApart, TypeOK, IdsStayTrue, OrphansPlanned, NEW a \in pending,
         NEW after, NEW id, Removed(a, id, after), id \notin renumbered
  PROVE  /\ rows[id].isFolder \/ ~ Documented(id)
         /\ a.kind = "delete_subnet" => ~ rows[id].isFolder
         /\ rows[id].section = T(a)
<1>1. a \in Action /\ id # None /\ id \in DOMAIN rows \ renumbered
  BY DEF TypeOK, Removed
<1>2. CASE a.kind = "delete_subnet"
  <2>1. a.cidr \in Cidr /\ id = SubnetId(Listed(T(a), "subnets"), a.cidr)
    BY <1>1, <1>2, ActionFacts DEF Removed, SubnetlessKind
  <2>2. rows[id].section = T(a) /\ rows[id].cidr = a.cidr
    BY <1>1, <2>1, FoundIsNamed
  <2>3. rows[id] \in Row /\ a.cidr # None
    BY <1>1, <1>2, TargetFacts DEF TableType, Action, SubnetlessKind
  <2>4. ~ rows[id].isFolder
    BY <2>2, <2>3 DEF Row
  <2>5. ~ \E d \in snap.documents : d.section = a.section /\ d.cidr = a.cidr
    BY <1>2 DEF OrphansPlanned, MatchedBySection
  <2>6. a.section \in Section /\ \A d \in snap.documents : d.section \in Section
    BY <1>1, PlanInputs DEF SnapshotOK, Document, Action, ActionRecord
  <2> QED BY <2>2, <2>4, <2>5, <2>6 DEF SectionsApart, Documented, T
<1>3. CASE a.kind = "delete_folder"
  BY <1>1, <1>3, FoundIsNamed DEF Removed, FoundFolder
<1> QED BY <1>2, <1>3 DEF Removed

\* What is below a row that was renumbered, or that is in another section, is not
\* settled; and neither is what is below that.
LEMMA UnsettledBelow ==
  ASSUME NEW i \in DOMAIN rows, NEW k \in Below(i), i \in renumbered \/ rows[i].section # rows[k].section
  PROVE  k \in DOMAIN rows /\ ~ Settled(k)
BY DEF Settled, Below

LEMMA UnsettledChild ==
  ASSUME NEW k \in DOMAIN rows, ~ Settled(k), NEW c \in DOMAIN rows, rows[c].masterSubnetId = k
  PROVE  ~ Settled(c)
<1>1. PICK j \in DOMAIN rows : k \in Below(j) /\ (j \in renumbered \/ rows[j].section # rows[k].section)
  BY DEF Settled
<1>2. c \in Below(j) /\ c \in Below(k)
  BY <1>1, BelowIsClosed, BelowItself
<1>3. CASE j \in renumbered \/ rows[j].section # rows[c].section
  BY <1>1, <1>2, <1>3 DEF Settled
<1>4. CASE rows[k].section # rows[c].section
  BY <1>2, <1>4 DEF Settled
<1> QED BY <1>1, <1>3, <1>4

\* A row that goes with a folder that was found empty was put there since, or is not
\* settled.
LEMMA BelowFoundEmpty ==
  ASSUME Window, NEW a \in foundEmpty, NEW id \in DOMAIN rows, id = FoundFolder(a),
         rows[id].section = T(a), NEW i \in Below(id), i # id
  PROVE  i \in filed \/ ~ Settled(i)
<1> DEFINE S == {k \in DOMAIN rows : k = id \/ k \in filed \/ ~ Settled(k)}
<1>1. ASSUME NEW k \in DOMAIN rows, rows[k].masterSubnetId \in S
      PROVE  k \in S
  <2> DEFINE m == rows[k].masterSubnetId
  <2>1. CASE m = id
    <3>1. k \in filed \/ rows[k].section # T(a)
      BY <2>1 DEF Window, FolderWindow
    <3>2. k \in Below(id)
      BY <2>1, BelowIsClosed, BelowItself
    <3>3. rows[k].section # T(a) => ~ Settled(k)
      BY <3>2, UnsettledBelow
    <3> QED BY <3>1, <3>3
  <2>2. CASE m \in filed
    BY <2>2 DEF Window, FolderWindow
  <2>3. CASE ~ Settled(m) /\ m \in DOMAIN rows
    BY <2>3, UnsettledChild
  <2> QED BY <1>1, <2>1, <2>2, <2>3
<1>2. S \in SUBSET DOMAIN rows /\ id \in S
  OBVIOUS
<1> HIDE DEF S
<1>3. i \in S
  BY <1>1, <1>2 DEF Below
<1> QED BY <1>3 DEF S

\* Where phpIPAM does not cascade from a subnet, a row that a handler takes out is an
\* orphan, or a folder, or was put into a folder since it was found empty, or is not
\* settled.
LEMMA RemovedIsOrphan ==
  ASSUME SectionsApart, TypeOK, IdsStayTrue, Window, OrphansPlanned, Execute,
         NEW i \in DOMAIN rows \ DOMAIN rows'
  PROVE  \/ rows[i].isFolder \/ ~ Documented(i) \/ i \in filed \/ ~ Settled(i)
         \/ /\ CascadeSubnets
            /\ \E j \in (DOMAIN rows \ DOMAIN rows') \ {i} :
                 i \in Below(j) /\ ~ rows[j].isFolder /\ ~ Documented(j)
<1>1. PICK a \in pending : Handle(a)
  BY DEF Execute
<1>2. PICK after, looked, dropped, fresh : Ended(a, after, looked, dropped, fresh)
  BY <1>1, HandlerEnds
<1>3. a \in Action
  BY DEF TypeOK
<1>4. Effect(a, after, looked, dropped, fresh) /\ rows' = after.rows
  BY <1>2 DEF Ended, rows
<1>5. PICK id : Removed(a, id, after)
  <2>1. CASE DOMAIN rows \subseteq DOMAIN after.rows
    BY <1>4, <2>1
  <2>2. CASE Entered(a, after)
    BY <2>1, <2>2 DEF Entered, Put
  <2>3. CASE Touched(a, after, looked, fresh)
    BY <2>1, <2>3 DEF Touched
  <2> QED BY <1>3, <1>4, <2>1, <2>2, <2>3, EffectOnTable
<1>6. id \in DOMAIN rows /\ rows' = RowsWithout(id)
  BY <1>4, <1>5 DEF Removed
<1>7. i \in Below(id)
  BY <1>6, BelowItself DEF RowsWithout
<1>8. CASE id \in renumbered
  BY <1>6, <1>7, <1>8, UnsettledBelow
<1>9. CASE id \notin renumbered /\ i = id
  BY <1>5, <1>9, NamedIsOrphan
<1>10. CASE id \notin renumbered /\ i # id /\ rows[id].isFolder
  <2>1. a.kind = "delete_folder" /\ id = FoundFolder(a) /\ a \in foundEmpty /\ rows[id].section = T(a)
    BY <1>5, <1>10, NamedIsOrphan DEF Removed
  <2> QED BY <1>6, <1>7, <1>10, <2>1, BelowFoundEmpty
<1>11. CASE id \notin renumbered /\ i # id /\ ~ rows[id].isFolder
  <2>1. CascadeSubnets
    BY <1>6, <1>11 DEF RowsWithout
  <2>2. id \in (DOMAIN rows \ DOMAIN rows') \ {i}
    BY <1>6, <1>11, BelowItself DEF RowsWithout
  <2>3. ~ Documented(id)
    BY <1>5, <1>11, NamedIsOrphan
  <2> QED BY <1>7, <1>11, <2>1, <2>2, <2>3
<1> QED BY <1>8, <1>9, <1>10, <1>11

\* So is one that a handler takes out alone in a run that nobody disturbs.
LEMMA RemovedAloneIsOrphan ==
  ASSUME SectionsApart, TypeOK, IdsTrueNow, OrphansPlanned, Execute,
         \A i, j \in DOMAIN rows \ DOMAIN rows' : i = j,
         NEW i \in DOMAIN rows \ DOMAIN rows'
  PROVE  rows[i].isFolder \/ ~ Documented(i)
<1>1. PICK a \in pending : Handle(a)
  BY DEF Execute
<1>2. PICK after, looked, dropped, fresh : Ended(a, after, looked, dropped, fresh)
  BY <1>1, HandlerEnds
<1>3. a \in Action /\ IdsStayTrue /\ renumbered = {}
  BY DEF TypeOK, IdsTrueNow
<1>4. Effect(a, after, looked, dropped, fresh) /\ rows' = after.rows
  BY <1>2 DEF Ended, rows
<1>5. PICK id : Removed(a, id, after)
  <2>1. CASE DOMAIN rows \subseteq DOMAIN after.rows
    BY <1>4, <2>1
  <2>2. CASE Entered(a, after)
    BY <2>1, <2>2 DEF Entered, Put
  <2>3. CASE Touched(a, after, looked, fresh)
    BY <2>1, <2>3 DEF Touched
  <2> QED BY <1>3, <1>4, <2>1, <2>2, <2>3, EffectOnTable
<1>6. id \in DOMAIN rows /\ rows' = RowsWithout(id)
  BY <1>4, <1>5 DEF Removed
<1>7. id \notin DOMAIN rows'
  BY <1>6, BelowItself DEF RowsWithout
<1>8. i = id
  BY <1>6, <1>7
<1> QED BY <1>3, <1>5, <1>8, NamedIsOrphan
=============================================================================
