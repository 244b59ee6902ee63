----------------------------- MODULE PoolProofs -----------------------------
(***************************************************************************)
(* For any sheet, any models.yaml and any number of commands: a sync that  *)
(* reaches its end undisturbed leaves exactly the pool it read, an         *)
(* undisturbed validation of distinct models whose probes all come back    *)
(* turns off the empty models only, and what build_pool writes for a pair  *)
(* is a filter of that pair that has cars, if there is one, in one item    *)
(* for each pair of the sheet.                                             *)
(***************************************************************************)
EXTENDS Pool, DataLemmas, FiniteSetTheorems, TLAPS

(* The first n items are in the table, the later of two with one slug.     *)
Copied(tab, items, n) ==
    \A j \in DOMAIN items :
        j <= n /\ (\A i \in j + 1 .. n : items[i].slug # items[j].slug)
            => tab[items[j].slug] = [on |-> items[j].on, q |-> items[j].q]

GoneFrom(tab, items) ==
    {s \in Slugs : tab[s] # NoRow /\ tab[s].on /\ s \notin SlugsOf(items)}

(* What a sync knows about the table.                                      *)
Fits(tab, c) ==
    /\ c.k <= Len(c.items) + 1
    /\ \A s \in c.gone : tab[s] # NoRow
    /\ c.at = "write" =>
          /\ c.k <= Len(c.items) /\ c.items[c.k].q # Bad
          /\ c.loaded # NoRow => tab[c.items[c.k].slug] # NoRow
    /\ c.alone =>
          /\ Copied(tab, c.items, c.k - 1)
          /\ c.at = "write" => c.loaded = tab[c.items[c.k].slug]
          /\ c.at = "disable" => /\ c.k = Len(c.items) + 1
                                 /\ c.gone = GoneFrom(tab, c.items)

FileTyped(f) == f = Torn \/ f \in Seq(Item)

(* The strengthening: every sync fits the table.                           *)
IInv == /\ FileTyped(file)
        /\ table \in [Slugs -> Row \cup {NoRow}]
        /\ events \in Nat
        /\ DOMAIN proc = Procs
        /\ \A p \in Procs : \/ proc[p] = Off
                            \/ proc[p] \in FileCommand
                            \/ proc[p] \in SyncCommand /\ Fits(table, proc[p])

LEMMA InvTyped == IInv => TypeOK
BY DEF IInv, TypeOK, FileTyped, Fits, Off, FileCommand, SyncCommand

LEMMA InitIInv == Init => IInv
BY PoolAssumption DEF Init, IInv, FileTyped

(* The items of a file.                                                    *)
LEMMA ItemAt ==
    ASSUME NEW items \in Seq(Item), NEW k \in DOMAIN items
    PROVE  /\ items[k] \in Item
           /\ items[k].slug \in Slugs /\ items[k].on \in BOOLEAN
           /\ k \in 1 .. Len(items)
<1>1. items[k] \in Item /\ k \in 1 .. Len(items)
  OBVIOUS
<1> QED  BY <1>1 DEF Item

(* The kinds of commands are told apart.                                   *)
LEMMA SyncShape ==
    ASSUME IInv, NEW p \in Procs, proc[p].kind = "sync"
    PROVE  proc[p] \in SyncCommand /\ Fits(table, proc[p])
BY DEF IInv, Off, FileCommand

LEMMA FileShape ==
    ASSUME IInv, NEW p \in Procs, proc[p].kind = "file"
    PROVE  proc[p] \in FileCommand
BY DEF IInv, Off, SyncCommand

(* Writes to the file disturb commands of that kind, which stay such.      *)
LEMMA FileDisturbed ==
    ASSUME IInv, NEW r \in Procs, proc[r].kind = "file"
    PROVE  [proc[r] EXCEPT !.alone = FALSE] \in FileCommand
BY FileShape DEF FileCommand

-----------------------------------------------------------------------------
(* A step that leaves the table alone keeps what it does not touch.        *)
LEMMA TableKept ==
    ASSUME IInv, table' = table, FileTyped(file'), events' \in Nat,
           DOMAIN proc' = Procs,
           \A r \in Procs : \/ proc'[r] = proc[r]
                            \/ proc'[r] = Off
                            \/ proc'[r] \in FileCommand
                            \/ proc'[r] \in SyncCommand /\ Fits(table, proc'[r])
    PROVE  IInv'
<1> SUFFICES ASSUME NEW r \in Procs
             PROVE  \/ proc'[r] = Off
                    \/ proc'[r] \in FileCommand
                    \/ proc'[r] \in SyncCommand /\ Fits(table', proc'[r])
  <2>1. FileTyped(file') /\ table' \in [Slugs -> Row \cup {NoRow}]
    BY DEF IInv
  <2> QED  BY <2>1 DEF IInv
<1> QED  BY DEF IInv

(* A disturbed sync fits whatever another one has written: rows are never  *)
(* deleted.                                                                *)
LEMMA DisturbedFits ==
    ASSUME IInv, NEW r \in Procs, proc[r].kind = "sync", NEW tab,
           \A s \in Slugs : table[s] # NoRow => tab[s] # NoRow
    PROVE  /\ [proc[r] EXCEPT !.alone = FALSE] \in SyncCommand
           /\ Fits(tab, [proc[r] EXCEPT !.alone = FALSE])
<1>1. proc[r] \in SyncCommand /\ Fits(table, proc[r])
  BY SyncShape
<1> DEFINE c == [proc[r] EXCEPT !.alone = FALSE]
<1>2. /\ c \in SyncCommand /\ ~c.alone
      /\ c.k = proc[r].k /\ c.items = proc[r].items /\ c.gone = proc[r].gone
      /\ c.at = proc[r].at /\ c.loaded = proc[r].loaded
  BY <1>1 DEF SyncCommand
<1>3. c.at = "write" => c.items[c.k].slug \in Slugs
  <2>1. c.items \in Seq(Item) /\ c.k \in Nat \ {0}
    BY <1>2 DEF SyncCommand
  <2>2. c.at = "write" => c.k <= Len(c.items)
    BY <1>1, <1>2 DEF Fits
  <2>3. c.at = "write" => c.items[c.k] \in Item
    BY <2>1, <2>2
  <2> QED  BY <2>3 DEF Item
<1>4. c.gone \subseteq Slugs
  BY <1>2 DEF SyncCommand
<1> HIDE DEF c
<1>5. Fits(tab, c)
  BY <1>1, <1>2, <1>3, <1>4 DEF Fits
<1> QED  BY <1>2, <1>5 DEF c

(* A step of p that writes rows and leaves the command new behind.         *)
LEMMA TableWritten ==
    ASSUME IInv, NEW p \in Procs, proc[p].kind = "sync",
           table' \in [Slugs -> Row \cup {NoRow}],
           \A s \in Slugs : table[s] # NoRow => table'[s] # NoRow,
           UNCHANGED <<file, events>>,
           NEW new, new = Off \/ (new \in SyncCommand /\ Fits(table', new)),
           proc' = [Disturbed(p, "sync") EXCEPT ![p] = new]
    PROVE  IInv'
<1>1. proc'[p] = new /\ DOMAIN proc' = Procs
  BY DEF Disturbed
<1>2. \A r \in Procs \ {p} : proc'[r] = IF proc[r].kind = "sync"
                                        THEN [proc[r] EXCEPT !.alone = FALSE] ELSE proc[r]
  BY DEF Disturbed
<1>3. ASSUME NEW r \in Procs
      PROVE  \/ proc'[r] = Off
             \/ proc'[r] \in FileCommand
             \/ proc'[r] \in SyncCommand /\ Fits(table', proc'[r])
  <2>1. CASE r = p
    BY <1>1, <2>1
  <2>2. CASE r # p /\ proc[r].kind = "sync"
    <3>1. proc'[r] = [proc[r] EXCEPT !.alone = FALSE]
      BY <1>2, <2>2
    <3> QED  BY <2>2, <3>1, DisturbedFits
  <2>3. CASE r # p /\ proc[r].kind # "sync"
    BY <1>2, <2>3 DEF IInv, SyncCommand
  <2> QED  BY <2>1, <2>2, <2>3
<1>4. FileTyped(file')
  BY DEF IInv
<1> QED  BY <1>1, <1>3, <1>4 DEF IInv

-----------------------------------------------------------------------------
(* sync reads the file, and then a row for each item in turn.              *)
LEMMA ReadStep ==
    ASSUME IInv, NEW p \in Procs, StartSync(p) \/ SelectRow(p)
    PROVE  IInv'
<1>1. CASE StartSync(p)
  <2> DEFINE new == [kind |-> "sync", at |-> "select", items |-> file, k |-> 1,
                     loaded |-> NoRow, gone |-> {}, alone |-> TRUE]
  <2>1. proc' = [proc EXCEPT ![p] = new] /\ UNCHANGED <<file, table, events>>
    BY <1>1 DEF StartSync
  <2>2. file \in Seq(Item)
    BY <1>1 DEF StartSync, IInv, FileTyped
  <2>3. new \in SyncCommand
    BY <2>2 DEF SyncCommand
  <2>4. Len(file) \in Nat /\ \A j \in DOMAIN file : j \in Nat \ {0}
    BY <2>2
  <2>5. Fits(table, new)
    BY <2>4 DEF Fits, Copied
  <2> HIDE DEF new
  <2> QED  BY <2>1, <2>3, <2>5, TableKept DEF IInv
<1>2. CASE SelectRow(p)
  <2> DEFINE c == proc[p]
             item == c.items[c.k]
             new == [c EXCEPT !.at = "write", !.loaded = table[item.slug]]
  <2>1. /\ proc' = [proc EXCEPT ![p] = IF item.q = Bad THEN Off ELSE new]
        /\ UNCHANGED <<file, table, events>>
    BY <1>2 DEF SelectRow
  <2>2. c \in SyncCommand /\ Fits(table, c) /\ c.k <= Len(c.items)
    BY <1>2, SyncShape DEF SelectRow
  <2>3. item \in Item
    BY <2>2 DEF SyncCommand
  <2>4. table[item.slug] \in Row \cup {NoRow}
    BY <2>3 DEF IInv, Item
  <2>5. new \in SyncCommand
    BY <2>2, <2>4 DEF SyncCommand
  <2>6. /\ new.k = c.k /\ new.items = c.items /\ new.gone = c.gone
        /\ new.at = "write" /\ new.loaded = table[item.slug] /\ new.alone = c.alone
    BY <2>2 DEF SyncCommand
  <2> HIDE DEF new
  <2>7. item.q # Bad => Fits(table, new)
    BY <2>2, <2>6 DEF Fits
  <2> HIDE DEF item
  <2> QED  BY <2>1, <2>5, <2>7, TableKept DEF IInv
<1> QED  BY <1>1, <1>2

(* The row of an item is as the item says if it was as it was loaded, and  *)
(* it is a row in any case.                                                *)
LEMMA MergeRow ==
    ASSUME NEW row \in Row \cup {NoRow}, NEW loaded \in Row \cup {NoRow},
           NEW item \in Item, item.q # Bad,
           loaded = NoRow <=> row = NoRow
    PROVE  /\ Merge(row, loaded, item) \in Row
           /\ loaded = row => Merge(row, loaded, item) = [on |-> item.on, q |-> item.q]
BY DEF Merge, Row, Item

(* One more item has been copied.                                          *)
LEMMA OneMoreCopied ==
    ASSUME NEW items \in Seq(Item), NEW k \in 1 .. Len(items), NEW tab, NEW tab2,
           Copied(tab, items, k - 1),
           tab2[items[k].slug] = [on |-> items[k].on, q |-> items[k].q],
           \A s \in Slugs \ {items[k].slug} : tab2[s] = tab[s]
    PROVE  Copied(tab2, items, k)
<1> SUFFICES ASSUME NEW j \in DOMAIN items, j <= k,
                    \A i \in j + 1 .. k : items[i].slug # items[j].slug
             PROVE  tab2[items[j].slug] = [on |-> items[j].on, q |-> items[j].q]
  BY DEF Copied
<1>1. j \in 1 .. Len(items) /\ items[j] \in Item /\ items[j].slug \in Slugs
  BY ItemAt
<1>2. CASE j = k
  BY <1>2
<1>3. CASE j # k
  <2>1. items[j].slug # items[k].slug /\ j <= k - 1
    BY <1>1, <1>3
  <2>2. tab[items[j].slug] = [on |-> items[j].on, q |-> items[j].q]
    BY <1>1, <2>1 DEF Copied
  <2> QED  BY <1>1, <2>1, <2>2
<1> QED  BY <1>2, <1>3

(* sync writes a row, or ends because another sync has inserted it.        *)
LEMMA WriteStep ==
    ASSUME IInv, NEW p \in Procs, WriteRow(p)
    PROVE  IInv'
<1> DEFINE c == proc[p]
           item == c.items[c.k]
           row == table[item.slug]
           new == [c EXCEPT !.at = "select", !.k = c.k + 1]
<1>1. c \in SyncCommand /\ Fits(table, c) /\ c.kind = "sync" /\ c.at = "write"
  BY SyncShape DEF WriteRow
<1>2. /\ c.k \in 1 .. Len(c.items) /\ item.q # Bad
      /\ c.loaded # NoRow => row # NoRow
      /\ c.items \in Seq(Item)
  BY <1>1 DEF Fits, SyncCommand
<1>3. item \in Item /\ item.slug \in Slugs
  BY <1>2, ItemAt
<1>4. CASE c.loaded = NoRow /\ row # NoRow
  <2>1. proc' = [proc EXCEPT ![p] = Off] /\ UNCHANGED <<file, table, events>>
    BY <1>4 DEF WriteRow
  <2> QED  BY <2>1, TableKept DEF IInv
<1>5. CASE ~(c.loaded = NoRow /\ row # NoRow)
  <2>1. /\ table' = [table EXCEPT ![item.slug] = Merge(row, c.loaded, item)]
        /\ proc' = [Disturbed(p, "sync") EXCEPT ![p].at = "select", ![p].k = @ + 1]
        /\ UNCHANGED <<file, events>>
    BY <1>5 DEF WriteRow
  <2>2. proc' = [Disturbed(p, "sync") EXCEPT ![p] = new]
    <3>1. Disturbed(p, "sync")[p] = c /\ p \in DOMAIN Disturbed(p, "sync")
      BY DEF Disturbed
    <3>2. proc' = [Disturbed(p, "sync") EXCEPT
                     ![p] = [Disturbed(p, "sync")[p] EXCEPT !.at = "select",
                                 !.k = Disturbed(p, "sync")[p].k + 1]]
      BY <2>1, <3>1
    <3> QED  BY <3>1, <3>2
  <2>3. row \in Row \cup {NoRow} /\ c.loaded \in Row \cup {NoRow}
        /\ (c.loaded = NoRow <=> row = NoRow)
    BY <1>1, <1>2, <1>3, <1>5 DEF IInv, SyncCommand
  <2>4. /\ Merge(row, c.loaded, item) \in Row
        /\ c.loaded = row => Merge(row, c.loaded, item) = [on |-> item.on, q |-> item.q]
    BY <1>2, <1>3, <2>3, MergeRow
  <2>5. /\ table' \in [Slugs -> Row \cup {NoRow}]
        /\ table'[item.slug] = Merge(row, c.loaded, item)
        /\ \A s \in Slugs \ {item.slug} : table'[s] = table[s]
    BY <1>3, <2>1, <2>4 DEF IInv
  <2>6. \A s \in Slugs : table[s] # NoRow => table'[s] # NoRow
    BY <2>4, <2>5, PoolAssumption
  <2>7. new \in SyncCommand
    <3>1. c.k + 1 \in Nat \ {0}
      BY <1>1 DEF SyncCommand
    <3> QED  BY <1>1, <3>1 DEF SyncCommand
  <2>8. /\ new.k = c.k + 1 /\ new.items = c.items /\ new.gone = c.gone
        /\ new.at = "select" /\ new.alone = c.alone
    BY <1>1 DEF SyncCommand
  <2>9. c.alone => Copied(table', c.items, c.k)
    <3> SUFFICES ASSUME c.alone PROVE Copied(table', c.items, c.k)
      OBVIOUS
    <3>1. Copied(table, c.items, c.k - 1) /\ c.loaded = row
      BY <1>1 DEF Fits
    <3> QED  BY <1>2, <2>4, <2>5, <3>1, OneMoreCopied
  <2>10. c.gone \subseteq Slugs /\ \A s \in c.gone : table[s] # NoRow
    BY <1>1 DEF SyncCommand, Fits
  <2> HIDE DEF new
  <2>11. Fits(table', new)
    <3>1. new.k - 1 = c.k /\ new.k <= Len(new.items) + 1
      BY <1>2, <2>8
    <3> QED  BY <2>6, <2>8, <2>9, <2>10, <3>1 DEF Fits
  <2> HIDE DEF item
  <2> QED  BY <1>1, <2>1, <2>2, <2>5, <2>6, <2>7, <2>11, TableWritten
<1> QED  BY <1>4, <1>5

(* sync looks for rows that are not in the file, and turns them off.       *)
LEMMA DisableStep ==
    ASSUME IInv, NEW p \in Procs, SelectAll(p) \/ DisableRest(p)
    PROVE  IInv'
<1>1. CASE SelectAll(p)
  <2> DEFINE c == proc[p]
             new == [c EXCEPT !.at = "disable", !.gone = Gone(c.items)]
  <2>1. proc' = [proc EXCEPT ![p] = new] /\ UNCHANGED <<file, table, events>>
    BY <1>1 DEF SelectAll, IInv
  <2>2. c \in SyncCommand /\ Fits(table, c) /\ c.k > Len(c.items)
    BY <1>1, SyncShape DEF SelectAll
  <2>3. /\ Gone(c.items) \subseteq Slugs /\ Gone(c.items) = GoneFrom(table, c.items)
        /\ \A s \in Gone(c.items) : table[s] # NoRow
    BY DEF Gone, GoneFrom
  <2>4. /\ new \in SyncCommand
        /\ new.k = c.k /\ new.items = c.items /\ new.gone = Gone(c.items)
        /\ new.at = "disable" /\ new.alone = c.alone
    BY <2>2, <2>3 DEF SyncCommand
  <2>5. c.k = Len(c.items) + 1
    BY <2>2 DEF SyncCommand, Fits
  <2> HIDE DEF new
  <2>6. Fits(table, new)
    BY <2>2, <2>3, <2>4, <2>5 DEF Fits
  <2> QED  BY <2>1, <2>4, <2>6, TableKept DEF IInv
<1>2. CASE DisableRest(p)
  <2>1. /\ table' = [s \in Slugs |-> IF s \in proc[p].gone
                                     THEN [table[s] EXCEPT !.on = FALSE] ELSE table[s]]
        /\ proc' = [Disturbed(p, "sync") EXCEPT ![p] = Off]
        /\ UNCHANGED <<file, events>> /\ proc[p].kind = "sync"
    BY <1>2 DEF DisableRest
  <2>2. \A s \in proc[p].gone : table[s] # NoRow
    BY <2>1, SyncShape DEF Fits
  <2>3. ASSUME NEW s \in Slugs
        PROVE  /\ table'[s] \in Row \cup {NoRow}
               /\ table[s] # NoRow => table'[s] # NoRow
    <3>1. table[s] \in Row \cup {NoRow}
      BY DEF IInv
    <3>2. table[s] \in Row => [table[s] EXCEPT !.on = FALSE] \in Row
      BY DEF Row
    <3> QED  BY <2>1, <2>2, <3>1, <3>2, PoolAssumption
  <2>4. table' \in [Slugs -> Row \cup {NoRow}]
    BY <2>1, <2>3
  <2> QED  BY <2>1, <2>3, <2>4, TableWritten
<1> QED  BY <1>1, <1>2

-----------------------------------------------------------------------------
(* The steps of the commands that write the file.                          *)
LEMMA ValidateStep ==
    ASSUME IInv, NEW p \in Procs, StartValidate(p) \/ Validate(p) \/ StartBuild(p)
    PROVE  IInv'
<1>1. CASE StartValidate(p)
  <2>1. file \in Seq(Item)
    BY <1>1 DEF StartValidate, IInv, FileTyped
  <2> DEFINE new == [kind |-> "file", at |-> "probe", items |-> file,
                     base |-> file, sure |-> TRUE, alone |-> TRUE]
  <2>2. new \in FileCommand
    BY <2>1 DEF FileCommand
  <2>3. proc' = [proc EXCEPT ![p] = new] /\ UNCHANGED <<file, table, events>>
    BY <1>1 DEF StartValidate
  <2> HIDE DEF new
  <2> QED  BY <2>2, <2>3, TableKept DEF IInv
<1>2. CASE Validate(p)
  <2>1. PICK failing \in Failures :
            /\ Sure(failing)
            /\ LET new == Disabled(proc[p].items, Found(failing)) IN
               proc' = [proc EXCEPT ![p] =
                          IF new = proc[p].items THEN Off
                          ELSE [@ EXCEPT !.at = "truncate", !.items = new,
                                         !.sure = (failing = {})]]
    BY <1>2 DEF Validate
  <2> DEFINE items == Disabled(proc[p].items, Found(failing))
             new == [proc[p] EXCEPT !.at = "truncate", !.items = items,
                                    !.sure = (failing = {})]
  <2>2. proc[p] \in FileCommand /\ UNCHANGED <<file, table>>
    BY <1>2, FileShape DEF Validate
  <2>3. proc[p].items \in Seq(Item)
    BY <2>2 DEF FileCommand
  <2>4. items \in Seq(Item)
    <3>1. ASSUME NEW k \in 1 .. Len(proc[p].items)
          PROVE  [proc[p].items[k] EXCEPT !.on = @ /\ \A j \in DOMAIN proc[p].items :
                    proc[p].items[j].slug = proc[p].items[k].slug /\ proc[p].items[j].on
                        => proc[p].items[j].q \in Found(failing)] \in Item
      <4>1. proc[p].items[k] \in Item /\ proc[p].items[k].on \in BOOLEAN
        BY <2>3, ItemAt
      <4>2. \A on \in BOOLEAN : [proc[p].items[k] EXCEPT !.on = on] \in Item
        BY <4>1 DEF Item
      <4> QED  BY <4>2
    <3>2. items \in [1 .. Len(proc[p].items) -> Item] /\ Len(proc[p].items) \in Nat
      BY <2>3, <3>1 DEF Disabled
    <3> QED  BY <3>2
  <2> HIDE DEF items
  <2>5. new \in FileCommand
    BY <2>2, <2>4 DEF FileCommand
  <2>6. proc' = [proc EXCEPT ![p] = IF items = proc[p].items THEN Off ELSE new]
    BY <2>1 DEF items
  <2>7. events' \in Nat
    BY <2>1 DEF Sure, Event, IInv
  <2> HIDE DEF new
  <2> QED  BY <2>2, <2>5, <2>6, <2>7, TableKept DEF IInv
<1>3. CASE StartBuild(p)
  <2>1. PICK failing \in Failures, pool \in Seq(Item) :
            /\ Sure(failing)
            /\ proc' = [proc EXCEPT ![p] =
                          [kind |-> "file", at |-> "truncate", items |-> pool,
                           base |-> <<>>, sure |-> (failing = {}), alone |-> TRUE]]
    BY <1>3, PoolAssumption DEF StartBuild
  <2> DEFINE new == [kind |-> "file", at |-> "truncate", items |-> pool,
                     base |-> <<>>, sure |-> (failing = {}), alone |-> TRUE]
  <2>2. new \in FileCommand
    BY DEF FileCommand
  <2>3. events' \in Nat /\ UNCHANGED <<file, table>>
    BY <1>3, <2>1 DEF StartBuild, Sure, Event, IInv
  <2>4. proc' = [proc EXCEPT ![p] = new]
    BY <2>1
  <2> HIDE DEF new
  <2> QED  BY <2>2, <2>3, <2>4, TableKept DEF IInv
<1> QED  BY <1>1, <1>2, <1>3

(* A write of p to the file, which leaves the command new behind.          *)
LEMMA FileWritten ==
    ASSUME IInv, NEW p \in Procs, table' = table, FileTyped(file'), events' \in Nat,
           NEW new, new = Off \/ new \in FileCommand,
           proc' = [Disturbed(p, "file") EXCEPT ![p] = new]
    PROVE  IInv'
<1>1. proc'[p] = new /\ DOMAIN proc' = Procs
  BY DEF Disturbed
<1>2. \A r \in Procs \ {p} : \/ proc'[r] = proc[r]
                             \/ proc[r].kind = "file"
                                /\ proc'[r] = [proc[r] EXCEPT !.alone = FALSE]
  BY DEF Disturbed
<1> QED  BY <1>1, <1>2, FileDisturbed, TableKept

LEMMA RewriteStep ==
    ASSUME IInv, NEW p \in Procs, Truncate(p) \/ Rewrite(p)
    PROVE  IInv'
<1>1. CASE Truncate(p)
  <2> DEFINE new == [proc[p] EXCEPT !.at = "rewrite"]
  <2>1. new \in FileCommand
    BY <1>1, FileShape DEF Truncate, FileCommand
  <2>2. proc' = [Disturbed(p, "file") EXCEPT ![p] = new]
    <3>1. Disturbed(p, "file")[p] = proc[p]
      BY DEF Disturbed
    <3>2. proc' = [Disturbed(p, "file") EXCEPT
                     ![p] = [Disturbed(p, "file")[p] EXCEPT !.at = "rewrite"]]
      BY <1>1 DEF Truncate
    <3> QED  BY <3>1, <3>2
  <2>3. UNCHANGED <<table, events>> /\ FileTyped(file')
    BY <1>1 DEF Truncate, FileTyped
  <2> HIDE DEF new
  <2> QED  BY <2>1, <2>2, <2>3, FileWritten DEF IInv
<1>2. CASE Rewrite(p)
  <2>1. proc[p].items \in Seq(Item)
    BY <1>2, FileShape DEF Rewrite, FileCommand
  <2>2. FileTyped(file')
    BY <1>2, <2>1 DEF Rewrite, FileTyped
  <2>3. UNCHANGED <<table, events>> /\ proc' = [Disturbed(p, "file") EXCEPT ![p] = Off]
    BY <1>2 DEF Rewrite
  <2> QED  BY <2>2, <2>3, FileWritten DEF IInv
<1> QED  BY <1>1, <1>2

(* A kill ends the command, in the middle of a rewrite with a part of the  *)
(* text.                                                                   *)
LEMMA KillStep ==
    ASSUME IInv, NEW p \in Procs, Kill(p)
    PROVE  IInv'
<1>1. table' = table /\ events' \in Nat
  BY DEF Kill, Event, IInv
<1>2. CASE proc' = [proc EXCEPT ![p] = Off] /\ UNCHANGED file
  BY <1>1, <1>2, TableKept DEF IInv
<1>3. CASE /\ proc[p].kind = "file"
           /\ \E k \in 1 .. Len(proc[p].items) : file' = SubSeq(proc[p].items, 1, k)
           /\ proc' = [Disturbed(p, "file") EXCEPT ![p] = Off]
  <2>1. proc[p].items \in Seq(Item)
    BY <1>3, FileShape DEF FileCommand
  <2>2. PICK k \in 1 .. Len(proc[p].items) : file' = SubSeq(proc[p].items, 1, k)
    BY <1>3
  <2>3. SubSeq(proc[p].items, 1, k) \in Seq(Item)
    BY <2>1
  <2> QED  BY <1>1, <1>3, <2>2, <2>3, FileWritten DEF FileTyped
<1> QED  BY <1>2, <1>3 DEF Kill

(* The operator writes items.                                              *)
LEMMA EditStep ==
    ASSUME IInv, Edit
    PROVE  IInv'
<1>1. table' = table /\ events' \in Nat /\ DOMAIN proc' = Procs
  BY DEF Edit, Event, IInv
<1>2. \A r \in Procs : \/ proc'[r] = proc[r]
                       \/ proc[r].kind = "file"
                          /\ proc'[r] = [proc[r] EXCEPT !.alone = FALSE]
  BY DEF Edit
<1>3. file' \in Seq(Item)
  <2>1. CASE file # Torn
    <3>1. file \in Seq(Item)
      BY <2>1 DEF IInv, FileTyped
    <3>2. ASSUME NEW k \in DOMAIN file, NEW d \in Drafts PROVE ReplaceAt(file, k, d) \in Seq(Item)
      BY <3>1, <3>2, PoolAssumption DEF ReplaceAt
    <3>3. ASSUME NEW k \in DOMAIN file PROVE RemoveAt(file, k) \in Seq(Item)
      <4>1. SubSeq(file, 1, k - 1) \in Seq(Item) /\ SubSeq(file, k + 1, Len(file)) \in Seq(Item)
        BY <3>1
      <4> QED  BY <4>1 DEF RemoveAt
    <3>4. ASSUME NEW d \in Drafts PROVE Append(file, d) \in Seq(Item)
      BY <3>1, PoolAssumption
    <3> QED  BY <2>1, <3>2, <3>3, <3>4 DEF Edit
  <2>2. CASE file = Torn
    BY <2>2, PoolAssumption DEF Edit
  <2> QED  BY <2>1, <2>2
<1> QED  BY <1>1, <1>2, <1>3, FileDisturbed, TableKept DEF FileTyped

(* A step in which nothing changes.                                        *)
LEMMA PoolStutter == IInv /\ UNCHANGED vars => IInv'
BY DEF vars, IInv

THEOREM PoolInvariant == Spec => []IInv
<1>1. IInv /\ [Next]_vars => IInv'
  BY ReadStep, WriteStep, DisableStep, ValidateStep, RewriteStep, KillStep, EditStep,
     PoolStutter DEF Next, Step
<1> QED  BY InitIInv, <1>1, PTL DEF Spec

(* The types of Pool, for any sheet and any models.yaml.                   *)
THEOREM PoolTypes == Spec => []TypeOK
BY PoolInvariant, InvTyped, PTL

-----------------------------------------------------------------------------
(* Items that are all copied and rows that are off otherwise: the table    *)
(* agrees with the items.                                                  *)
LEMMA CopiedAgrees ==
    ASSUME NEW items \in Seq(Item), NEW tab,
           Copied(tab, items, Len(items)),
           \A s \in Slugs \ SlugsOf(items) : tab[s] = NoRow \/ ~tab[s].on
    PROVE  Agrees(tab, items)
<1> SUFFICES ASSUME NEW s \in Slugs, s \in SlugsOf(items)
             PROVE  LET last == items[CHOOSE k \in DOMAIN items :
                                  /\ items[k].slug = s
                                  /\ \A j \in k + 1 .. Len(items) : items[j].slug # s]
                    IN tab[s] = [on |-> last.on, q |-> last.q]
  BY DEF Agrees
<1> DEFINE K == {k \in DOMAIN items : items[k].slug = s}
           IsLast(k) == /\ items[k].slug = s
                        /\ \A j \in k + 1 .. Len(items) : items[j].slug # s
<1>1. DOMAIN items = 1 .. Len(items) /\ Len(items) \in Nat
  OBVIOUS
<1>2. K # {} /\ K \subseteq 0 .. Len(items)
  BY <1>1 DEF SlugsOf
<1>3. PICK m \in K : \A k \in K : k <= m
  BY <1>1, <1>2, MaxExists
<1>4. IsLast(m)
  BY <1>1, <1>3
<1>5. PICK k \in DOMAIN items : k = (CHOOSE j \in DOMAIN items : IsLast(j)) /\ IsLast(k)
  BY <1>3, <1>4
<1>6. tab[items[k].slug] = [on |-> items[k].on, q |-> items[k].q]
  BY <1>1, <1>5 DEF Copied
<1> QED  BY <1>5, <1>6

(* The end of a sync that nobody disturbed.                                *)
LEMMA EndAgrees ==
    ASSUME IInv, NEW p \in Procs, DisableRest(p), proc[p].alone
    PROVE  Agrees(table', proc[p].items)
<1> DEFINE c == proc[p]
<1>1. c \in SyncCommand /\ Fits(table, c) /\ c.at = "disable"
  BY SyncShape DEF DisableRest
<1>2. /\ c.items \in Seq(Item) /\ Len(c.items) \in Nat /\ c.k = Len(c.items) + 1
      /\ Copied(table, c.items, c.k - 1) /\ c.gone = GoneFrom(table, c.items)
  BY <1>1 DEF Fits, SyncCommand
<1>3. table' = [s \in Slugs |-> IF s \in c.gone
                                THEN [table[s] EXCEPT !.on = FALSE] ELSE table[s]]
  BY DEF DisableRest
<1>4. Copied(table', c.items, Len(c.items))
  <2> SUFFICES ASSUME NEW j \in DOMAIN c.items, j <= Len(c.items),
                      \A i \in j + 1 .. Len(c.items) : c.items[i].slug # c.items[j].slug
               PROVE  table'[c.items[j].slug] = [on |-> c.items[j].on, q |-> c.items[j].q]
    BY DEF Copied
  <2>1. c.k - 1 = Len(c.items)
    BY <1>2
  <2>2. table[c.items[j].slug] = [on |-> c.items[j].on, q |-> c.items[j].q]
    BY <1>2, <2>1 DEF Copied
  <2>3. c.items[j].slug \in Slugs /\ c.items[j].slug \notin c.gone
    BY <1>2, ItemAt DEF GoneFrom, SlugsOf
  <2> QED  BY <1>3, <2>2, <2>3
<1>5. ASSUME NEW s \in Slugs \ SlugsOf(c.items)
      PROVE  table'[s] = NoRow \/ ~table'[s].on
  <2>1. table[s] \in Row \cup {NoRow}
    BY DEF IInv
  <2>2. CASE s \in c.gone
    <3>1. table'[s] = [table[s] EXCEPT !.on = FALSE] /\ table[s] \in Row
      BY <1>2, <1>3, <2>1, <2>2 DEF GoneFrom
    <3> QED  BY <3>1 DEF Row
  <2>3. CASE s \notin c.gone
    BY <1>2, <1>3, <2>3 DEF GoneFrom
  <2> QED  BY <2>2, <2>3
<1> QED  BY <1>2, <1>4, <1>5, CopiedAgrees

(* A sync that reaches its end while no other writes the table leaves      *)
(* exactly the pool it read (_sync_async, cli.py:103).                     *)
THEOREM PoolSyncedAgrees == Spec => SyncedAgrees
<1> DEFINE EndsInAgreement == \A p \in Procs : DisableRest(p) /\ proc[p].alone
                                                  => Agrees(table', proc[p].items)
<1>1. IInv => [EndsInAgreement]_vars
  BY EndAgrees
<1>2. SyncedAgrees <=> [][EndsInAgreement]_vars
  BY DEF SyncedAgrees
<1> HIDE DEF EndsInAgreement
<1> QED  BY PoolInvariant, <1>1, <1>2, PTL

-----------------------------------------------------------------------------
(* What a command knows about the file: a validation turns off what it     *)
(* found to be empty in what it read, and nobody has written since its     *)
(* truncation if it is still alone.                                        *)
FileFits(f, c) ==
    /\ c.base # <<>> =>
          /\ c.at = "probe" => c.items = c.base
          /\ c.at # "probe" /\ c.sure => c.items = Disabled(c.base, Found({}))
    /\ c.alone /\ c.at = "rewrite" => f = Torn

FilesSound == \A p \in Procs : proc[p].kind = "file" => FileFits(file, proc[p])

LEMMA InitFiles == Init => FilesSound
BY DEF Init, FilesSound, Off

(* A step that does not write the file.                                    *)
LEMMA FileKept ==
    ASSUME FilesSound, file' = file,
           \A r \in Procs : \/ proc'[r] = proc[r]
                            \/ proc'[r].kind # "file"
                            \/ FileFits(file, proc'[r])
    PROVE  FilesSound'
<1> SUFFICES ASSUME NEW r \in Procs, proc'[r].kind = "file"
             PROVE  FileFits(file, proc'[r])
  BY DEF FilesSound, FileFits, Disabled, Found
<1> QED  BY DEF FilesSound

(* A write of the file by p, or by the operator: the others know that they *)
(* are no longer alone.                                                    *)
LEMMA FileDisturbedFits ==
    ASSUME IInv, FilesSound, NEW r \in Procs, proc[r].kind = "file", NEW f
    PROVE  FileFits(f, [proc[r] EXCEPT !.alone = FALSE])
<1>1. proc[r] \in FileCommand /\ FileFits(file, proc[r])
  BY FileShape DEF FilesSound
<1> DEFINE c == [proc[r] EXCEPT !.alone = FALSE]
<1>2. /\ ~c.alone /\ c.at = proc[r].at /\ c.items = proc[r].items
      /\ c.base = proc[r].base /\ c.sure = proc[r].sure
  BY <1>1 DEF FileCommand
<1> HIDE DEF c
<1>3. FileFits(f, c)
  BY <1>1, <1>2 DEF FileFits
<1> QED  BY <1>3 DEF c

LEMMA FileWrittenFits ==
    ASSUME IInv, FilesSound, NEW p \in Procs, NEW new,
           new.kind = "file" => FileFits(file', new),
           proc' = [Disturbed(p, "file") EXCEPT ![p] = new]
    PROVE  FilesSound'
<1> SUFFICES ASSUME NEW r \in Procs, proc'[r].kind = "file"
             PROVE  FileFits(file', proc'[r])
  BY DEF FilesSound, FileFits, Disabled, Found
<1>1. CASE r = p
  BY <1>1 DEF Disturbed
<1>2. CASE r # p /\ proc[r].kind = "file"
  <2>1. proc'[r] = [proc[r] EXCEPT !.alone = FALSE]
    BY <1>2 DEF Disturbed
  <2> QED  BY <1>2, <2>1, FileDisturbedFits
<1>3. CASE r # p /\ proc[r].kind # "file"
  BY <1>3 DEF Disturbed
<1> QED  BY <1>1, <1>2, <1>3

(* sync does not write the file, nor turns into a command that does.       *)
LEMMA SyncKeepsFiles ==
    ASSUME IInv, NEW p \in Procs,
           StartSync(p) \/ SelectRow(p) \/ WriteRow(p) \/ SelectAll(p) \/ DisableRest(p)
    PROVE  /\ file' = file
           /\ \A r \in Procs : proc'[r] = proc[r] \/ proc'[r].kind # "file"
<1>1. file' = file
  BY DEF StartSync, SelectRow, WriteRow, SelectAll, DisableRest
<1>2. ASSUME NEW r \in Procs
      PROVE  proc'[r] = proc[r] \/ proc'[r].kind # "file"
  <2>1. CASE r # p /\ proc[r].kind = "sync"
    <3>1. proc'[r] = proc[r] \/ proc'[r] = [proc[r] EXCEPT !.alone = FALSE]
      BY <2>1 DEF StartSync, SelectRow, WriteRow, SelectAll, DisableRest, Disturbed, IInv
    <3>2. proc[r] \in SyncCommand
      BY <2>1, SyncShape
    <3> QED  BY <2>1, <3>1, <3>2 DEF SyncCommand
  <2>2. CASE r # p /\ proc[r].kind # "sync"
    BY <2>2 DEF StartSync, SelectRow, WriteRow, SelectAll, DisableRest, Disturbed, IInv
  <2>3. CASE r = p /\ StartSync(p)
    BY <2>3 DEF StartSync, IInv
  <2>4. CASE r = p /\ ~StartSync(p)
    <3>1. proc[p] \in SyncCommand
      BY <2>4, SyncShape DEF SelectRow, WriteRow, SelectAll, DisableRest
    <3>2. SelectRow(p) => proc'[p].kind # "file"
      BY <3>1 DEF SelectRow, IInv, Off, SyncCommand
    <3>3. WriteRow(p) => proc'[p].kind # "file"
      BY <3>1 DEF WriteRow, IInv, Off, SyncCommand, Disturbed
    <3>4. SelectAll(p) => proc'[p].kind # "file"
      BY <3>1 DEF SelectAll, IInv, SyncCommand
    <3>5. DisableRest(p) => proc'[p].kind # "file"
      BY <3>1 DEF DisableRest, IInv, Off, Disturbed
    <3> QED  BY <2>4, <3>2, <3>3, <3>4, <3>5
  <2> QED  BY <2>1, <2>2, <2>3, <2>4
<1> QED  BY <1>1, <1>2

(* validate-pool reads and probes, build_pool resolves.                    *)
LEMMA ProbeFits ==
    ASSUME IInv, FilesSound, NEW p \in Procs,
           StartValidate(p) \/ Validate(p) \/ StartBuild(p)
    PROVE  FilesSound'
<1>1. file' = file /\ \A r \in Procs \ {p} : proc'[r] = proc[r]
  BY DEF StartValidate, Validate, StartBuild, IInv
<1>2. CASE StartValidate(p)
  <2>1. /\ proc'[p].at = "probe" /\ proc'[p].items = proc'[p].base
    BY <1>2 DEF StartValidate, IInv
  <2> QED  BY <1>1, <2>1, FileKept DEF FileFits
<1>3. CASE Validate(p)
  <2>1. PICK failing \in Failures :
            LET new == Disabled(proc[p].items, Found(failing)) IN
            proc' = [proc EXCEPT ![p] =
                       IF new = proc[p].items THEN Off
                       ELSE [@ EXCEPT !.at = "truncate", !.items = new,
                                      !.sure = (failing = {})]]
    BY <1>3 DEF Validate
  <2> DEFINE items == Disabled(proc[p].items, Found(failing))
             new == [proc[p] EXCEPT !.at = "truncate", !.items = items,
                                    !.sure = (failing = {})]
  <2>2. proc[p] \in FileCommand /\ proc[p].at = "probe" /\ FileFits(file, proc[p])
    BY <1>3, FileShape DEF Validate, FilesSound
  <2> HIDE DEF items
  <2>3. /\ new.at = "truncate" /\ new.items = items /\ new.base = proc[p].base
        /\ new.sure = (failing = {})
    BY <2>2 DEF FileCommand
  <2>4. proc'[p] = Off \/ proc'[p] = new
    BY <2>1 DEF items, IInv
  <2>5. new.base # <<>> /\ new.sure => new.items = Disabled(new.base, Found({}))
    BY <2>2, <2>3 DEF FileFits, items
  <2> HIDE DEF new
  <2>6. FileFits(file, new)
    BY <2>3, <2>5 DEF FileFits
  <2> QED  BY <1>1, <2>4, <2>6, FileKept DEF Off
<1>4. CASE StartBuild(p)
  <2>1. proc'[p].base = <<>> /\ proc'[p].at = "truncate"
    BY <1>4 DEF StartBuild, IInv
  <2> QED  BY <1>1, <2>1, FileKept DEF FileFits
<1> QED  BY <1>2, <1>3, <1>4

(* The writes of the file.                                                 *)
LEMMA WriteFits ==
    ASSUME IInv, FilesSound, NEW p \in Procs, Truncate(p) \/ Rewrite(p) \/ Kill(p)
    PROVE  FilesSound'
<1>1. CASE Truncate(p)
  <2> DEFINE new == [proc[p] EXCEPT !.at = "rewrite"]
  <2>1. proc[p] \in FileCommand /\ FileFits(file, proc[p]) /\ proc[p].at = "truncate"
    BY <1>1, FileShape DEF Truncate, FilesSound
  <2>2. /\ new.at = "rewrite" /\ new.items = proc[p].items
        /\ new.base = proc[p].base /\ new.sure = proc[p].sure
    BY <2>1 DEF FileCommand
  <2>3. proc' = [Disturbed(p, "file") EXCEPT ![p] = new] /\ file' = Torn
    <3>1. Disturbed(p, "file")[p] = proc[p]
      BY DEF Disturbed
    <3>2. proc' = [Disturbed(p, "file") EXCEPT
                     ![p] = [Disturbed(p, "file")[p] EXCEPT !.at = "rewrite"]]
          /\ file' = Torn
      BY <1>1 DEF Truncate
    <3> QED  BY <3>1, <3>2
  <2> HIDE DEF new
  <2>4. FileFits(file', new)
    BY <2>1, <2>2, <2>3 DEF FileFits
  <2> QED  BY <2>3, <2>4, FileWrittenFits
<1>2. CASE proc' = [Disturbed(p, "file") EXCEPT ![p] = Off]
  BY <1>2, FileWrittenFits DEF Off
<1>3. CASE proc' = [proc EXCEPT ![p] = Off] /\ file' = file
  BY <1>3, FileKept DEF Off, IInv
<1> QED  BY <1>1, <1>2, <1>3 DEF Rewrite, Kill

LEMMA NextFiles ==
    ASSUME IInv, FilesSound, [Next]_vars
    PROVE  FilesSound'
<1>1. CASE Edit
  <2> SUFFICES ASSUME NEW r \in Procs, proc'[r].kind = "file"
               PROVE  FileFits(file', proc'[r])
    BY DEF FilesSound, FileFits, Disabled, Found
  <2>1. proc'[r] = [proc[r] EXCEPT !.alone = FALSE] \/ proc[r].kind # "file"
    BY <1>1 DEF Edit
  <2>2. proc[r].kind = "file"
    BY <1>1 DEF Edit
  <2> QED  BY <2>1, <2>2, FileDisturbedFits
<1>2. CASE UNCHANGED vars
  BY <1>2, FileKept DEF vars
<1> QED  BY <1>1, <1>2, SyncKeepsFiles, FileKept, ProbeFits, WriteFits DEF Next, Step

(* A validation of distinct models whose probes all come back, and under   *)
(* which nobody writes the file, turns off exactly the models without a    *)
(* car (validate_pool, cli.py:60), and changes nothing else.               *)
THEOREM PoolOnlyEmptyModelsDisabled == Spec => OnlyEmptyModelsDisabled
<1> DEFINE Turned(p) ==
              /\ DOMAIN file' = DOMAIN proc[p].base
              /\ \A k \in DOMAIN file' :
                    LET old == proc[p].base[k] IN
                    file'[k] = [old EXCEPT !.on = @ /\ old.q \in Stocked \ {NoQuery}]
           OnlyEmpty == \A p \in Procs :
              Rewrite(p) /\ proc[p].alone /\ proc[p].sure
                 /\ IsInjective(SlugsIn(proc[p].base)) /\ proc[p].base # <<>> => Turned(p)
<1>1. ASSUME IInv, FilesSound, NEW p \in Procs, Rewrite(p), proc[p].alone, proc[p].sure,
             IsInjective(SlugsIn(proc[p].base)), proc[p].base # <<>>
      PROVE  Turned(p)
  <2> DEFINE base == proc[p].base
  <2>1. proc[p] \in FileCommand /\ FileFits(file, proc[p]) /\ proc[p].at = "rewrite"
    BY <1>1, FileShape DEF Rewrite, FilesSound
  <2>2. file' = Disabled(base, Stocked \ {NoQuery})
    BY <1>1, <2>1 DEF FileFits, Rewrite, Found
  <2>3. base \in Seq(Item)
    BY <2>1 DEF FileCommand
  <2>4. \A j, k \in DOMAIN base : base[j].slug = base[k].slug => j = k
    BY <1>1 DEF IsInjective, SlugsIn
  <2> HIDE DEF base
  <2>5. ASSUME NEW k \in DOMAIN base
        PROVE  file'[k] = [base[k] EXCEPT !.on = @ /\ base[k].q \in Stocked \ {NoQuery}]
    <3>1. base[k].on \in BOOLEAN
      BY <2>3, ItemAt
    <3>2. (base[k].on /\ \A j \in DOMAIN base :
              base[j].slug = base[k].slug /\ base[j].on => base[j].q \in Stocked \ {NoQuery})
          = (base[k].on /\ base[k].q \in Stocked \ {NoQuery})
      BY <2>4, <3>1
    <3> QED  BY <2>2, <3>2 DEF Disabled
  <2>6. DOMAIN file' = DOMAIN base
    BY <2>2 DEF Disabled
  <2> QED  BY <2>5, <2>6 DEF base
<1>2. IInv /\ FilesSound => [OnlyEmpty]_vars
  BY <1>1
<1>3. OnlyEmptyModelsDisabled <=> [][OnlyEmpty]_vars
  BY DEF OnlyEmptyModelsDisabled
<1>4. IInv /\ FilesSound /\ [Next]_vars => FilesSound'
  BY NextFiles
<1> HIDE DEF OnlyEmpty
<1> QED  BY PoolInvariant, InitFiles, <1>2, <1>3, <1>4, PTL DEF Spec
-----------------------------------------------------------------------------
(* What build_pool tries for a pair says which pair it is.                 *)
LEMMA VariantsNamed ==
    ASSUME NEW name, NEW gen
    PROVE  /\ Variants(<<name>>, gen) \in Seq(Range(Variants(<<name>>, gen)))
           /\ \A v \in Range(Variants(<<name>>, gen)) : v[1][1] = name
<1> DEFINE base == <<name>>
           full == Named(base, gen)
<1>1. base[1] = name /\ full[1] = name
  BY DEF Named
<1> HIDE DEF base, full
<1> DEFINE vs == << <<base, full>>, <<full, full>>, <<base, base>> >>
<1>2. vs \in Seq(Range(vs)) /\ \A v \in Range(vs) : v[1] \in {base, full}
  BY DEF Range
<1>3. vs = Variants(<<name>>, gen)
  BY DEF Variants, base, full
<1> HIDE DEF vs
<1>4. \A v \in Range(vs) : v[1][1] = name
  BY <1>1, <1>2
<1> QED  BY <1>2, <1>3, <1>4

(* A candidate of a pair.                                                  *)
CandidateOf(label, q) ==
    /\ q.type = CarType(label.brand)
    /\ IF IsDomestic(label.brand)
       THEN q.manufacturer = DomesticCell[label.brand] /\ q.group = <<FamilyKr[label.base]>>
       ELSE q.manufacturer \in ImportCells(label.brand) /\ q.group[1] \in Names(label)

LEMMA ImportCandidates ==
    ASSUME NEW label, ~IsDomestic(label.brand)
    PROVE  LET c == ImportQueries(label) IN
           c \in Seq(Range(c)) /\ \A q \in Range(c) : CandidateOf(label, q)
<1> DEFINE known == Cell(ImportCell, label.brand)
           pair == <<label.brand, label.base>>
           english == Variants(<<label.base>>, label.gen)
           korean == IF pair \in DOMAIN SubmodelKr
                     THEN Variants(<<SubmodelKr[pair]>>, label.gen) ELSE <<>>
           both == english \o korean
           V == Range(english) \cup Range(korean)
           Under(cell) == [k \in 1 .. Len(both) |->
                             LET v == both[k] IN Query(label, cell, v[1], v[2])]
           Rest == IF known = label.brand THEN <<>> ELSE Under(label.brand)
           Q == {Query(label, cell, v[1], v[2]) : cell \in {known, label.brand}, v \in V}
<1>1. english \in Seq(V) /\ korean \in Seq(V)
  <2>1. english \in Seq(Range(english))
    BY VariantsNamed
  <2>2. <<>> \in Seq(Range(korean))
    OBVIOUS
  <2>3. CASE pair \in DOMAIN SubmodelKr
    <3>1. korean \in Seq(Range(korean))
      BY <2>3, VariantsNamed
    <3> HIDE DEF english, korean
    <3> QED  BY <2>1, <3>1
  <2>4. CASE pair \notin DOMAIN SubmodelKr
    <3>1. korean = <<>>
      BY <2>4
    <3> HIDE DEF english, korean
    <3> QED  BY <2>1, <2>2, <3>1
  <2> QED  BY <2>3, <2>4
<1>2. \A v \in V : v[1][1] \in Names(label)
  <2>1. \A v \in Range(english) : v[1][1] = label.base
    BY VariantsNamed
  <2>2. \A v \in Range(korean) : pair \in DOMAIN SubmodelKr /\ v[1][1] = SubmodelKr[pair]
    <3>1. CASE pair \in DOMAIN SubmodelKr
      BY <3>1, VariantsNamed
    <3>2. CASE pair \notin DOMAIN SubmodelKr
      BY <3>2 DEF Range
    <3> QED  BY <3>1, <3>2
  <2> HIDE DEF english, korean
  <2> QED  BY <2>1, <2>2 DEF Names
<1> HIDE DEF english, korean, V
<1>3. both \in Seq(V)
  BY <1>1
<1> HIDE DEF both
<1>4. ASSUME NEW cell \in {known, label.brand} PROVE Under(cell) \in Seq(Q)
  <2>1. \A k \in 1 .. Len(both) : both[k] \in V
    BY <1>3
  <2>2. Under(cell) \in [1 .. Len(both) -> Q] /\ Len(both) \in Nat
    BY <1>3, <2>1
  <2> QED  BY <2>2
<1>5. ImportQueries(label) = Under(known) \o Rest
  BY DEF ImportQueries, both, english, korean
<1>6. \A q \in Q : CandidateOf(label, q)
  BY <1>2 DEF CandidateOf, Query, ImportCells
<1> HIDE DEF Under, Q
<1>7. ImportQueries(label) \in Seq(Q)
  BY <1>4, <1>5
<1>8. \A c \in Seq(Q) : c \in Seq(Range(c)) /\ Range(c) \subseteq Q
  BY DEF Range
<1> QED  BY <1>6, <1>7, <1>8

LEMMA CandidatesProperties ==
    ASSUME NEW label
    PROVE  /\ Candidates(label).first \in Seq(Range(Candidates(label).first))
           /\ \A q \in AllCandidates(label) : CandidateOf(label, q)
<1> DEFINE c == Candidates(label)
<1>1. CASE Unmapped(label)
  <2>1. c.first = <<>> /\ c.rest = {}
    BY <1>1 DEF Candidates
  <2> HIDE DEF c
  <2>2. c.first \in Seq(Range(c.first)) /\ ToSet(c.first) = {}
    BY <2>1 DEF ToSet, Range
  <2> QED  BY <2>1, <2>2 DEF AllCandidates, c
<1>2. CASE ~Unmapped(label) /\ IsDomestic(label.brand)
  <2> DEFINE names == KrNames(label)
             Of(name) == Query(label, DomesticCell[label.brand],
                               <<FamilyKr[label.base]>>, name)
  <2>1. /\ c.first = [k \in DOMAIN names.first |-> Of(names.first[k])]
        /\ c.rest = {Of(name) : name \in names.rest}
    BY <1>2 DEF Candidates
  <2>2. DOMAIN names.first = 1 .. 1 \/ DOMAIN names.first = 1 .. 3
    BY DEF KrNames
  <2>3. \A name : CandidateOf(label, Of(name))
    BY <1>2 DEF CandidateOf, Query
  <2> HIDE DEF names, Of, c
  <2>4. c.first \in Seq(Range(c.first))
    <3>1. \A n \in Nat : DOMAIN c.first = 1 .. n => c.first \in Seq(Range(c.first))
      <4> TAKE n \in Nat
      <4> HAVE DOMAIN c.first = 1 .. n
      <4>1. c.first \in [1 .. n -> Range(c.first)]
        BY <2>1 DEF Range
      <4> QED  BY <4>1
    <3> QED  BY <2>1, <2>2, <3>1
  <2>5. \A q \in AllCandidates(label) : CandidateOf(label, q)
    BY <2>1, <2>3 DEF AllCandidates, ToSet, c
  <2> QED  BY <2>4, <2>5 DEF c
<1>3. CASE ~IsDomestic(label.brand)
  <2>1. c.first = ImportQueries(label) /\ c.rest = {}
    BY <1>3 DEF Candidates, Unmapped
  <2>2. /\ c.first \in Seq(Range(c.first))
        /\ \A q \in Range(c.first) : CandidateOf(label, q)
    BY <1>3, <2>1, ImportCandidates
  <2> HIDE DEF c
  <2>3. AllCandidates(label) = Range(c.first)
    BY <2>1 DEF AllCandidates, ToSet, Range, c
  <2> QED  BY <2>2, <2>3 DEF c
<1> QED  BY <1>1, <1>2, <1>3

(* The filter that is kept is a candidate with cars, if there is one.      *)
LEMMA WinnersProperties ==
    ASSUME NEW label, NEW found
    PROVE  /\ Winners(label, found) \subseteq AllCandidates(label) \cap found
           /\ AllCandidates(label) \cap found # {} => Winners(label, found) # {}
<1> DEFINE c == Candidates(label)
           hits == {k \in DOMAIN c.first : c.first[k] \in found}
           least == CHOOSE k \in hits : \A j \in hits : k <= j
<1>1. c.first \in Seq(Range(c.first))
  BY CandidatesProperties
<1> HIDE DEF c
<1>2. CASE hits # {}
  <2>1. hits \subseteq Nat
    BY <1>1
  <2>2. least \in hits
    <3> HIDE DEF hits
    <3>1. \E k \in hits : \A j \in hits : k <= j
      BY <1>2, <2>1, MinExists
    <3> QED  BY <3>1
  <2> HIDE DEF least
  <2>3. Winners(label, found) = {c.first[least]}
    BY <1>2 DEF Winners, c, least
  <2>4. c.first[least] \in ToSet(c.first) \cap found
    BY <2>2 DEF ToSet
  <2> QED  BY <2>3, <2>4 DEF AllCandidates, c
<1>3. CASE hits = {}
  <2>1. Winners(label, found) = c.rest \cap found
    BY <1>3 DEF Winners, c
  <2>2. ToSet(c.first) \cap found = {}
    BY <1>3 DEF ToSet
  <2> QED  BY <2>1, <2>2 DEF AllCandidates, c
<1> QED  BY <1>2, <1>3
-----------------------------------------------------------------------------
(* What build_pool is about to write it has resolved from the sheet, and   *)
(* all its probes have come back if it is sure.                            *)
BuiltFrom(c) ==
    c.base = <<>> =>
       IF c.at = "probe" THEN c.items = <<>>
       ELSE \E failing \in Failures :
               c.items \in Pools(Found(failing)) /\ (c.sure => failing = {})

Built == \A p \in Procs : proc[p].kind = "file" => BuiltFrom(proc[p])

LEMMA BuiltKept ==
    ASSUME IInv, Built,
           \A r \in Procs : \/ proc'[r] = proc[r]
                            \/ proc'[r].kind # "file"
                            \/ /\ proc[r].kind = "file"
                               /\ proc'[r] = [proc[r] EXCEPT !.alone = FALSE]
                            \/ BuiltFrom(proc'[r])
    PROVE  Built'
<1> SUFFICES ASSUME NEW r \in Procs, proc'[r].kind = "file"
             PROVE  BuiltFrom(proc'[r])
  BY DEF Built, BuiltFrom, Failures, Found, Pools, Items, Winners
<1>1. CASE proc'[r] = proc[r]
  BY <1>1 DEF Built
<1>2. CASE proc[r].kind = "file" /\ proc'[r] = [proc[r] EXCEPT !.alone = FALSE]
  <2>1. proc[r] \in FileCommand /\ BuiltFrom(proc[r])
    BY <1>2, FileShape DEF Built
  <2>2. /\ proc'[r].base = proc[r].base /\ proc'[r].at = proc[r].at
        /\ proc'[r].items = proc[r].items /\ proc'[r].sure = proc[r].sure
    BY <1>2, <2>1 DEF FileCommand
  <2> QED  BY <2>1, <2>2 DEF BuiltFrom
<1> QED  BY <1>1, <1>2

(* build_pool resolves the sheet; a validation of an empty file finds      *)
(* nothing to write.                                                       *)
LEMMA ProbeBuilt ==
    ASSUME IInv, Built, NEW p \in Procs, StartValidate(p) \/ Validate(p) \/ StartBuild(p)
    PROVE  Built'
<1>1. \A r \in Procs \ {p} : proc'[r] = proc[r]
  BY DEF StartValidate, Validate, StartBuild, IInv
<1>2. CASE StartValidate(p)
  <2>1. proc'[p].at = "probe" /\ proc'[p].items = proc'[p].base
    BY <1>2 DEF StartValidate, IInv
  <2> QED  BY <1>1, <2>1, BuiltKept DEF BuiltFrom
<1>3. CASE Validate(p)
  <2> DEFINE c == proc[p]
  <2>1. c \in FileCommand /\ c.at = "probe" /\ BuiltFrom(c)
    BY <1>3, FileShape DEF Validate, Built
  <2>2. PICK failing \in Failures :
            LET new == Disabled(proc[p].items, Found(failing)) IN
            proc' = [proc EXCEPT ![p] =
                       IF new = proc[p].items THEN Off
                       ELSE [@ EXCEPT !.at = "truncate", !.items = new,
                                      !.sure = (failing = {})]]
    BY <1>3 DEF Validate
  <2>3. CASE c.base = <<>>
    <3>1. c.items = <<>>
      BY <2>1, <2>3 DEF BuiltFrom
    <3>2. Disabled(<<>>, Found(failing)) = <<>>
      BY DEF Disabled
    <3>3. proc'[p] = Off
      BY <2>2, <3>1, <3>2 DEF IInv
    <3> QED  BY <1>1, <3>3, BuiltKept DEF Off
  <2>4. CASE c.base # <<>>
    <3>1. proc'[p] = Off \/ proc'[p].base = c.base
      BY <2>1, <2>2 DEF FileCommand, IInv
    <3> QED  BY <1>1, <2>4, <3>1, BuiltKept DEF Off, BuiltFrom
  <2> QED  BY <2>3, <2>4
<1>4. CASE StartBuild(p)
  <2>1. PICK failing \in Failures :
          \E pool \in Pools(Found(failing)) :
            proc' = [proc EXCEPT ![p] =
                       [kind |-> "file", at |-> "truncate", items |-> pool,
                        base |-> <<>>, sure |-> (failing = {}), alone |-> TRUE]]
    BY <1>4 DEF StartBuild
  <2>2. PICK pool \in Pools(Found(failing)) :
            proc' = [proc EXCEPT ![p] =
                       [kind |-> "file", at |-> "truncate", items |-> pool,
                        base |-> <<>>, sure |-> (failing = {}), alone |-> TRUE]]
    BY <2>1
  <2>3. /\ proc'[p].at = "truncate" /\ proc'[p].items = pool
        /\ proc'[p].sure = (failing = {})
    BY <2>2 DEF IInv
  <2>4. BuiltFrom(proc'[p])
    BY <2>2, <2>3 DEF BuiltFrom
  <2> QED  BY <1>1, <2>4, BuiltKept
<1> QED  BY <1>2, <1>3, <1>4

(* A write of the file changes nothing of what is written.                 *)
LEMMA WriteBuilt ==
    ASSUME IInv, Built, NEW p \in Procs, Truncate(p) \/ Rewrite(p) \/ Kill(p)
    PROVE  Built'
<1>1. \A r \in Procs \ {p} : \/ proc'[r] = proc[r]
                             \/ /\ proc[r].kind = "file"
                                /\ proc'[r] = [proc[r] EXCEPT !.alone = FALSE]
  BY DEF Truncate, Rewrite, Kill, Disturbed, IInv
<1>2. CASE Truncate(p)
  <2>1. proc[p] \in FileCommand /\ BuiltFrom(proc[p]) /\ proc[p].at = "truncate"
    BY <1>2, FileShape DEF Truncate, Built
  <2>2. Disturbed(p, "file")[p] = proc[p] /\ p \in DOMAIN Disturbed(p, "file")
    BY DEF Disturbed
  <2>3. proc'[p] = [proc[p] EXCEPT !.at = "rewrite"]
    BY <1>2, <2>2 DEF Truncate
  <2>4. /\ proc'[p].at = "rewrite" /\ proc'[p].items = proc[p].items
        /\ proc'[p].base = proc[p].base /\ proc'[p].sure = proc[p].sure
    BY <2>1, <2>3 DEF FileCommand
  <2>5. BuiltFrom(proc'[p])
    BY <2>1, <2>4 DEF BuiltFrom
  <2> QED  BY <1>1, <2>5, BuiltKept
<1>3. CASE proc'[p] = Off
  BY <1>1, <1>3, BuiltKept DEF Off
<1>4. Rewrite(p) \/ Kill(p) => proc'[p] = Off
  BY DEF Rewrite, Kill, Disturbed, IInv
<1> QED  BY <1>2, <1>3, <1>4

LEMMA NextBuilt ==
    ASSUME IInv, Built, [Next]_vars
    PROVE  Built'
<1>1. CASE Edit
  <2>1. \A r \in Procs : \/ proc'[r] = proc[r]
                         \/ /\ proc[r].kind = "file"
                            /\ proc'[r] = [proc[r] EXCEPT !.alone = FALSE]
    BY <1>1 DEF Edit
  <2> QED  BY <2>1, BuiltKept
<1>2. CASE UNCHANGED vars
  BY <1>2, BuiltKept DEF vars
<1>3. ASSUME NEW p \in Procs,
             StartSync(p) \/ SelectRow(p) \/ WriteRow(p) \/ SelectAll(p) \/ DisableRest(p)
      PROVE  Built'
  BY <1>3, SyncKeepsFiles, BuiltKept
<1> QED  BY <1>1, <1>2, <1>3, ProbeBuilt, WriteBuilt DEF Next, Step

(* The items of a pool: on with a filter that is a candidate of the pair   *)
(* and has cars, or off because none has.                                  *)
LEMMA PoolItems ==
    ASSUME NEW failing, NEW pool \in Pools(Found(failing)), NEW k \in DOMAIN pool
    PROVE  LET label == InFileOrder[k] IN
           /\ k \in DOMAIN InFileOrder
           /\ \/ pool[k].on /\ pool[k].q \in AllCandidates(label) \cap Found(failing)
              \/ /\ ~pool[k].on /\ pool[k].q = NoQuery
                 /\ AllCandidates(label) \cap Found(failing) = {}
<1> DEFINE label == InFileOrder[k]
           won == Winners(label, Found(failing))
<1>1. k \in DOMAIN InFileOrder /\ pool[k] \in Items(label, Found(failing))
  BY DEF Pools
<1>2. /\ won \subseteq AllCandidates(label) \cap Found(failing)
      /\ AllCandidates(label) \cap Found(failing) # {} => won # {}
  BY WinnersProperties
<1>3. CASE won = {}
  <2>1. pool[k] = Unresolved(label)
    BY <1>1, <1>3 DEF Items
  <2> QED  BY <1>1, <1>2, <1>3, <2>1 DEF Unresolved
<1>4. CASE won # {}
  <2>1. PICK q \in won : pool[k] = [slug |-> Slug(label), on |-> TRUE, q |-> q]
    BY <1>1, <1>4 DEF Items
  <2>2. pool[k].on /\ pool[k].q = q
    BY <2>1
  <2> QED  BY <1>1, <1>2, <2>2
<1> QED  BY <1>3, <1>4

(* A pair whose candidate another pair has too.                            *)
LEMMA SharedCandidate ==
    ASSUME NEW j \in DOMAIN InFileOrder, NEW k \in DOMAIN InFileOrder,
           NEW q, CandidateOf(InFileOrder[j], q), CandidateOf(InFileOrder[k], q)
    PROVE  /\ InFileOrder[j].brand = InFileOrder[k].brand
           /\ Names(InFileOrder[j]) \cap Names(InFileOrder[k]) # {}
<1> DEFINE a == InFileOrder[j]
           b == InFileOrder[k]
<1>1. IsDomestic(a.brand) <=> IsDomestic(b.brand)
  BY DEF CandidateOf, CarType
<1>2. CASE IsDomestic(a.brand) /\ IsDomestic(b.brand)
  <2>1. a.brand = b.brand
    BY <1>2, TablesAssumption DEF CandidateOf, IsInjective, IsDomestic
  <2>2. q.group[1] = FamilyKr[a.base] /\ q.group[1] = FamilyKr[b.base]
    BY <1>2 DEF CandidateOf
  <2> QED  BY <1>2, <2>1, <2>2 DEF Names
<1>3. CASE ~IsDomestic(a.brand) /\ ~IsDomestic(b.brand)
  <2>1. q.manufacturer \in ImportCells(a.brand) \cap ImportCells(b.brand)
    BY <1>3 DEF CandidateOf
  <2>2. a.brand = b.brand
    BY <1>3, <2>1, TablesAssumption
  <2>3. q.group[1] \in Names(a) \cap Names(b)
    BY <1>3 DEF CandidateOf
  <2> QED  BY <2>2, <2>3
<1> QED  BY <1>1, <1>2, <1>3

(* A built pool is sound, whatever sheet it was built from.                *)
LEMMA BuiltSound ==
    ASSUME NEW failing \in Failures, NEW pool \in Pools(Found(failing))
    PROVE  /\ \A k \in DOMAIN pool :
                 /\ pool[k].on => pool[k].q \in Stocked \cap AllCandidates(InFileOrder[k])
                 /\ failing = {} /\ Stocked \cap AllCandidates(InFileOrder[k]) # {}
                       => pool[k].on
           /\ \A j, k \in DOMAIN pool :
                 pool[j].on /\ pool[k].q = pool[j].q =>
                    /\ InFileOrder[j].brand = InFileOrder[k].brand
                    /\ Names(InFileOrder[j]) \cap Names(InFileOrder[k]) # {}
<1>1. \A label : NoQuery \notin AllCandidates(label)
  <2>1. NoQuery.type = ""
    BY DEF NoQuery
  <2>2. \A label : CarType(label.brand) # ""
    BY DEF CarType
  <2> QED  BY <2>1, <2>2, CandidatesProperties DEF CandidateOf
<1>2. Found(failing) \subseteq Stocked \ {NoQuery} /\ Found({}) = Stocked \ {NoQuery}
  BY DEF Found
<1>3. ASSUME NEW k \in DOMAIN pool
      PROVE  /\ pool[k].on => pool[k].q \in Stocked \cap AllCandidates(InFileOrder[k])
             /\ failing = {} /\ Stocked \cap AllCandidates(InFileOrder[k]) # {}
                   => pool[k].on
  BY <1>1, <1>2, PoolItems
<1>4. ASSUME NEW j \in DOMAIN pool, NEW k \in DOMAIN pool,
             pool[j].on, pool[k].q = pool[j].q
      PROVE  /\ InFileOrder[j].brand = InFileOrder[k].brand
             /\ Names(InFileOrder[j]) \cap Names(InFileOrder[k]) # {}
  <2>1. j \in DOMAIN InFileOrder /\ k \in DOMAIN InFileOrder
    BY PoolItems
  <2>2. pool[j].q \in AllCandidates(InFileOrder[j]) /\ pool[j].q # NoQuery
    BY <1>2, <1>4, PoolItems
  <2>3. pool[k].q \in AllCandidates(InFileOrder[k])
    BY <1>4, <2>2, PoolItems
  <2> QED  BY <1>4, <2>1, <2>2, <2>3, CandidatesProperties, SharedCandidate
<1> QED  BY <1>3, <1>4

LEMMA BuiltIsSound == Built => BuildSound
<1> SUFFICES ASSUME Built, NEW p \in Procs,
                    proc[p].kind = "file", proc[p].at # "probe", proc[p].base = <<>>
             PROVE  LET pool == proc[p].items
                        Label(k) == InFileOrder[k]
                    IN /\ \A k \in DOMAIN pool :
                             /\ pool[k].on => pool[k].q \in Stocked \cap AllCandidates(Label(k))
                             /\ proc[p].sure /\ Stocked \cap AllCandidates(Label(k)) # {}
                                   => pool[k].on
                       /\ \A j, k \in DOMAIN pool :
                             pool[j].on /\ pool[k].q = pool[j].q =>
                                /\ Label(j).brand = Label(k).brand
                                /\ Names(Label(j)) \cap Names(Label(k)) # {}
  BY DEF BuildSound
<1>1. PICK failing \in Failures :
         proc[p].items \in Pools(Found(failing)) /\ (proc[p].sure => failing = {})
  BY DEF Built, BuiltFrom
<1> QED  BY <1>1, BuiltSound

(* An item that build_pool has written is on exactly if a candidate of its *)
(* pair has cars, unless a probe failed; and two pairs get the same filter *)
(* only if they are of one brand and have a name in common (resolve_pair,  *)
(* build_pool.py:361).                                                     *)
THEOREM PoolBuildSound == Spec => []BuildSound
<1>1. Init => Built
  BY DEF Init, Built, Off
<1>2. IInv /\ Built /\ [Next]_vars => Built'
  BY NextBuilt
<1> QED  BY PoolInvariant, BuiltIsSound, <1>1, <1>2, PTL DEF Spec
-----------------------------------------------------------------------------
(* A section of the file has the pairs of one kind, each once and in the   *)
(* order of the sheet.                                                     *)
OfKind(domestic) == {k \in 1 .. Len(Labels) : IsDomestic(Labels[k].brand) = domestic}

LEMMA SectionPicks ==
    ASSUME NEW domestic
    PROVE  /\ Section(domestic) \in Seq(Range(Labels))
           /\ \E w : Picks(Labels, Section(domestic), w, OfKind(domestic))
<1> DEFINE S == {l \in Range(Labels) : IsDomestic(l.brand) = domestic}
           I == {k \in 1 .. Len(Labels) : Labels[k] \in S}
<1>1. Labels \in Seq(Range(Labels)) /\ DOMAIN Labels = 1 .. Len(Labels)
  BY SheetAssumption
<1>2. I = OfKind(domestic)
  BY <1>1 DEF OfKind, Range
<1>3. Section(domestic) = Only(Labels, S)
  BY DEF Section
<1> HIDE DEF S
<1>4. Only(Labels, S) \in Seq(Range(Labels)) /\ \E w : Picks(Labels, Only(Labels, S), w, I)
  BY <1>1, OnlyPicks
<1> QED  BY <1>2, <1>3, <1>4

(* The file lists every pair of the sheet once: the domestic ones, then    *)
(* the imports, each kind in the order of the sheet (_to_models_yaml,      *)
(* build_pool.py:410).                                                     *)
THEOREM FileListsSheet ==
    /\ Len(InFileOrder) = Len(Labels)
    /\ \E pos \in Bijection(DOMAIN InFileOrder, DOMAIN Labels) :
          /\ \A j \in DOMAIN InFileOrder : InFileOrder[j] = Labels[pos[j]]
          /\ \A i, j \in DOMAIN InFileOrder : i < j =>
                LET a == Labels[pos[i]].brand
                    b == Labels[pos[j]].brand
                IN \/ IsDomestic(a) /\ ~IsDomestic(b)
                   \/ (IsDomestic(a) <=> IsDomestic(b)) /\ pos[i] < pos[j]
<1> DEFINE N == Len(Labels)
           s == Section(TRUE)
           t == Section(FALSE)
           S == OfKind(TRUE)
           T == OfKind(FALSE)
           L == Len(s)
           M == Len(s) + Len(t)
<1>1. Labels \in Seq(Range(Labels)) /\ N \in Nat /\ DOMAIN Labels = 1 .. N
  BY SheetAssumption
<1>2. /\ s \in Seq(Range(Labels)) /\ \E v : Picks(Labels, s, v, S)
      /\ t \in Seq(Range(Labels)) /\ \E w : Picks(Labels, t, w, T)
  BY SectionPicks
<1>3. InFileOrder = s \o t
  BY DEF InFileOrder
<1>4. /\ \A k \in S : k \in 1 .. N /\ IsDomestic(Labels[k].brand)
      /\ \A k \in T : k \in 1 .. N /\ ~IsDomestic(Labels[k].brand)
      /\ \A k \in 1 .. N : k \in S \/ k \in T
  BY DEF OfKind, IsDomestic
<1> HIDE DEF s, t, S, T
<1>5. PICK v : Picks(Labels, s, v, S)
  BY <1>2
<1>6. PICK w : Picks(Labels, t, w, T)
  BY <1>2
<1>7. /\ L \in Nat /\ Len(t) \in Nat /\ M \in Nat
      /\ L = Len(s) /\ M = L + Len(t)
      /\ s \o t \in Seq(Range(Labels)) /\ Len(s \o t) = M
      /\ \A j \in 1 .. L : (s \o t)[j] = s[j]
      /\ \A j \in 1 .. Len(t) : (s \o t)[L + j] = t[j]
  BY <1>2
<1> DEFINE pos == [j \in 1 .. M |-> IF j <= L THEN v[j] ELSE w[j - L]]
<1>8. /\ \A j \in 1 .. L : pos[j] = v[j] /\ v[j] \in S
      /\ \A j \in 1 .. Len(t) : pos[L + j] = w[j] /\ w[j] \in T
  <2>1. \A j \in 1 .. L : j \in 1 .. M /\ j <= L
    BY <1>7
  <2>2. \A j \in 1 .. Len(t) : L + j \in 1 .. M /\ ~(L + j <= L) /\ L + j - L = j
    BY <1>7
  <2>3. \A j \in 1 .. M : pos[j] = IF j <= L THEN v[j] ELSE w[j - L]
    OBVIOUS
  <2>4. /\ \A j \in 1 .. L : v[j] \in S
        /\ \A j \in 1 .. Len(t) : w[j] \in T
    BY <1>5, <1>6 DEF Picks
  <2> HIDE DEF pos, L, M
  <2>5. \A j \in 1 .. L : pos[j] = v[j]
    BY <2>1, <2>3
  <2>6. ASSUME NEW i \in 1 .. M, NEW j \in 1 .. Len(t), i = L + j PROVE pos[i] = w[j]
    <3>1. ~(i <= L) /\ i - L = j
      BY <1>7, <2>6
    <3> QED  BY <2>3, <3>1
  <2>7. \A j \in 1 .. Len(t) : pos[L + j] = w[j]
    BY <2>2, <2>6
  <2> QED  BY <2>4, <2>5, <2>7
<1>9. \A j \in 1 .. M : j \in 1 .. L \/ \E i \in 1 .. Len(t) : j = L + i
  <2> SUFFICES ASSUME NEW j \in 1 .. M, j \notin 1 .. L
               PROVE  \E i \in 1 .. Len(t) : j = L + i
    OBVIOUS
  <2>1. j - L \in 1 .. Len(t) /\ j = L + (j - L)
    BY <1>7
  <2> QED  BY <2>1
<1>10. DOMAIN pos = 1 .. M /\ pos \in [1 .. M -> 1 .. N]
  <2>1. DOMAIN pos = 1 .. M /\ pos = [j \in 1 .. M |-> pos[j]]
    OBVIOUS
  <2>2. ASSUME NEW j \in 1 .. M PROVE pos[j] \in 1 .. N
    <3> HIDE DEF pos, L, M
    <3>1. CASE j \in 1 .. L
      BY <1>4, <1>8, <3>1
    <3>2. CASE j \notin 1 .. L
      <4>1. PICK y \in 1 .. Len(t) : j = L + y
        BY <1>9, <3>2
      <4> QED  BY <1>4, <1>8, <4>1
    <3> QED  BY <3>1, <3>2
  <2> HIDE DEF pos, L, M
  <2> QED  BY <2>1, <2>2
<1> HIDE DEF pos, L, M
<1>11. ASSUME NEW i \in 1 .. M, NEW j \in 1 .. M, i < j
       PROVE  LET a == Labels[pos[i]].brand
                  b == Labels[pos[j]].brand
              IN \/ IsDomestic(a) /\ ~IsDomestic(b)
                 \/ (IsDomestic(a) <=> IsDomestic(b)) /\ pos[i] < pos[j]
  <2>1. CASE i \in 1 .. L /\ j \in 1 .. L
    BY <1>4, <1>5, <1>7, <1>8, <1>11, <2>1 DEF Picks
  <2>2. CASE i \in 1 .. L /\ j \notin 1 .. L
    <3>1. PICK y \in 1 .. Len(t) : j = L + y
      BY <1>9, <2>2
    <3> QED  BY <1>4, <1>8, <2>2, <3>1
  <2>3. CASE i \notin 1 .. L
    <3>1. PICK x \in 1 .. Len(t) : i = L + x
      BY <1>9, <2>3
    <3>2. j \notin 1 .. L
      BY <1>7, <1>11, <2>3
    <3>3. PICK y \in 1 .. Len(t) : j = L + y
      BY <1>9, <3>2
    <3>4. x < y
      BY <1>7, <1>11, <3>1, <3>3
    <3>5. w[x] < w[y]
      BY <1>6, <3>4 DEF Picks
    <3> QED  BY <1>4, <1>8, <3>1, <3>3, <3>5
  <2> QED  BY <2>1, <2>2, <2>3
<1>12. ASSUME NEW k \in 1 .. N PROVE \E j \in 1 .. M : pos[j] = k
  <2>1. CASE k \in S
    <3>1. PICK j \in 1 .. L : v[j] = k
      BY <1>5, <1>7, <2>1 DEF Picks
    <3>2. j \in 1 .. M
      BY <1>7
    <3> QED  BY <1>8, <3>1, <3>2
  <2>2. CASE k \in T
    <3>1. PICK j \in 1 .. Len(t) : w[j] = k
      BY <1>6, <2>2 DEF Picks
    <3>2. L + j \in 1 .. M
      BY <1>7
    <3> QED  BY <1>8, <3>1, <3>2
  <2> QED  BY <1>4, <2>1, <2>2
<1>13. ASSUME NEW i \in 1 .. M, NEW j \in 1 .. M, pos[i] = pos[j] PROVE i = j
  <2>1. pos[i] \in 1 .. N /\ i \in Int /\ j \in Int
    BY <1>7, <1>10
  <2>2. ~(pos[i] < pos[j]) /\ ~(pos[j] < pos[i])
    BY <1>13, <2>1
  <2>3. ~(i < j) /\ ~(j < i)
    BY <1>11, <1>13, <2>2
  <2> QED  BY <2>1, <2>3
<1>14. pos \in Bijection(1 .. M, 1 .. N)
  BY <1>10, <1>12, <1>13 DEF Bijection, Injection, Surjection, IsInjective
<1>15. M = N
  <2>1. Cardinality(1 .. M) = M /\ Cardinality(1 .. N) = N /\ IsFiniteSet(1 .. M)
    <3>1. 1 \in Int /\ M \in Int /\ N \in Int
      BY <1>1, <1>7
    <3>2. /\ IsFiniteSet(1 .. M)
          /\ Cardinality(1 .. M) = IF 1 > M THEN 0 ELSE M - 1 + 1
          /\ Cardinality(1 .. N) = IF 1 > N THEN 0 ELSE N - 1 + 1
      BY <3>1, FS_Interval
    <3> QED  BY <1>1, <1>7, <3>2
  <2>2. ExistsBijection(1 .. M, 1 .. N)
    BY <1>14 DEF ExistsBijection
  <2> QED  BY <2>1, <2>2, FS_Bijection
<1>16. DOMAIN InFileOrder = 1 .. M /\ Len(InFileOrder) = M
  BY <1>3, <1>7
<1>17. ASSUME NEW j \in 1 .. M PROVE InFileOrder[j] = Labels[pos[j]]
  <2>1. CASE j \in 1 .. L
    BY <1>3, <1>5, <1>7, <1>8, <2>1 DEF Picks
  <2>2. CASE j \notin 1 .. L
    <3>1. PICK x \in 1 .. Len(t) : j = L + x
      BY <1>9, <2>2
    <3> QED  BY <1>3, <1>6, <1>7, <1>8, <3>1 DEF Picks
  <2> QED  BY <2>1, <2>2
<1> QED  BY <1>1, <1>11, <1>14, <1>15, <1>16, <1>17

(* The slug of an item is that of its pair.                                *)
LEMMA PoolSlugs ==
    ASSUME NEW failing, NEW pool \in Pools(Found(failing))
    PROVE  /\ DOMAIN pool = DOMAIN InFileOrder
           /\ \A k \in DOMAIN pool : pool[k].slug = Slug(InFileOrder[k])
<1>1. /\ DOMAIN pool = DOMAIN InFileOrder
      /\ \A k \in DOMAIN pool : pool[k] \in Items(InFileOrder[k], Found(failing))
  BY DEF Pools
<1>2. \A label, found : \A item \in Items(label, found) : item.slug = Slug(label)
  BY DEF Items, Unresolved
<1> QED  BY <1>1, <1>2

(* Every item is in one bucket of the report.                              *)
LEMMA ReportCounts ==
    ASSUME NEW pool, NEW n \in Nat, DOMAIN pool = 1 .. n
    PROVE  Cardinality(Report(pool).resolved) + Cardinality(Report(pool).no_candidate)
              + Cardinality(Report(pool).no_listings) = n
<1> DEFINE D == 1 .. n
           A == Report(pool).resolved
           B == Report(pool).no_candidate
           C == Report(pool).no_listings
<1>1. /\ A \cup (B \cup C) = D
      /\ A \cap (B \cup C) = {} /\ B \cap C = {}
  BY DEF Report
<1>2. IsFiniteSet(D) /\ Cardinality(D) = n
  BY FS_Interval
<1> HIDE DEF A, B, C, D
<1>3. IsFiniteSet(A) /\ IsFiniteSet(B) /\ IsFiniteSet(C) /\ IsFiniteSet(B \cup C)
  <2>1. A \in SUBSET D /\ B \in SUBSET D /\ C \in SUBSET D /\ B \cup C \in SUBSET D
    BY <1>1
  <2> QED  BY <1>2, <2>1, FS_Subset
<1>4. /\ Cardinality(A) \in Nat /\ Cardinality(B) \in Nat /\ Cardinality(C) \in Nat
      /\ Cardinality(B \cup C) \in Nat
  BY <1>3, FS_CardinalityType
<1>5. Cardinality({}) = 0
  BY FS_EmptySet
<1>6. Cardinality(B \cup C) = Cardinality(B) + Cardinality(C) - Cardinality(B \cap C)
  BY <1>3, FS_Union
<1>7. Cardinality(A \cup (B \cup C)) =
         Cardinality(A) + Cardinality(B \cup C) - Cardinality(A \cap (B \cup C))
  BY <1>3, FS_Union
<1>8. /\ Cardinality(A \cap (B \cup C)) = 0 /\ Cardinality(B \cap C) = 0
      /\ Cardinality(A \cup (B \cup C)) = n
  BY <1>1, <1>2, <1>5
<1>9. Cardinality(A) + Cardinality(B) + Cardinality(C) = n
  BY <1>4, <1>6, <1>7, <1>8
<1> QED  BY <1>9 DEF A, B, C

LEMMA BuiltIsComplete == IInv /\ Built => BuildComplete
<1> SUFFICES ASSUME IInv, Built, NEW p \in Procs,
                    proc[p].kind = "file", proc[p].at # "probe", proc[p].base = <<>>
             PROVE  LET pool == proc[p].items
                        r == Report(pool)
                    IN /\ \A k \in DOMAIN Labels : \E j \in DOMAIN pool :
                             pool[j].slug = Slug(Labels[k]) /\ InFileOrder[j] = Labels[k]
                       /\ Len(pool) = Len(Labels)
                       /\ Cardinality(r.resolved) + Cardinality(r.no_candidate)
                              + Cardinality(r.no_listings) = Len(Labels)
  BY DEF BuildComplete
<1> DEFINE pool == proc[p].items
<1>1. PICK failing \in Failures : pool \in Pools(Found(failing))
  BY DEF Built, BuiltFrom
<1>2. /\ DOMAIN pool = DOMAIN InFileOrder
      /\ \A k \in DOMAIN pool : pool[k].slug = Slug(InFileOrder[k])
  BY <1>1, PoolSlugs
<1>3. PICK pos \in Bijection(DOMAIN InFileOrder, DOMAIN Labels) :
         \A j \in DOMAIN InFileOrder : InFileOrder[j] = Labels[pos[j]]
  BY FileListsSheet
<1>4. ASSUME NEW k \in DOMAIN Labels
      PROVE  \E j \in DOMAIN pool :
                pool[j].slug = Slug(Labels[k]) /\ InFileOrder[j] = Labels[k]
  <2>1. PICK j \in DOMAIN InFileOrder : pos[j] = k
    BY <1>3 DEF Bijection, Surjection
  <2> QED  BY <1>2, <1>3, <2>1
<1>5. Len(Labels) \in Nat /\ DOMAIN InFileOrder = 1 .. Len(Labels)
  <2>1. InFileOrder \in Seq(Range(Labels))
    <3> DEFINE a == Section(TRUE)
               b == Section(FALSE)
    <3>1. a \in Seq(Range(Labels)) /\ b \in Seq(Range(Labels))
      BY SectionPicks
    <3>2. InFileOrder = a \o b
      BY DEF InFileOrder
    <3> HIDE DEF a, b
    <3> QED  BY <3>1, <3>2
  <2> QED  BY <2>1, FileListsSheet
<1>6. Len(pool) = Len(Labels)
  <2>1. pool \in Seq(Item)
    BY FileShape DEF FileCommand
  <2> HIDE DEF pool
  <2> QED  BY <1>2, <1>5, <2>1
<1>7. Cardinality(Report(pool).resolved) + Cardinality(Report(pool).no_candidate)
         + Cardinality(Report(pool).no_listings) = Len(Labels)
  BY <1>2, <1>5, ReportCounts
<1> QED  BY <1>4, <1>6, <1>7

(* What build_pool writes has one item for each pair of the sheet, and its *)
(* report counts each item once (_to_models_yaml and _write_report,        *)
(* build_pool.py:410-470).                                                 *)
THEOREM PoolBuildComplete == Spec => []BuildComplete
<1>1. Init => Built
  BY DEF Init, Built, Off
<1>2. IInv /\ Built /\ [Next]_vars => Built'
  BY NextBuilt
<1> QED  BY PoolInvariant, BuiltIsComplete, <1>1, <1>2, PTL DEF Spec
=============================================================================
