-------------------------------- MODULE Pool --------------------------------
(***************************************************************************)
(* models.yaml and the table search_models, and the commands that read and *)
(* write them: sync (cli.py) copies the file into the table, validate-pool *)
(* --disable and build_pool rewrite the file.  Any number of them may run  *)
(* at once, beside an operator with an editor: nothing locks the file, and *)
(* sync commits row by row.                                                *)
(*                                                                         *)
(* The file is a sequence of items [slug, on, q], or Torn while it is not  *)
(* YAML the commands can read; what they read then raises.                 *)
(***************************************************************************)
EXTENDS BuildPool

CONSTANTS Procs,        \* processes
          Slugs, Queries,
          Stocked,      \* the queries with Count > 0
          Drafts,       \* items the operator may write
          InitialFiles, \* the models.yaml a deployment may begin with
          MaxItems,     \* bound: items in the file
          MaxEvents,    \* bound: edits, failing probes and kills
          Torn, NoRow,
          Bad           \* a query whose item ModelConfig rejects

Item == [slug : Slugs, on : BOOLEAN, q : Queries \cup {Bad}]
Row == [on : BOOLEAN, q : Queries]

(* Probes that raise count as an empty list; so do items without a raw_q.  *)
Found(failing) == (Stocked \ failing) \ {NoQuery}
Failures == {{}} \cup {{q} : q \in Stocked}

(* What the operator and build_pool write are items.                       *)
ASSUME PoolAssumption ==
    /\ InitialFiles \subseteq Seq(Item) /\ Drafts \subseteq Item
    /\ \A failing \in Failures : Pools(Found(failing)) \subseteq Seq(Item)
    /\ NoRow \notin Row

VARIABLES file,         \* models.yaml
          table,        \* slug -> [on, q] of search_models, or NoRow
          proc,         \* process -> the command it runs, or Off
          events

vars == <<file, table, proc, events>>

Off == [kind |-> "off"]

Init == /\ file \in InitialFiles
        /\ table = [s \in Slugs |-> NoRow]
        /\ proc = [p \in Procs |-> Off]
        /\ events = 0

Event == /\ events < MaxEvents
         /\ events' = events + 1

(* A write of p (or of the operator) to the table or the file: commands of *)
(* that kind under way are no longer alone.                                *)
Disturbed(p, kind) ==
    [r \in Procs |-> IF r # p /\ proc[r].kind = kind
                     THEN [proc[r] EXCEPT !.alone = FALSE] ELSE proc[r]]

SlugsIn(items) == [k \in DOMAIN items |-> items[k].slug]
SlugsOf(items) == {items[k].slug : k \in DOMAIN items}

-----------------------------------------------------------------------------
(* sync.                                                                   *)

StartSync(p) ==
    /\ proc[p] = Off
    /\ file # Torn
    /\ proc' = [proc EXCEPT ![p] =
                  [kind |-> "sync", at |-> "select", items |-> file, k |-> 1,
                   loaded |-> NoRow, gone |-> {}, alone |-> TRUE]]
    /\ UNCHANGED <<file, table, events>>

SelectRow(p) ==
    /\ proc[p].kind = "sync" /\ proc[p].at = "select"
    /\ proc[p].k <= Len(proc[p].items)
    /\ LET item == proc[p].items[proc[p].k] IN
       proc' = [proc EXCEPT ![p] =
                  IF item.q = Bad THEN Off    \* build_url_from_item raises
                  ELSE [@ EXCEPT !.at = "write", !.loaded = table[item.slug]]]
    /\ UNCHANGED <<file, table, events>>

BugMerge(row, loaded, item) ==          \* only the URL is updated
    IF loaded = NoRow THEN [on |-> item.on, q |-> item.q] ELSE [row EXCEPT !.q = item.q]

(* INSERT, or UPDATE of the columns whose loaded value differs.            *)
Merge(row, loaded, item) ==
    IF loaded = NoRow THEN [on |-> item.on, q |-> item.q]
    ELSE [on |-> IF loaded.on # item.on THEN item.on ELSE row.on,
          q  |-> IF loaded.q # item.q THEN item.q ELSE row.q]

(* The commit of one row.  A row inserted by another sync since the SELECT *)
(* violates the unique slug, which ends the command.                       *)
WriteRow(p) ==
    /\ proc[p].kind = "sync" /\ proc[p].at = "write"
    /\ LET c == proc[p]
           item == c.items[c.k]
           row == table[item.slug]
       IN IF c.loaded = NoRow /\ row # NoRow
          THEN /\ proc' = [proc EXCEPT ![p] = Off]
               /\ UNCHANGED table
          ELSE /\ table' = [table EXCEPT ![item.slug] = Merge(row, c.loaded, item)]
               /\ proc' = [Disturbed(p, "sync") EXCEPT
                             ![p].at = "select", ![p].k = @ + 1]
    /\ UNCHANGED <<file, events>>

GoneUnknown(items) ==                   \* the slugs are not those of the rows
    Slugs \ SlugsOf(items)
Gone(items) ==
    {s \in Slugs : table[s] # NoRow /\ table[s].on /\ s \notin SlugsOf(items)}

SelectAll(p) ==
    /\ proc[p].kind = "sync" /\ proc[p].at = "select"
    /\ proc[p].k > Len(proc[p].items)
    /\ proc' = [proc EXCEPT ![p].at = "disable", ![p].gone = Gone(proc[p].items)]
    /\ UNCHANGED <<file, table, events>>

DisableRest(p) ==
    /\ proc[p].kind = "sync" /\ proc[p].at = "disable"
    /\ table' = [s \in Slugs |-> IF s \in proc[p].gone
                                 THEN [table[s] EXCEPT !.on = FALSE] ELSE table[s]]
    /\ proc' = [Disturbed(p, "sync") EXCEPT ![p] = Off]
    /\ UNCHANGED <<file, events>>

-----------------------------------------------------------------------------
(* validate-pool --disable and build_pool.  Both take their time for the   *)
(* probes, and write_text truncates the file before it fills it.           *)

StartValidate(p) ==
    /\ proc[p] = Off
    /\ file # Torn
    /\ proc' = [proc EXCEPT ![p] =
                  [kind |-> "file", at |-> "probe", items |-> file,
                   base |-> file, sure |-> TRUE, alone |-> TRUE]]
    /\ UNCHANGED <<file, table, events>>

Sure(failing) == IF failing = {} THEN UNCHANGED events ELSE Event

BugDisabled(items, found) == [k \in DOMAIN items |-> [items[k] EXCEPT !.on = FALSE]]
Disabled(items, found) ==
    [k \in DOMAIN items |->
       [items[k] EXCEPT !.on = @ /\ \A j \in DOMAIN items :
            items[j].slug = items[k].slug /\ items[j].on => items[j].q \in found]]

Validate(p) ==
    /\ proc[p].kind = "file" /\ proc[p].at = "probe"
    /\ \E failing \in Failures :
          /\ Sure(failing)
          /\ LET new == Disabled(proc[p].items, Found(failing)) IN
             proc' = [proc EXCEPT ![p] =
                        IF new = proc[p].items THEN Off
                        ELSE [@ EXCEPT !.at = "truncate", !.items = new,
                                       !.sure = (failing = {})]]
    /\ UNCHANGED <<file, table>>

StartBuild(p) ==
    /\ proc[p] = Off
    /\ \E failing \in Failures :
          /\ Sure(failing)
          /\ \E pool \in Pools(Found(failing)) :
                proc' = [proc EXCEPT ![p] =
                           [kind |-> "file", at |-> "truncate", items |-> pool,
                            base |-> <<>>, sure |-> (failing = {}), alone |-> TRUE]]
    /\ UNCHANGED <<file, table>>

Truncate(p) ==
    /\ proc[p].kind = "file" /\ proc[p].at = "truncate"
    /\ file' = Torn
    /\ proc' = [Disturbed(p, "file") EXCEPT ![p].at = "rewrite"]
    /\ UNCHANGED <<table, events>>

(* What was written by somebody else since the truncation may stick out    *)
(* behind the new text, which is no YAML then.                             *)
Rewrite(p) ==
    /\ proc[p].kind = "file" /\ proc[p].at = "rewrite"
    /\ file' \in {proc[p].items} \cup (IF file = Torn THEN {} ELSE {Torn})
    /\ proc' = [Disturbed(p, "file") EXCEPT ![p] = Off]
    /\ UNCHANGED <<table, events>>

(* A command is killed.  In the middle of a rewrite it leaves a part of    *)
(* the text, which may be readable.                                        *)
Kill(p) ==
    /\ Event
    /\ proc[p] # Off
    /\ IF proc[p].kind = "file" /\ proc[p].at = "rewrite"
       THEN \/ /\ \E k \in 1 .. Len(proc[p].items) : file' = SubSeq(proc[p].items, 1, k)
               /\ proc' = [Disturbed(p, "file") EXCEPT ![p] = Off]
            \/ /\ proc' = [proc EXCEPT ![p] = Off]
               /\ UNCHANGED file
       ELSE /\ proc' = [proc EXCEPT ![p] = Off]
            /\ UNCHANGED file
    /\ UNCHANGED table

-----------------------------------------------------------------------------
(* The operator: one item is changed, removed or added, or a file that     *)
(* cannot be read is taken from the repository again.                      *)
Edit ==
    /\ Event
    /\ \/ /\ file # Torn
          /\ \/ \E k \in DOMAIN file, d \in Drafts :
                   d.slug = file[k].slug /\ file' = ReplaceAt(file, k, d)
             \/ \E k \in DOMAIN file : file' = RemoveAt(file, k)
             \/ /\ Len(file) < MaxItems
                /\ \E d \in Drafts : d.slug \notin SlugsOf(file) /\ file' = Append(file, d)
       \/ /\ file = Torn
          /\ file' \in InitialFiles
    /\ proc' = [r \in Procs |-> IF proc[r].kind = "file"
                                THEN [proc[r] EXCEPT !.alone = FALSE] ELSE proc[r]]
    /\ UNCHANGED table

Step(p) == \/ SelectRow(p) \/ WriteRow(p) \/ SelectAll(p) \/ DisableRest(p)
           \/ Validate(p) \/ Truncate(p) \/ Rewrite(p)

Next == \/ \E p \in Procs : \/ StartSync(p) \/ StartValidate(p) \/ StartBuild(p)
                            \/ Step(p)
                            \/ Kill(p)
        \/ Edit

Spec == Init /\ [][Next]_vars

(* A command that was started moves on.  None is started by itself: sync   *)
(* runs when a container starts, the others by hand.                       *)
FairSpec == Spec /\ \A p \in Procs : WF_vars(Step(p))

-----------------------------------------------------------------------------
SyncCommand == [kind : {"sync"}, at : {"select", "write", "disable"},
                items : Seq(Item), k : Nat \ {0}, loaded : Row \cup {NoRow},
                gone : SUBSET Slugs, alone : BOOLEAN]
FileCommand == [kind : {"file"}, at : {"probe", "truncate", "rewrite"},
                items : Seq(Item), base : Seq(Item), sure : BOOLEAN, alone : BOOLEAN]

TypeOK == /\ file = Torn \/ file \in Seq(Item)
          /\ table \in [Slugs -> Row \cup {NoRow}]
          /\ \A p \in Procs : \/ proc[p] = Off
                              \/ proc[p] \in FileCommand
                              \/ proc[p] \in SyncCommand
          /\ \A p \in Procs : proc[p].kind = "sync" /\ proc[p].at = "write" =>
                                 proc[p].k <= Len(proc[p].items)
          /\ \A p \in Procs : proc[p].kind = "sync" =>
                                 \A s \in proc[p].gone : table[s] # NoRow
          /\ events \in Nat

(* The last item with a slug decides, a slug without an item is off.       *)
Agrees(tab, items) ==
    \A s \in Slugs :
        IF s \notin SlugsOf(items) THEN tab[s] = NoRow \/ ~tab[s].on
        ELSE LET last == items[CHOOSE k \in DOMAIN items :
                                  /\ items[k].slug = s
                                  /\ \A j \in k + 1 .. Len(items) : items[j].slug # s]
             IN tab[s] = [on |-> last.on, q |-> last.q]

(* A sync that reaches its end while no other writes the table leaves      *)
(* exactly the pool it read (cli.py:103, "disable models no longer in      *)
(* YAML"), whatever aborted syncs left in the table before it.             *)
SyncedAgrees ==
    [][\A p \in Procs : DisableRest(p) /\ proc[p].alone
                           => Agrees(table', proc[p].items)]_vars

(* Whatever commands overlapped, were killed or failed before: once the    *)
(* file is readable, well-formed and left alone, and as long as sync is    *)
(* started again and again, the table ends up in agreement with it.        *)
Wellformed(items) ==
    /\ items # Torn
    /\ \A k \in DOMAIN items : items[k].q # Bad
    /\ IsInjective(SlugsIn(items))
SyncBegins == \E p \in Procs : proc[p].kind = "sync" /\ proc[p].k = 1
PoolConverges ==
    <>[]Wellformed(file) /\ <>[][file' = file]_vars /\ []<>SyncBegins
        => <>[](file # Torn /\ Agrees(table, file))

(* A validation of distinct models whose probes all come back, and under   *)
(* which nobody writes the file, turns off exactly the models without a    *)
(* car (cli.py:60), and changes nothing else.                              *)
OnlyEmptyModelsDisabled ==
    [][\A p \in Procs :
          Rewrite(p) /\ proc[p].alone /\ proc[p].sure /\ IsInjective(SlugsIn(proc[p].base))
              /\ proc[p].base # <<>> =>
             /\ DOMAIN file' = DOMAIN proc[p].base
             /\ \A k \in DOMAIN file' :
                   LET old == proc[p].base[k] IN
                   file'[k] = [old EXCEPT !.on = @ /\ old.q \in Stocked \ {NoQuery}]
      ]_vars

(* An item that build_pool has written is on exactly if a candidate of its *)
(* pair has cars (build_pool.py:6-8), unless a probe failed; and two pairs *)
(* get the same filter only if they are of one brand and have a name in    *)
(* common, as Avante and Avante Hybrid do, or 3 Series and 3 Series GT.    *)
Names(label) ==
    IF IsDomestic(label.brand) THEN {FamilyKr[label.base]}
    ELSE {label.base} \cup
         {SubmodelKr[x] : x \in {<<label.brand, label.base>>} \cap DOMAIN SubmodelKr}
BuildSound ==
    \A p \in Procs :
        proc[p].kind = "file" /\ proc[p].at # "probe" /\ proc[p].base = <<>> =>
          LET pool == proc[p].items
              Label(k) == InFileOrder[k]
          IN /\ \A k \in DOMAIN pool :
                   /\ pool[k].on => pool[k].q \in Stocked \cap AllCandidates(Label(k))
                   /\ proc[p].sure /\ Stocked \cap AllCandidates(Label(k)) # {}
                         => pool[k].on
             /\ \A j, k \in DOMAIN pool :
                   pool[j].on /\ pool[k].q = pool[j].q =>
                      /\ Label(j).brand = Label(k).brand
                      /\ Names(Label(j)) \cap Names(Label(k)) # {}

(* ... and it has written one item for each pair of the sheet and counted  *)
(* it once in its report (build_pool.py:442-455).                          *)
BuildComplete ==
    \A p \in Procs :
        proc[p].kind = "file" /\ proc[p].at # "probe" /\ proc[p].base = <<>> =>
          LET pool == proc[p].items
              r == Report(pool)
          IN /\ \A k \in DOMAIN Labels : \E j \in DOMAIN pool :
                   pool[j].slug = Slug(Labels[k]) /\ InFileOrder[j] = Labels[k]
             /\ Len(pool) = Len(Labels)
             /\ Cardinality(r.resolved) + Cardinality(r.no_candidate)
                    + Cardinality(r.no_listings) = Len(Labels)
=============================================================================
