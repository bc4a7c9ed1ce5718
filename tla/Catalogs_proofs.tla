-------------------------- MODULE Catalogs_proofs --------------------------
(***************************************************************************)
(* Proofs about the price lists: what a worker remembers after it answered *)
(* a save, what an import may change and what it leaves a backup of, what  *)
(* a start keeps.  The invariant says, beside the types, what a request in *)
(* the middle of its work already knows to be in the table of backups.     *)
(***************************************************************************)
EXTENDS Catalogs, WellFoundedInduction, TLAPS

(* ------------------- the last of the rows that change ------------------- *)

LEMMA LeastIndex ==
    ASSUME NEW S, S \subseteq Nat, S # {} PROVE \E i \in S : \A k \in S : i <= k
<1> DEFINE Less == {ss \in Nat \X Nat : ss[1] < ss[2]}
<1>1. IsWellFoundedOn(Less, Nat)
  BY NatLessThanWellFounded DEF OpToRel
<1>2. \E i \in S : \A k \in S : ~(<<k, i>> \in Less)
  <2> HIDE DEF Less
  <2> QED BY <1>1, WFMin
<1>3. \A i, k \in Nat : <<k, i>> \in Less <=> k < i
  OBVIOUS
<1> HIDE DEF Less
<1>4. PICK i \in S : \A k \in S : ~(<<k, i>> \in Less)
  BY <1>2
<1>5. ASSUME NEW k \in S PROVE i <= k
  <2>1. i \in Nat /\ k \in Nat /\ ~(k < i)
    BY <1>3, <1>4
  <2> QED BY <2>1
<1> QED BY <1>5

LEMMA GreatestIndex ==
    ASSUME NEW n \in Nat, NEW S, S \subseteq 1..n, S # {} PROVE \E i \in S : \A k \in S : k <= i
<1> DEFINE T == {m \in Nat : \E i \in S : m = n - i}
<1>0. \A i \in S : i \in 1..n /\ n - i \in T
  OBVIOUS
<1>1. PICK j \in T : \A k \in T : j <= k
  <2>1. T \subseteq Nat /\ T # {}
    BY <1>0
  <2> HIDE DEF T
  <2> QED BY <2>1, LeastIndex
<1>2. PICK i \in S : j = n - i
  BY <1>1
<1>3. ASSUME NEW k \in S PROVE k <= i
  <2>1. j <= n - k
    BY <1>0, <1>1
  <2> QED BY <1>0, <1>2, <2>1
<1> QED BY <1>3

LEMMA LastIsOneOf ==
    ASSUME NEW n \in Nat, NEW rows, rows \subseteq 1..n, rows # {} PROVE LastOf(rows) \in rows
BY GreatestIndex DEF LastOf

LEMMA PricesOfItems ==
    ASSUME NEW file \in Imports, PriceColumn(file.columns) # 0, NEW current, NEW n,
           NEW i \in ItemsOf(file, current, n)
    PROVE  PriceAt(file, i) \in Int \cup {None} /\ file.rows[i] \in Range(file.rows)
BY ImportsAssumption DEF ItemsOf, PriceAt, Range

(* What the upsert of an import returns: the same items, none of them free *)
(* that was not, and those the file does not name as they were.            *)
LEMMA UpsertIsSafe ==
    ASSUME NEW file \in Imports, PriceColumn(file.columns) # 0, NEW read, NEW n,
           NEW current, IsContent(current),
           NEW new, new = Upsert(current, file, ItemsOf(file, read, n))
    PROVE  /\ DOMAIN new = DOMAIN current /\ IsContent(new)
           /\ \A sku \in DOMAIN current : current[sku] # 0 => new[sku] # 0
           /\ \A sku \in DOMAIN current :
                sku \notin {r.sku : r \in Range(file.rows)} => new[sku] = current[sku]
<1> DEFINE items == ItemsOf(file, read, n)
           Named(sku) == {i \in items : file.rows[i].sku = sku}
           Updated(sku) == {i \in Named(sku) : Updates(PriceAt(file, i), current[sku])}
           Normalized(sku) == {i \in Named(sku) : Normalizes(PriceAt(file, i), current[sku])}
<1>1. Len(file.rows) \in Nat /\ items \subseteq 1..Len(file.rows)
  BY ImportsAssumption DEF ItemsOf
<1>2. /\ DOMAIN new = DOMAIN current
      /\ \A sku \in DOMAIN current :
           new[sku] = IF Normalized(sku) # {} THEN PriceAt(file, LastOf(Normalized(sku)))
                      ELSE IF Updated(sku) # {} THEN PriceAt(file, LastOf(Updated(sku)))
                      ELSE current[sku]
  BY DEF Upsert
<1>3. ASSUME NEW i \in items, NEW old, Updates(PriceAt(file, i), old) \/ Normalizes(PriceAt(file, i), old)
      PROVE  PriceAt(file, i) \in Int /\ PriceAt(file, i) # 0
  <2>1. PriceAt(file, i) \in Int \cup {None}
    BY PricesOfItems
  <2> QED BY <1>3, <2>1 DEF Updates, Normalizes
<1>4. ASSUME NEW sku \in DOMAIN current
      PROVE  new[sku] = current[sku]
             \/ (Named(sku) # {} /\ new[sku] \in Int /\ new[sku] # 0)
  <2>1. CASE Normalized(sku) # {}
    <3>1. LastOf(Normalized(sku)) \in Normalized(sku)
      <4> HIDE DEF items
      <4> QED BY <1>1, <2>1, LastIsOneOf
    <3> QED BY <1>2, <1>3, <2>1, <3>1
  <2>2. CASE Normalized(sku) = {} /\ Updated(sku) # {}
    <3>1. LastOf(Updated(sku)) \in Updated(sku)
      <4> HIDE DEF items
      <4> QED BY <1>1, <2>2, LastIsOneOf
    <3> QED BY <1>2, <1>3, <2>2, <3>1
  <2> QED BY <1>2, <2>1, <2>2
<1>5. ASSUME NEW sku, sku \notin {r.sku : r \in Range(file.rows)} PROVE Named(sku) = {}
  BY <1>5, PricesOfItems
<1> HIDE DEF Named
<1>6. \A sku \in DOMAIN current : current[sku] \in Int
  BY DEF IsContent
<1>7. \A sku \in DOMAIN new : new[sku] \in Int
  BY <1>2, <1>4, <1>6
<1> QED BY <1>2, <1>4, <1>5, <1>6, <1>7 DEF IsContent
(* ----------------------------- the invariant ---------------------------- *)

Kinds == {"idle", "put", "replace", "forget", "budget", "import", "upsert", "restore"}

Shapes ==
  /\ DOMAIN files = Names /\ \A n \in Names : IsContent(files[n])
  /\ DOMAIN cache = Workers /\ \A w \in Workers : DOMAIN cache[w] = Names
  /\ DOMAIN jobs = Admins
  /\ DOMAIN writer = Names /\ \A n \in Names : writer[n] \in Workers \cup {None}

IsBackedUp(n, content) == [name |-> n, content |-> content] \in backups

SaveOK(j) == j.worker \in Workers /\ j.name \in Names /\ IsContent(j.content)
ImportOK(j) ==
  /\ j.worker \in Workers /\ j.file \in Imports /\ PriceColumn(j.file.columns) # 0
  /\ j.chosen \in Seq(Priced) /\ j.todo \subseteq DOMAIN j.chosen
  /\ \A n \in Priced : IsContent(j.read[n])

(* What a request in the middle of its work may count on: before it writes *)
(* over a list, what it read of it is in the table of backups.             *)
JobOK(j) ==
  /\ j.kind \in {"put", "replace", "restore"} => SaveOK(j)
  /\ j.kind = "replace" => DOMAIN j.read[j.name] = {} \/ IsBackedUp(j.name, j.read[j.name])
  /\ j.kind = "budget" => IsContent(j.read)
  /\ j.kind \in {"import", "upsert"} => ImportOK(j)
  /\ j.kind = "upsert" => \A i \in j.todo : First(i, j.todo) => IsBackedUp(j.chosen[i], j.read[j.chosen[i]])
  /\ j.kind = "forget" =>
       /\ j.worker \in Workers /\ j.name \in Names
       /\ j.next.kind \in {"idle", "import"} /\ (j.next.kind = "import" => ImportOK(j.next))
JobsOK == \A a \in Admins : JobOK(jobs[a])

IInv == TypeOK /\ Shapes /\ JobsOK /\ SaverIsCurrent

(* A request whose step is over: the others know what they knew. *)
LEMMA JobsStep ==
    ASSUME IInv, NEW a \in Admins, NEW j, jobs' = [jobs EXCEPT ![a] = j],
           backups \subseteq backups', JobOK(jobs[a])', jobs'[a].kind \in Kinds
    PROVE  /\ DOMAIN jobs' = Admins /\ JobsOK'
           /\ \A b \in Admins : jobs'[b].kind \in Kinds
<1>1. DOMAIN jobs' = Admins /\ \A b \in Admins \ {a} : jobs'[b] = jobs[b]
  BY DEF IInv, Shapes
<1>2. ASSUME NEW b \in Admins \ {a} PROVE JobOK(jobs[b])' /\ jobs'[b].kind \in Kinds
  <2>1. JobOK(jobs[b]) /\ jobs[b].kind \in Kinds /\ jobs'[b] = jobs[b]
    BY <1>1 DEF IInv, JobsOK, TypeOK, Kinds
  <2> QED BY <2>1 DEF JobOK, IsBackedUp, SaveOK, ImportOK
<1> QED BY <1>1, <1>2 DEF JobsOK

\* No step but Invalidate takes a request out of the state between its save
\* and the moment its worker forgets.
LEMMA SaverKept ==
    ASSUME IInv, UNCHANGED <<table, deployed, cache>>,
           NEW a \in Admins, NEW j, jobs' = [jobs EXCEPT ![a] = j], jobs[a].kind # "forget"
    PROVE  SaverIsCurrent'
<1>1. ASSUME NEW w, NEW n, Saving(w, n) PROVE Saving(w, n)'
  BY <1>1 DEF Saving, IInv, Shapes
<1> QED BY <1>1 DEF table, deployed, IInv, SaverIsCurrent

(* A step of one request that leaves the prices alone. *)
LEMMA RequestStep ==
    ASSUME IInv, UNCHANGED <<table, deployed, cache>>,
           NEW a \in Admins, NEW j, jobs' = [jobs EXCEPT ![a] = j], jobs[a].kind # "forget",
           backups \subseteq backups', \A b \in backups' \ backups : b.name \in Names /\ IsContent(b.content),
           JobOK(jobs[a])', jobs'[a].kind \in Kinds
    PROVE  IInv'
<1>1. TypeOK'
  BY JobsStep DEF table, deployed, IInv, TypeOK, Kinds
<1>2. Shapes'
  BY JobsStep DEF table, deployed, IInv, Shapes
<1> QED BY <1>1, <1>2, JobsStep, SaverKept DEF IInv

LEMMA BeginStep ==
    ASSUME IInv, NEW a \in Admins, NEW job, Begin(a, job), job.kind \in Kinds, UNCHANGED <<table, deployed, backups, cache>>,
           JobOK(job)
    PROVE  IInv'
<1>1. jobs' = [jobs EXCEPT ![a] = job] /\ jobs'[a] = job /\ jobs[a].kind # "forget"
  BY DEF Begin, Idle, IInv, Shapes
<1>2. JobOK(jobs[a])'
  BY <1>1 DEF JobOK, SaveOK, ImportOK, IsBackedUp
<1> QED BY <1>1, <1>2, RequestStep

LEMMA RequestsBegin == ASSUME IInv, NEW a \in Admins, NEW w \in Workers, Request(a, w) PROVE IInv'
<1>1. ASSUME NEW n \in Names, NEW content \in Edits[n], Put(a, w, n, content) PROVE IInv'
  <2> DEFINE job == [kind |-> "put", worker |-> w, name |-> n, content |-> content]
  <2>1. IsContent(content)
    BY CatalogsAssumption
  <2>2. job.kind \in Kinds /\ JobOK(job)
    BY <2>1 DEF Kinds, JobOK, SaveOK
  <2>3. Begin(a, job) /\ UNCHANGED <<table, deployed, backups, cache>>
    BY <1>1 DEF Put
  <2> HIDE DEF job
  <2> QED BY <2>2, <2>3, BeginStep
<1>2. ASSUME NEW file \in Imports, NEW chosen \in Selections, Import(a, w, file, chosen) PROVE IInv'
  <2>0. PICK current \in [Priced -> UNION {Loaded(n) : n \in Priced}] :
          /\ \A n \in Priced : current[n] \in Loaded(n)
          /\ LET todo == {i \in DOMAIN chosen : ItemsOf(file, current, chosen[i]) # {}}
             IN Begin(a, [kind |-> "import", worker |-> w, file |-> file, chosen |-> chosen,
                          read |-> current, todo |-> todo])
    BY <1>2 DEF Import
  <2> DEFINE todo == {i \in DOMAIN chosen : ItemsOf(file, current, chosen[i]) # {}}
             job == [kind |-> "import", worker |-> w, file |-> file, chosen |-> chosen,
                     read |-> current, todo |-> todo]
  <2>1. \A n \in Priced : IsContent(current[n])
    BY <2>0 DEF IInv, TypeOK, Shapes, Names, Loaded
  <2>2. chosen \in Seq(Priced) /\ PriceColumn(file.columns) # 0
    BY <1>2 DEF Import, Selections
  <2>3. Begin(a, job) /\ UNCHANGED <<table, deployed, backups, cache>> /\ todo \subseteq DOMAIN chosen
    BY <1>2, <2>0 DEF Import
  <2> HIDE DEF todo
  <2>4. job.kind \in Kinds /\ JobOK(job)
    BY <2>1, <2>2, <2>3 DEF Kinds, JobOK, ImportOK
  <2> HIDE DEF job
  <2> QED BY <2>3, <2>4, BeginStep
<1>3. ASSUME NEW b \in backups, Restore(a, w, b) PROVE IInv'
  <2> DEFINE job == [kind |-> "restore", worker |-> w, name |-> b.name, content |-> b.content]
  <2>1. job.kind \in Kinds /\ JobOK(job)
    BY DEF Kinds, JobOK, SaveOK, IInv, TypeOK
  <2>2. Begin(a, job) /\ UNCHANGED <<table, deployed, backups, cache>>
    BY <1>3 DEF Restore
  <2> HIDE DEF job
  <2> QED BY <2>1, <2>2, BeginStep
<1>4. CASE Budget(a, w)
  <2> DEFINE job == [kind |-> "budget", worker |-> w, read |-> db[Config]]
  <2>1. job.kind \in Kinds /\ JobOK(job)
    BY DEF Kinds, JobOK, IInv, TypeOK, Names
  <2>2. Begin(a, job) /\ UNCHANGED <<table, deployed, backups, cache>>
    BY <1>4 DEF Budget
  <2> HIDE DEF job
  <2> QED BY <2>1, <2>2, BeginStep
<1> QED BY <1>1, <1>2, <1>3, <1>4 DEF Request
(* --------------------------- backups of a list -------------------------- *)

LEMMA NextImportOK ==
    ASSUME NEW j, ImportOK(j), NEW rest, rest \subseteq j.todo, NEW next, next = NextImport(j, rest)
    PROVE  /\ next.kind \in {"idle", "import"} /\ (next.kind = "import" => ImportOK(next))
           /\ JobOK(next)
<1>1. CASE rest = {}
  BY <1>1 DEF NextImport, Idle, JobOK
<1>2. CASE next = Importing("import", j, rest)
  BY <1>2 DEF Importing, ImportOK, JobOK
<1> QED BY <1>1, <1>2 DEF NextImport

LEMMA BackupStep == ASSUME IInv, NEW a \in Admins, Backup(a) PROVE IInv'
<1> DEFINE j == jobs[a]
<1>1. /\ j.kind = "import" /\ ImportOK(j)
      /\ UNCHANGED <<table, deployed, cache>>
  BY DEF Backup, IInv, JobsOK, JobOK
<1>2. PICK i \in j.todo :
        /\ First(i, j.todo)
        /\ \/ /\ backups' = backups \cup {[name |-> j.chosen[i], content |-> j.read[j.chosen[i]]]}
              /\ jobs' = [jobs EXCEPT ![a] = Importing("upsert", j, j.todo)]
           \/ /\ jobs' = [jobs EXCEPT ![a] = NextImport(j, j.todo \ {i})]
              /\ backups' = backups
  BY DEF Backup
<1>3. j.chosen[i] \in Priced /\ i \in DOMAIN j.chosen
  BY <1>1 DEF ImportOK
<1>4. CASE /\ backups' = backups \cup {[name |-> j.chosen[i], content |-> j.read[j.chosen[i]]]}
           /\ jobs' = [jobs EXCEPT ![a] = Importing("upsert", j, j.todo)]
  <2> DEFINE up == Importing("upsert", j, j.todo)
  <2>1. jobs'[a] = up /\ up.kind = "upsert" /\ up.todo = j.todo /\ up.read = j.read /\ up.chosen = j.chosen /\ ImportOK(up)
    BY <1>1, <1>4 DEF Importing, ImportOK, IInv, Shapes
  <2>2. \A k \in j.todo : First(k, j.todo) => k = i
    BY <1>1, <1>2 DEF First, ImportOK
  <2> HIDE DEF up
  <2>3. JobOK(jobs[a])' /\ jobs'[a].kind \in Kinds
    BY <1>4, <2>1, <2>2 DEF JobOK, IsBackedUp, ImportOK, Kinds
  <2>4. \A b \in backups' \ backups : b.name \in Names /\ IsContent(b.content)
    BY <1>1, <1>3, <1>4 DEF ImportOK, Names
  <2>5. jobs' = [jobs EXCEPT ![a] = up]
    BY <1>4 DEF up
  <2> QED BY <1>1, <1>4, <2>3, <2>4, <2>5, RequestStep
<1>5. CASE /\ jobs' = [jobs EXCEPT ![a] = NextImport(j, j.todo \ {i})]
           /\ backups' = backups
  <2> DEFINE next == NextImport(j, j.todo \ {i})
  <2>1. jobs'[a] = next /\ jobs' = [jobs EXCEPT ![a] = next]
    BY <1>5 DEF IInv, Shapes
  <2> HIDE DEF next
  <2>2. next.kind \in {"idle", "import"} /\ JobOK(next)
    BY <1>1, NextImportOK DEF next
  <2>3. JobOK(jobs[a])' /\ jobs'[a].kind \in Kinds
    BY <1>5, <2>1, <2>2 DEF JobOK, IsBackedUp, SaveOK, ImportOK, Kinds
  <2> QED BY <1>1, <1>5, <2>1, <2>3, RequestStep
<1> QED BY <1>2, <1>4, <1>5

LEMMA RestoreStep == ASSUME IInv, NEW a \in Admins, RestoreBackup(a) PROVE IInv'
<1> DEFINE j == jobs[a]
<1>1. j.kind = "restore" /\ SaveOK(j) /\ UNCHANGED <<table, deployed, cache>>
  BY DEF RestoreBackup, IInv, JobsOK, JobOK
<1>2. PICK current \in Loaded(j.name) :
        /\ backups' = backups \cup (IF DOMAIN current = {} THEN {} ELSE {[name |-> j.name, content |-> current]})
        /\ jobs' = [jobs EXCEPT ![a] = [kind |-> "replace", worker |-> j.worker, name |-> j.name,
                                        content |-> j.content, read |-> [n \in {j.name} |-> current]]]
  BY DEF RestoreBackup
<1>3. IsContent(current)
  BY <1>1 DEF Loaded, SaveOK, IInv, TypeOK, Shapes
<1> DEFINE replace == [kind |-> "replace", worker |-> j.worker, name |-> j.name,
                       content |-> j.content, read |-> [n \in {j.name} |-> current]]
<1>4. jobs'[a] = replace /\ jobs' = [jobs EXCEPT ![a] = replace]
  BY <1>2 DEF IInv, Shapes
<1>5. /\ SaveOK(replace) /\ replace.kind = "replace" /\ replace.read[replace.name] = current
      /\ DOMAIN current = {} \/ [name |-> replace.name, content |-> current] \in backups'
  BY <1>1, <1>2 DEF SaveOK
<1> HIDE DEF replace
<1>6. JobOK(jobs[a])' /\ jobs'[a].kind \in Kinds
  BY <1>4, <1>5 DEF JobOK, SaveOK, IsBackedUp, Kinds
<1>7. /\ backups \subseteq backups'
      /\ \A b \in backups' \ backups : b.name \in Names /\ IsContent(b.content)
  BY <1>1, <1>2, <1>3 DEF SaveOK
<1> QED BY <1>1, <1>4, <1>6, <1>7, RequestStep

(* ---------------------------- saves of a list --------------------------- *)

(* Between its commit and the moment its worker forgets, a save leaves the *)
(* worker's copy of that one list open, and its request says so.           *)
LEMMA SaveStep ==
    ASSUME IInv, NEW a \in Admins, NEW n \in Names, NEW content, IsContent(content), Save(a, n, content),
           NEW next, jobs' = [jobs EXCEPT ![a] = [kind |-> "forget", worker |-> jobs[a].worker, name |-> n, next |-> next]],
           jobs[a].worker \in Workers, jobs[a].kind # "forget",
           next.kind \in {"idle", "import"}, next.kind = "import" => ImportOK(next),
           UNCHANGED <<deployed, backups, cache>>
    PROVE  IInv'
<1> DEFINE forget == [kind |-> "forget", worker |-> jobs[a].worker, name |-> n, next |-> next]
<1>1. jobs'[a] = forget /\ jobs' = [jobs EXCEPT ![a] = forget]
  BY DEF IInv, Shapes
<1>2. forget.kind = "forget" /\ forget.worker = jobs[a].worker /\ forget.name = n /\ forget.next = next
  OBVIOUS
<1> HIDE DEF forget
<1>3. JobOK(jobs[a])' /\ jobs'[a].kind \in Kinds
  BY <1>1, <1>2 DEF JobOK, ImportOK, Kinds
<1>4. DOMAIN jobs' = Admins /\ JobsOK' /\ \A b \in Admins : jobs'[b].kind \in Kinds
  BY <1>1, <1>3, JobsStep
<1>5. /\ DOMAIN db' = Names /\ db'[n] = content /\ \A m \in Names \ {n} : db'[m] = db[m]
      /\ DOMAIN writer' = Names /\ writer'[n] = jobs[a].worker /\ \A m \in Names \ {n} : writer'[m] = writer[m]
  BY DEF Save, IInv, TypeOK, Shapes
<1>6. TypeOK'
  BY <1>4, <1>5 DEF IInv, TypeOK, Kinds
<1>7. Shapes'
  BY <1>4, <1>5 DEF table, deployed, IInv, Shapes
<1>8. SaverIsCurrent'
  <2>1. Saving(jobs[a].worker, n)'
    BY <1>1, <1>2 DEF Saving
  <2>2. ASSUME NEW w, NEW m, Saving(w, m) PROVE Saving(w, m)'
    BY <2>2, <1>1 DEF Saving, IInv, Shapes
  <2>3. ASSUME NEW m \in Names, writer'[m] # None, ~Saving(writer[m], m)'
        PROVE  cache'[writer'[m]][m] \in {None, db'[m], files'[m]}
    <3>1. m # n
      BY <1>5, <2>1, <2>3
    <3>2. writer'[m] = writer[m] /\ ~Saving(writer[m], m)
      BY <1>5, <2>2, <2>3, <3>1
    <3> QED BY <1>5, <2>3, <3>1, <3>2 DEF table, deployed, IInv, SaverIsCurrent
  <2> QED BY <2>3 DEF SaverIsCurrent
<1> QED BY <1>4, <1>6, <1>7, <1>8 DEF IInv

LEMMA SavePutStep == ASSUME IInv, NEW a \in Admins, SavePut(a) PROVE IInv'
<1>1. SaveOK(jobs[a]) /\ jobs[a].kind # "forget"
  BY DEF SavePut, IInv, JobsOK, JobOK
<1>2. Save(a, jobs[a].name, jobs[a].content) /\ UNCHANGED <<deployed, backups, cache>>
  BY DEF SavePut
<1>3. jobs' = [jobs EXCEPT ![a] = [kind |-> "forget", worker |-> jobs[a].worker, name |-> jobs[a].name, next |-> Idle]]
  BY DEF SavePut
<1>4. Idle.kind = "idle"
  BY DEF Idle
<1> QED BY <1>1, <1>2, <1>3, <1>4, SaveStep DEF SaveOK

LEMMA SaveImportStep == ASSUME IInv, NEW a \in Admins, SaveImport(a) PROVE IInv'
<1> DEFINE j == jobs[a]
<1>1. j.kind = "upsert" /\ ImportOK(j) /\ UNCHANGED <<deployed, backups, cache>>
  BY DEF SaveImport, IInv, JobsOK, JobOK
<1>2. PICK i \in j.todo :
        \/ /\ Save(a, j.chosen[i], Upsert(j.read[j.chosen[i]], j.file, ItemsOf(j.file, j.read, j.chosen[i])))
           /\ jobs' = [jobs EXCEPT ![a] = [kind |-> "forget", worker |-> j.worker, name |-> j.chosen[i],
                                           next |-> NextImport(j, j.todo \ {i})]]
        \/ /\ jobs' = [jobs EXCEPT ![a] = NextImport(j, j.todo \ {i})]
           /\ UNCHANGED table
  BY DEF SaveImport
<1> DEFINE n == j.chosen[i]
           next == NextImport(j, j.todo \ {i})
           content == Upsert(j.read[n], j.file, ItemsOf(j.file, j.read, n))
<1>3. n \in Priced /\ n \in Names
  BY <1>1 DEF ImportOK, Names
<1>4. next.kind \in {"idle", "import"} /\ (next.kind = "import" => ImportOK(next)) /\ JobOK(next)
  <2> HIDE DEF next
  <2> QED BY <1>1, NextImportOK DEF next
<1>5. IsContent(content)
  <2>1. IsContent(j.read[n])
    BY <1>1, <1>3 DEF ImportOK
  <2> HIDE DEF content
  <2> QED BY <1>1, <2>1, UpsertIsSafe DEF content, ImportOK
<1>6. \/ /\ Save(a, n, content)
         /\ jobs' = [jobs EXCEPT ![a] = [kind |-> "forget", worker |-> jobs[a].worker, name |-> n, next |-> next]]
      \/ jobs' = [jobs EXCEPT ![a] = next] /\ UNCHANGED table
  BY <1>2
<1> HIDE DEF n, next, content
<1>7. CASE /\ Save(a, n, content)
           /\ jobs' = [jobs EXCEPT ![a] = [kind |-> "forget", worker |-> jobs[a].worker, name |-> n, next |-> next]]
  BY <1>1, <1>3, <1>4, <1>5, <1>7, SaveStep DEF ImportOK
<1>8. CASE jobs' = [jobs EXCEPT ![a] = next] /\ UNCHANGED table
  <2>1. jobs'[a] = next
    BY <1>8 DEF IInv, Shapes
  <2>2. JobOK(jobs[a])' /\ jobs'[a].kind \in Kinds
    BY <1>1, <1>4, <2>1 DEF JobOK, IsBackedUp, SaveOK, ImportOK, Kinds
  <2> QED BY <1>1, <1>8, <2>2, RequestStep
<1> QED BY <1>6, <1>7, <1>8

LEMMA SaveBudgetStep == ASSUME IInv, NEW a \in Admins, SaveBudget(a) PROVE IInv'
<1> DEFINE read == jobs[a].read
           content == [read EXCEPT !.budget = @ + 1]
<1>1. /\ jobs[a].kind = "budget" /\ IsContent(read)
      /\ db' = [db EXCEPT ![Config] = content] /\ writer' = [writer EXCEPT ![Config] = None]
      /\ jobs' = [jobs EXCEPT ![a] = Idle] /\ UNCHANGED <<deployed, backups, cache>>
  BY DEF SaveBudget, IInv, JobsOK, JobOK
<1>2. IsContent(content)
  <2> HIDE DEF read
  <2>1. DOMAIN content = DOMAIN read /\ \A k \in DOMAIN read : content[k] \in {read[k], read["budget"] + 1}
    OBVIOUS
  <2>2. \A k \in DOMAIN read : content[k] \in Int
    <3> SUFFICES ASSUME NEW k \in DOMAIN read PROVE content[k] \in Int
      OBVIOUS
    <3>1. read[k] \in Int
      BY <1>1 DEF IsContent
    <3>2. CASE k = "budget"
      BY <3>1, <3>2
    <3>3. CASE k # "budget"
      BY <3>1, <3>3
    <3> QED BY <3>2, <3>3
  <2> QED BY <2>1, <2>2 DEF IsContent
<1> HIDE DEF content
<1>3. jobs'[a] = Idle /\ JobOK(jobs[a])' /\ jobs'[a].kind \in Kinds
  BY <1>1 DEF Idle, JobOK, Kinds, IInv, Shapes
<1>4. DOMAIN jobs' = Admins /\ JobsOK' /\ \A b \in Admins : jobs'[b].kind \in Kinds
  BY <1>1, <1>3, JobsStep
<1>5. /\ DOMAIN db' = Names /\ db'[Config] = content /\ \A m \in Names \ {Config} : db'[m] = db[m]
      /\ DOMAIN writer' = Names /\ writer'[Config] = None /\ \A m \in Names \ {Config} : writer'[m] = writer[m]
  BY <1>1 DEF IInv, TypeOK, Shapes, Names
<1>6. TypeOK'
  BY <1>1, <1>2, <1>4, <1>5 DEF IInv, TypeOK, Kinds
<1>7. Shapes'
  BY <1>1, <1>4, <1>5 DEF table, deployed, IInv, Shapes
<1>8. SaverIsCurrent'
  <2>1. ASSUME NEW w, NEW m, Saving(w, m) PROVE Saving(w, m)'
    BY <1>1, <2>1 DEF Saving, IInv, Shapes
  <2> QED BY <1>1, <1>5, <2>1 DEF table, deployed, IInv, SaverIsCurrent
<1> QED BY <1>4, <1>6, <1>7, <1>8 DEF IInv

(* -------------------------- what a worker keeps ------------------------- *)

LEMMA CacheStep ==
    ASSUME IInv, NEW w \in Workers, NEW n \in Names, NEW content, cache' = [cache EXCEPT ![w][n] = content]
    PROVE  /\ DOMAIN cache' = Workers /\ \A v \in Workers : DOMAIN cache'[v] = Names
           /\ cache'[w][n] = content
           /\ \A v \in Workers, m \in Names : v # w \/ m # n => cache'[v][m] = cache[v][m]
BY DEF IInv, Shapes

LEMMA LoadStep == ASSUME IInv, NEW w \in Workers, NEW n \in Names, LoadCatalog(w, n) PROVE IInv'
<1>1. PICK content \in {db[n], files[n]} : cache' = [cache EXCEPT ![w][n] = content]
  BY DEF LoadCatalog
<1>2. UNCHANGED <<table, deployed, backups, jobs>>
  BY DEF LoadCatalog
<1>3. IsContent(content)
  BY <1>1 DEF IInv, TypeOK, Shapes
<1>4. TypeOK'
  BY <1>1, <1>2, <1>3, CacheStep DEF table, deployed, IInv, TypeOK
<1>5. Shapes'
  BY <1>1, <1>2, CacheStep DEF table, deployed, IInv, Shapes
<1>6. JobsOK'
  BY <1>2 DEF IInv, JobsOK, JobOK, SaveOK, ImportOK, IsBackedUp
<1>7. SaverIsCurrent'
  <2> SUFFICES ASSUME NEW m \in Names, writer[m] # None, ~Saving(writer[m], m)
               PROVE  cache'[writer[m]][m] \in {None, db[m], files[m]}
    BY <1>2 DEF table, deployed, SaverIsCurrent, Saving
  <2>1. cache[writer[m]][m] \in {None, db[m], files[m]}
    BY DEF IInv, SaverIsCurrent
  <2>2. CASE writer[m] = w /\ m = n
    BY <1>1, <2>2, CacheStep
  <2>3. CASE ~(writer[m] = w /\ m = n)
    <3>1. writer[m] \in Workers
      BY DEF IInv, Shapes
    <3>2. cache'[writer[m]][m] = cache[writer[m]][m]
      BY <1>1, <2>3, <3>1, CacheStep
    <3> QED BY <2>1, <3>2
  <2> QED BY <2>2, <2>3
<1> QED BY <1>4, <1>5, <1>6, <1>7 DEF IInv

LEMMA InvalidateStep == ASSUME IInv, NEW a \in Admins, Invalidate(a) PROVE IInv'
<1> DEFINE w == jobs[a].worker
           n == jobs[a].name
           next == jobs[a].next
<1>1. /\ jobs[a].kind = "forget" /\ w \in Workers /\ n \in Names
      /\ next.kind \in {"idle", "import"} /\ (next.kind = "import" => ImportOK(next))
      /\ cache' = [cache EXCEPT ![w][n] = None] /\ jobs' = [jobs EXCEPT ![a] = next]
      /\ UNCHANGED <<table, deployed, backups>>
  BY DEF Invalidate, Forget, IInv, JobsOK, JobOK
<1>2. /\ DOMAIN cache' = Workers /\ \A v \in Workers : DOMAIN cache'[v] = Names
      /\ cache'[w][n] = None
      /\ \A v \in Workers, m \in Names : v # w \/ m # n => cache'[v][m] = cache[v][m]
  BY <1>1, CacheStep
<1>3. jobs'[a] = next /\ JobOK(jobs[a])' /\ jobs'[a].kind \in Kinds
  BY <1>1 DEF JobOK, ImportOK, Kinds, IInv, Shapes
<1>4. DOMAIN jobs' = Admins /\ JobsOK' /\ \A b \in Admins : jobs'[b].kind \in Kinds
  BY <1>1, <1>3, JobsStep
<1>5. TypeOK'
  BY <1>1, <1>2, <1>4 DEF table, deployed, IInv, TypeOK, Kinds
<1>6. Shapes'
  BY <1>1, <1>2, <1>4 DEF table, deployed, IInv, Shapes
<1>7. SaverIsCurrent'
  <2> SUFFICES ASSUME NEW m \in Names, writer[m] # None, ~Saving(writer[m], m)'
               PROVE  cache'[writer[m]][m] \in {None, db[m], files[m]}
    BY <1>1 DEF table, deployed, SaverIsCurrent
  <2>1. writer[m] \in Workers
    BY DEF IInv, Shapes
  <2>2. CASE writer[m] = w /\ m = n
    BY <1>2, <2>2
  <2>3. CASE ~(writer[m] = w /\ m = n)
    <3>1. ~Saving(writer[m], m)
      BY <1>1, <1>3, <2>3 DEF table, deployed, Saving, IInv, Shapes
    <3>2. cache'[writer[m]][m] = cache[writer[m]][m]
      BY <1>2, <2>1, <2>3
    <3> QED BY <3>1, <3>2 DEF IInv, SaverIsCurrent
  <2> QED BY <2>2, <2>3
<1> QED BY <1>4, <1>5, <1>6, <1>7 DEF IInv

(* -------------------------------- starts -------------------------------- *)

(* What a start leaves in the table: the keys of both, and of a key of both *)
(* the one that was there, if the file is not newer.                        *)
LEMMA WhatStarts ==
    ASSUME IInv, NEW content, NEW times, DOMAIN content = Names, \A n \in Names : IsContent(content[n]),
           Boot(content, times)
    PROVE  /\ DOMAIN db' = Names /\ \A n \in Names : IsContent(db'[n])
           /\ DOMAIN content[Config] \subseteq DOMAIN db'[Config]
           /\ \A n \in Names \ Newer(times) : Keeps(n)
<1> DEFINE newer == Newer(times)
           synced == [n \in Names |-> IF n \in newer THEN content[n] ELSE db[n]]
           merged == MergeKeys(synced[Config], content[Config])
<1>1. db' = [synced EXCEPT ![Config] = merged] /\ Config \in Names
  BY DEF Boot, SyncedFrom, Names
<1>2. DOMAIN synced = Names /\ \A n \in Names : IsContent(synced[n])
  BY DEF IInv, TypeOK
<1>3. \A n \in Names \ newer : synced[n] = db[n]
  OBVIOUS
<1> HIDE DEF synced, newer
<1>4. /\ DOMAIN merged = DOMAIN synced[Config] \cup DOMAIN content[Config]
      /\ \A k \in DOMAIN merged :
           merged[k] = IF k \in DOMAIN synced[Config] THEN synced[Config][k] ELSE content[Config][k]
  BY DEF MergeKeys
<1> HIDE DEF merged
<1>5. IsContent(merged)
  BY <1>1, <1>2, <1>4 DEF IsContent
<1>6. DOMAIN db' = Names /\ db'[Config] = merged /\ \A n \in Names \ {Config} : db'[n] = synced[n]
  BY <1>1, <1>2
<1>7. ASSUME NEW n \in Names \ newer, NEW k \in DOMAIN db[n]
      PROVE  k \in DOMAIN db'[n] /\ db'[n][k] = db[n][k]
  <2>1. CASE n = Config
    BY <1>3, <1>4, <1>6, <2>1
  <2>2. CASE n # Config
    BY <1>3, <1>6, <2>2
  <2> QED BY <2>1, <2>2
<1> QED BY <1>2, <1>4, <1>5, <1>6, <1>7 DEF Keeps, newer

LEMMA BootStep ==
    ASSUME IInv, NEW content, NEW times, DOMAIN content = Names, \A n \in Names : IsContent(content[n]),
           Boot(content, times)
    PROVE  IInv'
<1>1. /\ files' = content /\ cache' = [w \in Workers |-> Nothing] /\ jobs' = [a \in Admins |-> Idle]
      /\ writer' = [n \in Names |-> None] /\ backups' = backups
  BY DEF Boot
<1>2. DOMAIN db' = Names /\ \A n \in Names : IsContent(db'[n])
  BY WhatStarts
<1>3. TypeOK'
  BY <1>1, <1>2 DEF IInv, TypeOK, Nothing, Idle
<1>4. Shapes'
  BY <1>1 DEF Shapes, Nothing
<1>5. JobsOK' /\ SaverIsCurrent'
  BY <1>1 DEF JobsOK, JobOK, Idle, SaverIsCurrent
<1> QED BY <1>3, <1>4, <1>5 DEF IInv

LEMMA ImagesAreContents == \A image \in Images \cup {Seeds} : DOMAIN image = Names /\ \A n \in Names : IsContent(image[n])
BY CatalogsAssumption

(* The starts of the specification. *)
LEMMA Starts ==
    ASSUME IInv, \/ Restart
                 \/ \E content \in Images \cup {files}, time \in 0..(Now + 1), fresh \in BOOLEAN :
                      Deploy(content, time, fresh)
    PROVE  \E content, times :
             Boot(content, times) /\ DOMAIN content = Names /\ \A n \in Names : IsContent(content[n])
BY ImagesAreContents DEF Restart, Deploy, IInv, Shapes

LEMMA InitOK == Init => IInv
<1> SUFFICES ASSUME Init PROVE IInv
  OBVIOUS
<1>1. DOMAIN Seeds = Names /\ \A n \in Names : IsContent(Seeds[n])
  BY ImagesAreContents
<1>2. TypeOK
  BY <1>1 DEF Init, TypeOK, Nothing, Idle
<1>3. Shapes
  BY <1>1 DEF Init, Shapes, Nothing
<1>4. JobsOK /\ SaverIsCurrent
  BY DEF Init, JobsOK, JobOK, Idle, SaverIsCurrent
<1> QED BY <1>2, <1>3, <1>4 DEF IInv

LEMMA Inductive == IInv /\ [Next]_vars => IInv'
<1> SUFFICES ASSUME IInv, [Next]_vars PROVE IInv'
  OBVIOUS
<1>1. ASSUME NEW a \in Admins, Work(a) PROVE IInv'
  BY <1>1, SavePutStep, SaveBudgetStep, BackupStep, SaveImportStep, RestoreStep, InvalidateStep DEF Work
<1>2. ASSUME NEW a \in Admins, NEW w \in Workers, Request(a, w) PROVE IInv'
  BY <1>2, RequestsBegin
<1>3. ASSUME NEW w \in Workers, NEW n \in Names, LoadCatalog(w, n) PROVE IInv'
  BY <1>3, LoadStep
<1>4. CASE \/ Restart
           \/ \E content \in Images \cup {files}, time \in 0..(Now + 1), fresh \in BOOLEAN :
                Deploy(content, time, fresh)
  BY <1>4, Starts, BootStep
<1>5. CASE UNCHANGED vars
  BY <1>5 DEF vars, table, deployed, IInv, TypeOK, Shapes, JobsOK, JobOK, SaveOK, ImportOK, IsBackedUp,
             SaverIsCurrent, Saving
<1> QED BY <1>1, <1>2, <1>3, <1>4, <1>5 DEF Next

LEMMA Invariance == Spec => []IInv
BY InitOK, Inductive, PTL DEF Spec

(* ------------------------------ the theorems ---------------------------- *)

(* The worker that answered the last save of a list prices with it from the *)
(* moment it has answered, whatever the others read, saved or imported      *)
(* meanwhile (_invalidate_catalog after the commit, catalog/router.py).     *)
THEOREM CachesAlwaysHold == Spec => []CachesHold
<1>1. IInv => CachesHold
  BY DEF IInv, CachesHold
<1> QED BY <1>1, Invariance, PTL

(* Only two steps are the write of a list that something was kept of. *)
LEMMA WhoSaves ==
    ASSUME IInv, [Next]_vars, NEW a \in Admins,
           jobs[a].kind \in {"upsert", "replace"}, jobs'[a].kind = "forget"
    PROVE  SaveImport(a) \/ SavePut(a)
<1>1. DOMAIN jobs = Admins
  BY DEF IInv, Shapes
<1>2. ASSUME NEW b \in Admins, Work(b) PROVE SaveImport(a) \/ SavePut(a)
  <2>1. b = a
    BY <1>1, <1>2 DEF Work, SavePut, SaveBudget, Backup, SaveImport, RestoreBackup, Invalidate
  <2> QED BY <1>2, <2>1 DEF Work, SaveBudget, Backup, RestoreBackup, Invalidate
<1>3. ASSUME NEW b \in Admins, NEW w \in Workers, Request(b, w) PROVE FALSE
  <2>1. PICK job : Begin(b, job)
    BY <1>3 DEF Request, Put, Import, Restore, Budget
  <2>2. jobs[b].kind = "idle" /\ jobs' = [jobs EXCEPT ![b] = job]
    BY <2>1 DEF Begin, Idle
  <2> QED BY <1>1, <2>2
<1>4. ASSUME NEW w \in Workers, NEW n \in Names, LoadCatalog(w, n) PROVE FALSE
  BY <1>4 DEF LoadCatalog
<1>5. ASSUME NEW content, NEW times, Boot(content, times) PROVE FALSE
  BY <1>5 DEF Boot, Idle
<1>6. CASE UNCHANGED vars
  BY <1>6 DEF vars
<1> QED BY <1>2, <1>3, <1>4, <1>5, <1>6 DEF Next, Restart, Deploy

(* An import that writes over the list it read makes no item free, loses    *)
(* and adds none, and those the file does not name keep their price         *)
(* (generate_diff and the upsert of import_apply).                          *)
THEOREM ImportKeepsTheRestHolds == Spec => ImportKeepsTheRest
<1>1. ASSUME IInv, [Next]_vars, NEW a \in Admins,
             jobs[a].kind = "upsert", jobs'[a].kind = "forget",
             jobs[a].read[jobs'[a].name] = db[jobs'[a].name]
      PROVE  LET n == jobs'[a].name
             IN /\ DOMAIN db'[n] = DOMAIN db[n]
                /\ \A sku \in DOMAIN db[n] : db[n][sku] # 0 => db'[n][sku] # 0
                /\ \A sku \in DOMAIN db[n] :
                     sku \notin {r.sku : r \in Range(jobs[a].file.rows)} => db'[n][sku] = db[n][sku]
  <2> DEFINE j == jobs[a]
  <2>1. SaveImport(a)
    BY <1>1, WhoSaves DEF SavePut
  <2>2. ImportOK(j) /\ DOMAIN jobs = Admins
    BY <1>1 DEF IInv, JobsOK, JobOK, Shapes
  <2>3. PICK i \in j.todo :
          \/ /\ Save(a, j.chosen[i], Upsert(j.read[j.chosen[i]], j.file, ItemsOf(j.file, j.read, j.chosen[i])))
             /\ jobs' = [jobs EXCEPT ![a] = [kind |-> "forget", worker |-> j.worker, name |-> j.chosen[i],
                                             next |-> NextImport(j, j.todo \ {i})]]
          \/ jobs' = [jobs EXCEPT ![a] = NextImport(j, j.todo \ {i})]
    BY <2>1 DEF SaveImport
  <2>4. NextImport(j, j.todo \ {i}).kind # "forget"
    BY DEF NextImport, Idle, Importing
  <2>5. /\ Save(a, j.chosen[i], Upsert(j.read[j.chosen[i]], j.file, ItemsOf(j.file, j.read, j.chosen[i])))
        /\ jobs'[a].name = j.chosen[i]
    BY <1>1, <2>2, <2>3, <2>4
  <2> DEFINE n == j.chosen[i]
             content == Upsert(j.read[n], j.file, ItemsOf(j.file, j.read, n))
  <2>6. n \in Names /\ IsContent(j.read[n])
    BY <2>2 DEF ImportOK, Names
  <2>7. jobs'[a].name = n /\ db'[n] = content
    BY <1>1, <2>5, <2>6 DEF Save, IInv, TypeOK
  <2> HIDE DEF n, content
  <2>8. /\ DOMAIN content = DOMAIN j.read[n]
        /\ \A sku \in DOMAIN j.read[n] : j.read[n][sku] # 0 => content[sku] # 0
        /\ \A sku \in DOMAIN j.read[n] :
             sku \notin {r.sku : r \in Range(j.file.rows)} => content[sku] = j.read[n][sku]
    BY <2>2, <2>6, UpsertIsSafe DEF content, ImportOK
  <2> QED BY <1>1, <2>7, <2>8
<1>2. IInv /\ [Next]_vars =>
        \A a \in Admins :
          LET n == jobs'[a].name
          IN jobs[a].kind = "upsert" /\ jobs'[a].kind = "forget" /\ jobs[a].read[n] = db[n] =>
               /\ DOMAIN db'[n] = DOMAIN db[n]
               /\ \A sku \in DOMAIN db[n] : db[n][sku] # 0 => db'[n][sku] # 0
               /\ \A sku \in DOMAIN db[n] :
                    sku \notin {r.sku : r \in Range(jobs[a].file.rows)} => db'[n][sku] = db[n][sku]
  BY <1>1
<1> QED BY <1>2, Invariance, PTL DEF Spec, ImportKeepsTheRest

(* What an import or a restore read of the table and writes over is in a    *)
(* backup first, whatever the other requests do in between.                 *)
THEOREM ReplacedIsBackedUpHolds == Spec => ReplacedIsBackedUp
<1>1. ASSUME IInv, [Next]_vars, NEW a \in Admins,
             jobs[a].kind \in {"upsert", "replace"}, jobs'[a].kind = "forget",
             jobs[a].read[jobs'[a].name] = db[jobs'[a].name], DOMAIN db[jobs'[a].name] # {}
      PROVE  [name |-> jobs'[a].name, content |-> db[jobs'[a].name]] \in backups
  <2> DEFINE j == jobs[a]
  <2>1. DOMAIN jobs = Admins /\ JobOK(j)
    BY <1>1 DEF IInv, JobsOK, Shapes
  <2>2. CASE SavePut(a)
    <3>1. j.kind = "replace" /\ jobs'[a].name = j.name
      BY <1>1, <2>1, <2>2 DEF SavePut
    <3> QED BY <1>1, <2>1, <3>1 DEF JobOK, IsBackedUp
  <2>3. CASE SaveImport(a)
    <3>1. PICK i \in j.todo :
            /\ First(i, j.todo)
            /\ \/ jobs' = [jobs EXCEPT ![a] = [kind |-> "forget", worker |-> j.worker, name |-> j.chosen[i],
                                               next |-> NextImport(j, j.todo \ {i})]]
               \/ jobs' = [jobs EXCEPT ![a] = NextImport(j, j.todo \ {i})]
      BY <2>3 DEF SaveImport
    <3>2. NextImport(j, j.todo \ {i}).kind # "forget"
      BY DEF NextImport, Idle, Importing
    <3>3. jobs'[a].name = j.chosen[i] /\ j.kind = "upsert"
      BY <1>1, <2>1, <2>3, <3>1, <3>2 DEF SaveImport
    <3> QED BY <1>1, <2>1, <3>1, <3>3 DEF JobOK, IsBackedUp
  <2> QED BY <1>1, <2>2, <2>3, WhoSaves
<1>2. IInv /\ [Next]_vars =>
        \A a \in Admins :
          LET n == jobs'[a].name IN
          /\ jobs[a].kind \in {"upsert", "replace"}
          /\ jobs'[a].kind = "forget"
          /\ jobs[a].read[n] = db[n] /\ DOMAIN db[n] # {}
          => [name |-> n, content |-> db[n]] \in backups
  BY <1>1
<1> QED BY <1>2, Invariance, PTL DEF Spec, ReplacedIsBackedUp

(* An import touches what its file names, and what it replaces can be had   *)
(* back: the two before, which a run checks as one.                         *)
THEOREM ImportsAreSafe == Spec => ImportIsSafe
BY ImportKeepsTheRestHolds, ReplacedIsBackedUpHolds DEF ImportIsSafe

(* The times of rows and files: a row is never older than its file once the *)
(* process has started, and a price list no older than its last change. The *)
(* budget's change does not move the time of the configuration.             *)
TimesOK ==
  /\ requests \in Nat /\ boots \in Nat
  /\ \A times \in {saved, mtime, edited} : times \in [Names -> Nat]
  /\ \A n \in Names : mtime[n] <= saved[n] /\ saved[n] <= Now
  /\ \A n \in Priced : edited[n] <= saved[n]

LEMMA SavesKeepTimes ==
    ASSUME TimesOK, NEW a, NEW n \in Names, NEW content, Save(a, n, content),
           UNCHANGED <<mtime, requests, boots>>
    PROVE  TimesOK'
<1>1. Now \in Nat /\ Now' = Now
  BY DEF TimesOK, Now
<1>2. /\ saved' \in [Names -> Nat] /\ edited' \in [Names -> Nat]
      /\ saved'[n] = Now /\ edited'[n] = Now
      /\ \A m \in Names \ {n} : saved'[m] = saved[m] /\ edited'[m] = edited[m]
  BY <1>1 DEF Save, TimesOK
<1>3. ASSUME NEW m \in Names
      PROVE  mtime'[m] <= saved'[m] /\ saved'[m] <= Now' /\ (m \in Priced => edited'[m] <= saved'[m])
  <2>1. mtime[m] \in Nat /\ saved[m] \in Nat /\ mtime[m] <= saved[m] /\ saved[m] <= Now
    BY DEF TimesOK
  <2>2. CASE m = n
    BY <1>1, <1>2, <2>1, <2>2
  <2>3. CASE m # n
    BY <1>1, <1>2, <2>1, <2>3 DEF TimesOK
  <2> QED BY <2>2, <2>3
<1> QED BY <1>2, <1>3 DEF TimesOK, Names

LEMMA StartsKeepTimes ==
    ASSUME TimesOK, NEW content, NEW times, Boot(content, times),
           times \in [Names -> Nat], \A n \in Names : times[n] <= Now + 1
    PROVE  TimesOK'
<1>1. /\ Now \in Nat /\ Now' = Now + 1 /\ requests' \in Nat /\ boots' \in Nat
      /\ mtime' = times /\ edited' = edited /\ saved' = TimesFrom(content, times, Newer(times))
  BY DEF TimesOK, Now, Boot
<1>2. ASSUME NEW n \in Names
      PROVE  /\ saved'[n] \in Nat /\ times[n] <= saved'[n] /\ saved'[n] <= Now + 1
             /\ saved[n] <= saved'[n]
  <2>1. saved[n] \in Nat /\ saved[n] <= Now /\ times[n] \in Nat /\ times[n] <= Now + 1
    BY DEF TimesOK
  <2>2. saved'[n] = IF times[n] > saved[n] THEN times[n]
                    ELSE IF n = Config /\ ~(DOMAIN content[n] \subseteq DOMAIN db[n]) THEN Now + 1
                    ELSE saved[n]
    BY <1>1 DEF TimesFrom, Newer
  <2> QED BY <1>1, <2>1, <2>2
<1>3. saved' \in [Names -> Nat]
  <2>1. DOMAIN saved' = Names /\ saved' = [n \in Names |-> saved'[n]]
    BY <1>1 DEF TimesFrom
  <2> QED BY <1>2, <2>1
<1>4. ASSUME NEW n \in Priced PROVE edited'[n] <= saved'[n]
  <2>1. n \in Names
    BY DEF Names
  <2>2. edited[n] \in Nat /\ saved[n] \in Nat /\ edited[n] <= saved[n]
    BY <2>1 DEF TimesOK
  <2> QED BY <1>1, <1>2, <2>1, <2>2
<1> QED BY <1>1, <1>2, <1>3, <1>4 DEF TimesOK

(* Files are checked out before the start that brings them. *)
LEMMA StartTimes ==
    ASSUME IInv, TimesOK,
           \/ Restart
           \/ \E content \in Images \cup {files}, time \in 0..(Now + 1), fresh \in BOOLEAN :
                Deploy(content, time, fresh)
    PROVE  \E content, times :
             /\ Boot(content, times) /\ DOMAIN content = Names /\ \A n \in Names : IsContent(content[n])
             /\ times \in [Names -> Nat] /\ \A n \in Names : times[n] <= Now + 1
<1>1. Now \in Nat /\ mtime \in [Names -> Nat] /\ \A n \in Names : mtime[n] \in Nat /\ mtime[n] <= Now + 1
  <2>1. Now \in Nat
    BY DEF TimesOK, Now
  <2> QED BY <2>1 DEF TimesOK
<1>2. CASE Restart
  BY <1>1, <1>2 DEF Restart, IInv, Shapes
<1>3. ASSUME NEW content \in Images \cup {files}, NEW time \in 0..(Now + 1), NEW fresh \in BOOLEAN,
             Deploy(content, time, fresh)
      PROVE  \E times :
               /\ Boot(content, times) /\ DOMAIN content = Names /\ \A n \in Names : IsContent(content[n])
               /\ times \in [Names -> Nat] /\ \A n \in Names : times[n] <= Now + 1
  <2> DEFINE times == [n \in Names |-> IF fresh \/ content[n] # files[n] THEN time ELSE mtime[n]]
  <2>1. Boot(content, times) /\ DOMAIN content = Names /\ \A n \in Names : IsContent(content[n])
    BY <1>3, ImagesAreContents DEF Deploy, IInv, Shapes
  <2>2. time \in Nat /\ time <= Now + 1
    BY <1>1
  <2>3. times \in [Names -> Nat] /\ \A n \in Names : times[n] <= Now + 1
    BY <1>1, <2>2
  <2> HIDE DEF times
  <2> QED BY <2>1, <2>3
<1> QED BY <1>2, <1>3

LEMMA TimesKept == IInv /\ TimesOK /\ [Next]_vars => TimesOK'
<1> SUFFICES ASSUME IInv, TimesOK, [Next]_vars PROVE TimesOK'
  OBVIOUS
<1>1. ASSUME UNCHANGED <<saved, mtime, edited, boots>>, requests' \in {requests, requests + 1}
      PROVE  TimesOK'
  <2>1. Now \in Nat /\ Now' \in Nat /\ Now <= Now' /\ requests' \in Nat
    BY <1>1 DEF TimesOK, Now
  <2>2. \A n \in Names : saved[n] \in Nat /\ saved[n] <= Now'
    BY <2>1 DEF TimesOK
  <2> QED BY <1>1, <2>1, <2>2 DEF TimesOK
<1>2. ASSUME NEW a \in Admins, Work(a) PROVE TimesOK'
  <2>1. CASE SavePut(a)
    <3>1. jobs[a].name \in Names
      BY <2>1 DEF SavePut, IInv, JobsOK, JobOK, SaveOK
    <3> QED BY <2>1, <3>1, SavesKeepTimes DEF SavePut, deployed
  <2>2. CASE SaveImport(a)
    <3>1. PICK i \in jobs[a].todo :
            \/ Save(a, jobs[a].chosen[i], Upsert(jobs[a].read[jobs[a].chosen[i]], jobs[a].file,
                    ItemsOf(jobs[a].file, jobs[a].read, jobs[a].chosen[i])))
            \/ UNCHANGED table
      BY <2>2 DEF SaveImport
    <3>2. jobs[a].chosen[i] \in Names /\ UNCHANGED <<mtime, requests, boots>>
      BY <2>2 DEF SaveImport, IInv, JobsOK, JobOK, ImportOK, Names, deployed
    <3> QED BY <1>1, <3>1, <3>2, SavesKeepTimes DEF table
  <2>3. CASE SaveBudget(a)
    <3>1. /\ UNCHANGED <<saved, mtime, requests, boots>>
          /\ edited' = [edited EXCEPT ![Config] = Now]
      BY <2>3 DEF SaveBudget, deployed
    <3>2. Now \in Nat /\ Now' = Now
      BY <3>1 DEF TimesOK, Now
    <3>4. edited' \in [Names -> Nat]
      BY <3>1, <3>2 DEF TimesOK, Names
    <3>3. \A n \in Priced : edited'[n] = edited[n]
      BY <3>1, CatalogsAssumption DEF TimesOK, Names
    <3> QED BY <3>1, <3>2, <3>3, <3>4 DEF TimesOK
  <2>4. CASE Backup(a) \/ RestoreBackup(a) \/ Invalidate(a)
    BY <1>1, <2>4 DEF Backup, RestoreBackup, Invalidate, table, deployed
  <2> QED BY <1>2, <2>1, <2>2, <2>3, <2>4 DEF Work
<1>3. ASSUME NEW a \in Admins, NEW w \in Workers, Request(a, w) PROVE TimesOK'
  BY <1>1, <1>3 DEF Request, Put, Import, Restore, Budget, Begin, table, deployed
<1>4. ASSUME NEW w \in Workers, NEW n \in Names, LoadCatalog(w, n) PROVE TimesOK'
  BY <1>1, <1>4 DEF LoadCatalog, table, deployed
<1>5. CASE \/ Restart
           \/ \E content \in Images \cup {files}, time \in 0..(Now + 1), fresh \in BOOLEAN :
                Deploy(content, time, fresh)
  BY <1>5, StartTimes, StartsKeepTimes
<1>6. CASE UNCHANGED vars
  BY <1>1, <1>6 DEF vars, table, deployed
<1> QED BY <1>2, <1>3, <1>4, <1>5, <1>6 DEF Next

LEMMA TimesInvariance == Spec => [](IInv /\ TimesOK)
<1>1. Init => TimesOK
  BY DEF Init, TimesOK, Now, Names
<1> QED BY <1>1, InitOK, Inductive, TimesKept, PTL DEF Spec

(* The same image started again takes back no price and no key, the budget  *)
(* included; another one no price list saved since its files were checked   *)
(* out; and whatever key of the configuration the image has can be read     *)
(* afterwards (ensure_catalogs_seeded: the comparison of times and the      *)
(* merge of the missing keys).                                              *)
THEOREM StartsKeepEdits == Spec => RestartKeepsEdits
<1>1. ASSUME IInv, TimesOK, NEW content, NEW times, Boot(content, times),
             DOMAIN content = Names, \A n \in Names : IsContent(content[n]), times \in [Names -> Nat]
      PROVE  /\ DOMAIN files'[Config] \subseteq DOMAIN db'[Config]
             /\ UNCHANGED deployed => \A n \in Names : Keeps(n)
             /\ \A n \in Priced : mtime'[n] <= edited[n] => Keeps(n)
  <2>1. files' = content /\ mtime' = times
    BY <1>1 DEF Boot
  <2>2. DOMAIN content[Config] \subseteq DOMAIN db'[Config] /\ \A n \in Names \ Newer(times) : Keeps(n)
    BY <1>1, WhatStarts
  <2>3. ASSUME mtime' = mtime, NEW n \in Names PROVE n \notin Newer(times)
    BY <1>1, <2>1, <2>3 DEF TimesOK, Newer
  <2>4. ASSUME NEW n \in Priced, mtime'[n] <= edited[n] PROVE n \in Names \ Newer(times)
    <3>1. n \in Names
      BY DEF Names
    <3>2. edited[n] \in Nat /\ saved[n] \in Nat /\ edited[n] <= saved[n] /\ times[n] \in Nat
      BY <1>1, <3>1 DEF TimesOK
    <3> QED BY <2>1, <2>4, <3>1, <3>2 DEF Newer
  <2> QED BY <2>1, <2>2, <2>3, <2>4 DEF deployed
<1>2. ASSUME IInv, [Next]_vars, boots' # boots
      PROVE  \/ Restart
             \/ \E content \in Images \cup {files}, time \in 0..(Now + 1), fresh \in BOOLEAN :
                  Deploy(content, time, fresh)
  BY <1>2 DEF Next, vars, table, deployed, Work, SavePut, SaveBudget, Backup, SaveImport, RestoreBackup,
              Invalidate, Request, Put, Import, Restore, Budget, LoadCatalog
<1>3. ASSUME IInv, TimesOK, [Next]_vars
      PROVE  boots' # boots =>
               /\ DOMAIN files'[Config] \subseteq DOMAIN db'[Config]
               /\ UNCHANGED deployed => \A n \in Names : Keeps(n)
               /\ \A n \in Priced : mtime'[n] <= edited[n] => Keeps(n)
  BY <1>1, <1>2, <1>3, StartTimes
<1>4. IInv /\ TimesOK /\ [Next]_vars =>
        (boots' # boots =>
          /\ DOMAIN files'[Config] \subseteq DOMAIN db'[Config]
          /\ UNCHANGED deployed => \A n \in Names : Keeps(n)
          /\ \A n \in Priced : mtime'[n] <= edited[n] => Keeps(n))
  BY <1>3
<1> QED BY <1>4, TimesInvariance, PTL DEF Spec, RestartKeepsEdits
=============================================================================
