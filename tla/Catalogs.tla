------------------------------ MODULE Catalogs ------------------------------
(* Price lists and configuration: the table of the database, the files of   *)
(* the image, what each worker remembers of them, and the requests that     *)
(* change them (catalog/router.py, usage/router.py), down to the start of a *)
(* new image (core/catalog_dir.py).  A content maps items (keys, for the    *)
(* configuration) to prices in thousandths.                                 *)
EXTENDS Integers, FiniteSets, Sequences, SequencesExt, Functions

CONSTANTS
  None,
  Order,        \* the price lists, in the order the importer loads them
  Config,       \* the catalogue with the configuration
  Seeds,        \* name -> content of the files of the first image
  Images,       \* what later images may bring: a set of [Names -> content]
  Edits,        \* name -> contents an operator may save
  Imports,      \* files of prices: [columns, rows]
  Workers,      \* processes behind the port
  Admins,       \* requests at work at once
  MaxCopies,    \* bound: contents remembered at a time
  MaxRequests,  \* bound: requests that change something
  MaxBoots      \* bound: restarts and deployments

Priced == {Order[i] : i \in DOMAIN Order}
Names == Priced \cup {Config}

IsContent(c) == \A k \in DOMAIN c : c[k] \in Int

ASSUME CatalogsAssumption ==
  /\ Order \in Seq(Priced) /\ Config \notin Priced
  /\ \A image \in Images \cup {Seeds} : DOMAIN image = Names /\ \A n \in Names : IsContent(image[n])
  /\ DOMAIN Edits = Names /\ \A n \in Names : \A content \in Edits[n] : IsContent(content)
  /\ MaxCopies \in Nat /\ MaxRequests \in Nat /\ MaxBoots \in Nat

VARIABLES
  db,        \* name -> content in the table
  saved,     \* name -> updated_at of its row
  files,     \* name -> content in the image
  mtime,     \* name -> when its file was checked out
  backups,   \* rows of the table of backups: [name, content]
  cache,     \* worker -> name -> what it remembers
  jobs,      \* admin -> what its request is in the middle of
  writer,    \* name -> the worker that answered the last save of it
  edited,    \* name -> when a request last changed it
  requests,  \* so far
  boots      \* so far

table == <<db, saved, writer, edited>>
deployed == <<files, mtime>>
vars == <<table, deployed, backups, cache, jobs, requests, boots>>

\* Requests and starts are what moves the clock.
Now == requests + boots

Idle == [kind |-> "idle"]
Nothing == [n \in Names |-> None]

\* The first start of all fills an empty table from the files.
Init ==
  /\ db = Seeds /\ files = Seeds
  /\ saved = [n \in Names |-> 0] /\ mtime = [n \in Names |-> 0] /\ edited = [n \in Names |-> 0]
  /\ backups = {}
  /\ cache = [w \in Workers |-> Nothing]
  /\ jobs = [a \in Admins |-> Idle]
  /\ writer = [n \in Names |-> None]
  /\ requests = 0 /\ boots = 0

(* ------------------------------- reading ------------------------------- *)
\* catalog_tool's prices and company_config's configuration.  (The copies of
\* the configuration with the VAT, the limits of the model and the texts of
\* the documents are others, which no save of a catalogue brings up to date.)
Copies == Cardinality({c \in Workers \X Names : cache[c[1]][c[2]] # None})

\* What a worker remembers is good as long as the file of the image is not
\* newer, which it never is while the process lives.  A database that does
\* not answer leaves the file's content remembered just the same.
LoadCatalog(w, n) ==
  /\ cache[w][n] = None /\ Copies < MaxCopies
  /\ \E content \in {db[n], files[n]} : cache' = [cache EXCEPT ![w][n] = content]
  /\ UNCHANGED <<table, deployed, backups, jobs, requests, boots>>

(* ------------------------------- saving -------------------------------- *)
MutantForget(a) == [cache EXCEPT ![jobs[a].worker] =
                      [n \in Names |-> IF n = Config /\ jobs[a].name = n THEN None ELSE @[n]]]

\* The process that saved forgets its own copy.
Forget(a) == [cache EXCEPT ![jobs[a].worker][jobs[a].name] = None]

Save(a, n, content) ==
  /\ db' = [db EXCEPT ![n] = content]
  /\ saved' = [saved EXCEPT ![n] = Now]
  /\ edited' = [edited EXCEPT ![n] = Now]
  /\ writer' = [writer EXCEPT ![n] = jobs[a].worker]

Begin(a, job) ==
  /\ jobs[a] = Idle /\ requests < MaxRequests
  /\ requests' = requests + 1
  /\ jobs' = [jobs EXCEPT ![a] = job]

Put(a, w, n, content) ==
  /\ Begin(a, [kind |-> "put", worker |-> w, name |-> n, content |-> content])
  /\ UNCHANGED <<table, deployed, backups, cache, boots>>

SavePut(a) ==
  /\ jobs[a].kind \in {"put", "replace"}
  /\ Save(a, jobs[a].name, jobs[a].content)
  /\ jobs' = [jobs EXCEPT ![a] = [kind |-> "forget", worker |-> @.worker, name |-> @.name, next |-> Idle]]
  /\ UNCHANGED <<deployed, backups, cache, requests, boots>>

\* A step of its own: the session is closed between the commit and this.
Invalidate(a) ==
  /\ jobs[a].kind = "forget"
  /\ cache' = Forget(a)
  /\ jobs' = [jobs EXCEPT ![a] = @.next]
  /\ UNCHANGED <<table, deployed, backups, requests, boots>>

(* The budget is a key of the configuration, read and written back whole;   *)
(* its update does not set the time of the row.                             *)
Budget(a, w) ==
  /\ Begin(a, [kind |-> "budget", worker |-> w, read |-> db[Config]])
  /\ UNCHANGED <<table, deployed, backups, cache, boots>>

SaveBudget(a) ==
  /\ jobs[a].kind = "budget"
  /\ db' = [db EXCEPT ![Config] = [jobs[a].read EXCEPT !.budget = @ + 1]]
  /\ writer' = [writer EXCEPT ![Config] = None]
  /\ edited' = [edited EXCEPT ![Config] = Now]
  /\ jobs' = [jobs EXCEPT ![a] = Idle]
  /\ saved' = saved
  /\ UNCHANGED <<deployed, backups, cache, requests, boots>>

(* ----------------------------- importing ------------------------------- *)
\* Columns are venta, ventaIva, precio, precioIva and costo; _find_col takes
\* the first header that contains one of the words it is given.
FindCol(columns, words) ==
  LET found == {i \in DOMAIN columns : columns[i] \in words}
  IN IF found = {} THEN 0 ELSE CHOOSE i \in found : \A k \in found : i <= k

\* "Precio de venta con IVA" contains "precio de venta", and both "precio".
PriceColumn(columns) ==
  FindCol(columns, IF {"costo", "venta"} \cap Range(columns) # {}
                   THEN {"venta", "ventaIva"} ELSE {"venta", "ventaIva", "precio", "precioIva"})

OnlyWithVat(columns) ==
  /\ FindCol(columns, {"ventaIva", "precioIva"}) # 0
  /\ FindCol(columns, {"venta", "ventaIva"}) = 0

\* Nothing else is known of the cells: a file's prices may be negative.
ASSUME ImportsAssumption ==
  \A file \in Imports :
    /\ file.rows \in Seq(Range(file.rows))
    /\ PriceColumn(file.columns) # 0 =>
         \A r \in Range(file.rows) : ~r.title => r.cells[PriceColumn(file.columns)] \in Int \cup {None}

\* Of the catalogues with an item, the last one is it.
ClassifyItem(sku, current) ==
  LET of == {i \in DOMAIN Order : sku \in DOMAIN current[Order[i]]}
  IN IF of = {} THEN None ELSE Order[CHOOSE i \in of : \A k \in of : k <= i]

\* extract_items: rows of a section's title are no items.
ItemsOf(file, current, n) ==
  {i \in DOMAIN file.rows : ~file.rows[i].title /\ ClassifyItem(file.rows[i].sku, current) = n}
PriceAt(file, i) == file.rows[i].cells[PriceColumn(file.columns)]

\* generate_diff.  No price, or zero, is skipped; so is a change of a cent,
\* unless the old price has decimals to clean up.
Updates(price, old) == price \notin {None, 0} /\ price - old \notin -10..10
Normalizes(price, old) == price \notin {None, 0} /\ price - old \in -10..10 /\ old % 10 # 0

\* The upsert writes the updates first and the clean-ups after them, both in
\* the order of the file.  What a catalogue does not have never gets here: the
\* items were classified by what it has.
LastOf(rows) == CHOOSE i \in rows : \A k \in rows : k <= i

Upsert(current, file, items) ==
  [sku \in DOMAIN current |->
     LET named == {i \in items : file.rows[i].sku = sku}
         updated == {i \in named : Updates(PriceAt(file, i), current[sku])}
         normalized == {i \in named : Normalizes(PriceAt(file, i), current[sku])}
     IN IF normalized # {} THEN PriceAt(file, LastOf(normalized))
        ELSE IF updated # {} THEN PriceAt(file, LastOf(updated))
        ELSE current[sku]]

\* The lists to import, in the order of the request: each once.
Selections == {s \in UNION {[1..k -> Priced] : k \in 1..Cardinality(Priced)} : IsInjective(s)}

Importing(kind, j, todo) ==
  [kind |-> kind, worker |-> j.worker, file |-> j.file, chosen |-> j.chosen, read |-> j.read, todo |-> todo]
NextImport(j, rest) == IF rest = {} THEN Idle ELSE Importing("import", j, rest)
First(i, todo) == \A k \in todo : i <= k

\* _load_from_db: the row, or the file of the image if the table did not answer.
Loaded(n) == {db[n], files[n]}

Import(a, w, file, chosen) ==
  /\ PriceColumn(file.columns) # 0 /\ ~OnlyWithVat(file.columns)
  /\ \E current \in [Priced -> UNION {Loaded(n) : n \in Priced}] :
       /\ \A n \in Priced : current[n] \in Loaded(n)
       /\ LET todo == {i \in DOMAIN chosen : ItemsOf(file, current, chosen[i]) # {}}
          IN todo # {} /\ Begin(a, [kind |-> "import", worker |-> w, file |-> file, chosen |-> chosen,
                                    read |-> current, todo |-> todo])
  /\ UNCHANGED <<table, deployed, backups, cache, boots>>

MutantBackup(a) ==
  LET j == jobs[a] IN
  /\ j.kind = "import"
  /\ \E i \in j.todo : First(i, j.todo) /\
       backups' \in {backups, backups \cup {[name |-> j.chosen[i], content |-> j.read[j.chosen[i]]]}}
  /\ jobs' = [jobs EXCEPT ![a] = Importing("upsert", j, j.todo)]
  /\ UNCHANGED <<table, deployed, cache, requests, boots>>

\* No backup, no import of that catalogue; the others go on.
Backup(a) ==
  LET j == jobs[a]
  IN /\ j.kind = "import"
     /\ \E i \in j.todo : First(i, j.todo) /\
          \/ /\ backups' = backups \cup {[name |-> j.chosen[i], content |-> j.read[j.chosen[i]]]}
             /\ jobs' = [jobs EXCEPT ![a] = Importing("upsert", j, j.todo)]
          \/ /\ jobs' = [jobs EXCEPT ![a] = NextImport(j, j.todo \ {i})]
             /\ backups' = backups
     /\ UNCHANGED <<table, deployed, cache, requests, boots>>

SaveImport(a) ==
  LET j == jobs[a]
  IN /\ j.kind = "upsert"
     /\ \E i \in j.todo : First(i, j.todo) /\
          LET n == j.chosen[i] IN
          \/ /\ Save(a, n, Upsert(j.read[n], j.file, ItemsOf(j.file, j.read, n)))
             /\ jobs' = [jobs EXCEPT ![a] = [kind |-> "forget", worker |-> j.worker, name |-> n,
                                             next |-> NextImport(j, j.todo \ {i})]]
          \/ /\ jobs' = [jobs EXCEPT ![a] = NextImport(j, j.todo \ {i})]
             /\ UNCHANGED table
     /\ UNCHANGED <<deployed, backups, cache, requests, boots>>

(* ------------------------------ restoring ------------------------------ *)
Restore(a, w, b) ==
  /\ Begin(a, [kind |-> "restore", worker |-> w, name |-> b.name, content |-> b.content])
  /\ UNCHANGED <<table, deployed, backups, cache, boots>>

\* A safety copy of what is there, if there is anything.
RestoreBackup(a) ==
  LET j == jobs[a] IN
  /\ j.kind = "restore"
  /\ \E current \in Loaded(j.name) :
       /\ backups' = backups \cup (IF DOMAIN current = {} THEN {} ELSE {[name |-> j.name, content |-> current]})
       /\ jobs' = [jobs EXCEPT ![a] = [kind |-> "replace", worker |-> j.worker, name |-> j.name,
                                       content |-> j.content, read |-> [n \in {j.name} |-> current]]]
  /\ UNCHANGED <<table, deployed, cache, requests, boots>>

(* ------------------------------ starting ------------------------------- *)
\* Keys the image has and the table misses.
MergeKeys(config, file) ==
  [k \in DOMAIN config \cup DOMAIN file |-> IF k \in DOMAIN config THEN config[k] ELSE file[k]]

MutantNewer(times) == {n \in Names : times[n] >= saved[n]}
Newer(times) == {n \in Names : times[n] > saved[n]}

\* Every catalogue whose file is newer than its row is the file's again, with
\* the time of the file; then the configuration gets the keys it lacks.
SyncedFrom(content, newer) ==
  LET synced == [n \in Names |-> IF n \in newer THEN content[n] ELSE db[n]]
  IN [synced EXCEPT ![Config] = MergeKeys(@, content[Config])]

TimesFrom(content, times, newer) ==
  [n \in Names |->
     IF n \in newer THEN times[n]
     ELSE IF n = Config /\ ~(DOMAIN content[n] \subseteq DOMAIN db[n]) THEN Now + 1
     ELSE saved[n]]

Boot(content, times) ==
  /\ boots < MaxBoots
  /\ boots' = boots + 1
  /\ files' = content /\ mtime' = times
  /\ db' = SyncedFrom(content, Newer(times))
  /\ saved' = TimesFrom(content, times, Newer(times))
  /\ cache' = [w \in Workers |-> Nothing]
  /\ jobs' = [a \in Admins |-> Idle]
  /\ writer' = [n \in Names |-> None]
  /\ UNCHANGED <<backups, requests, edited>>

Restart == Boot(files, mtime)

\* The files of an image, or of the same with other code, have the time they
\* were checked out: all of them, or those that changed since the last one.
Deploy(content, time, fresh) ==
  Boot(content, [n \in Names |-> IF fresh \/ content[n] # files[n] THEN time ELSE mtime[n]])

Request(a, w) ==
  \/ \E n \in Names : \E content \in Edits[n] : Put(a, w, n, content)
  \/ \E file \in Imports, chosen \in Selections : Import(a, w, file, chosen)
  \/ \E b \in backups : Restore(a, w, b)
  \/ Budget(a, w)

Work(a) == SavePut(a) \/ SaveBudget(a) \/ Backup(a) \/ SaveImport(a) \/ RestoreBackup(a) \/ Invalidate(a)

Next ==
  \/ \E a \in Admins : Work(a) \/ \E w \in Workers : Request(a, w)
  \/ \E w \in Workers, n \in Names : LoadCatalog(w, n)
  \/ Restart
  \/ \E content \in Images \cup {files}, time \in 0..(Now + 1), fresh \in BOOLEAN : Deploy(content, time, fresh)

Spec == Init /\ [][Next]_vars

-----------------------------------------------------------------------------
\* Types: every catalogue keeps a content, every request is in a known step.
TypeOK ==
  /\ DOMAIN db = Names /\ \A n \in Names : IsContent(db[n])
  /\ \A b \in backups : b.name \in Names /\ IsContent(b.content)
  /\ \A w \in Workers, n \in Names : cache[w][n] # None => IsContent(cache[w][n])
  /\ \A a \in Admins :
       jobs[a].kind \in {"idle", "put", "replace", "forget", "budget", "import", "upsert", "restore"}

Saving(w, n) == \E a \in Admins : jobs[a].kind = "forget" /\ jobs[a].worker = w /\ jobs[a].name = n

\* The worker that answered the last save of a catalogue prices with it as
\* soon as it has answered, whoever read in between; only a database that did
\* not answer a read leaves the image's prices.
SaverIsCurrent ==
  \A n \in Names :
    LET w == writer[n] IN
    w # None /\ ~Saving(w, n) => cache[w][n] \in {None, db[n], files[n]}

\* What a quote is priced with, on the worker that answered the last save.
CachesHold == TypeOK /\ SaverIsCurrent

\* An item with a price never becomes free by an import, nor does one appear,
\* disappear or change that the file of prices does not name, if the list is
\* still what the import read.
ImportKeepsTheRest ==
  [][\A a \in Admins :
       LET n == jobs'[a].name
       IN jobs[a].kind = "upsert" /\ jobs'[a].kind = "forget" /\ jobs[a].read[n] = db[n] =>
            /\ DOMAIN db'[n] = DOMAIN db[n]
            /\ \A sku \in DOMAIN db[n] : db[n][sku] # 0 => db'[n][sku] # 0
            /\ \A sku \in DOMAIN db[n] :
                 sku \notin {r.sku : r \in Range(jobs[a].file.rows)} => db'[n][sku] = db[n][sku]]_vars

\* What an import or a restore replaces is in a backup, if the list is still
\* what the request read and there was anything in it.
ReplacedIsBackedUp ==
  [][\A a \in Admins :
       LET n == jobs'[a].name IN
       /\ jobs[a].kind \in {"upsert", "replace"}
       /\ jobs'[a].kind = "forget"
       /\ jobs[a].read[n] = db[n] /\ DOMAIN db[n] # {}
       => [name |-> n, content |-> db[n]] \in backups]_vars

\* An import touches what its file names, and what it replaces can be had
\* back. A read that fell back on the file of the image, or a save of somebody
\* else between the read and the write, is lost without a copy: that is what
\* the premise of both leaves out.
ImportIsSafe == ImportKeepsTheRest /\ ReplacedIsBackedUp

Keeps(n) == \A k \in DOMAIN db[n] : k \in DOMAIN db'[n] /\ db'[n][k] = db[n][k]

\* Whatever was deployed, saved and restarted before: the same image started
\* again takes back no price and no key, the budget included, whose change
\* leaves the time of its row alone; another one takes back no price list that
\* was saved since its files were checked out; and every key of the image's
\* configuration can be read afterwards.
RestartKeepsEdits ==
  [][boots' # boots =>
       /\ DOMAIN files'[Config] \subseteq DOMAIN db'[Config]
       /\ UNCHANGED deployed => \A n \in Names : Keeps(n)
       /\ \A n \in Priced : mtime'[n] <= edited[n] => Keeps(n)]_vars

\* "Edits via the config UI persist in the DB across deploys": at least those
\* made after the files of the deployment were checked out.
EditsPersist ==
  [][boots' # boots => \A n \in Names : mtime'[n] < edited[n] => Keeps(n)]_vars

\* "never uses 'Con IVA' column as source": no import is accepted that would.
PriceWithoutVat ==
  \A a \in Admins : jobs[a].kind = "import" =>
    jobs[a].file.columns[PriceColumn(jobs[a].file.columns)] \notin {"ventaIva", "precioIva"}
=============================================================================
