-------------------------- MODULE PosixBackendProofs --------------------------
(***************************************************************************)
(* PosixBackend for every deployment: whatever the workers, the number of  *)
(* writes and reads, the slices and the faults, a path names a complete    *)
(* file of the worker's own block, and a read that succeeds returns it.    *)
(* Only the writers and the readers matter; lookups touch no file.         *)
(***************************************************************************)
EXTENDS PosixBackend, SequenceTheorems, TLAPS

Writes == DOMAIN site.writes
Reads == DOMAIN site.reads
WriteCalls == [pc : {"idle", "write", "ok", "failed", "crashed"}, pos : Nat]
ReadCalls == [pc : {"idle", "read", "ok", "failed", "not_found"}, file : Writes \cup {0}, got : Seq(Nat)]

FilesType ==
  /\ site \in Sites
  /\ wr \in [Writes -> WriteCalls]
  /\ rd \in [Reads -> ReadCalls]
  /\ DOMAIN files = Paths /\ \A p \in Paths : files[p] \in Writes \cup {0}
  /\ DOMAIN inode = Writes
  /\ temps \subseteq Writes

\* A write's file holds what the write has got through, from the first byte on;
\* a write is answered with success at the end of the block.
Written(w) ==
  /\ inode[w] = ByteRun(0, wr[w].pos)
  /\ wr[w].pc = "ok" => wr[w].pos = Size

\* A path names the file of a successful write to that path.
Published(p) == files[p] # 0 => wr[files[p]].pc = "ok" /\ PathOf(site.writes[files[p]]) = p

\* A reader holds a file that was published under its path, and has a prefix
\* of the block.
Held(r) ==
  rd[r].pc \in {"read", "ok"} =>
    /\ rd[r].file \in Writes /\ wr[rd[r].file].pc = "ok"
    /\ PathOf(site.writes[rd[r].file]) = PathOf(site.reads[r])
    /\ rd[r].got = ByteRun(0, Len(rd[r].got)) /\ Len(rd[r].got) <= Size
    /\ rd[r].pc = "ok" => Len(rd[r].got) = Size

\* A reader that has not opened its file has no byte.
Unread(r) == rd[r].pc = "idle" => rd[r].got = ByteRun(0, Len(rd[r].got)) /\ Len(rd[r].got) = 0

\* Temporary files are those of writes under way or cut off by a crash.
Temporary == \A w \in temps : wr[w].pc \in {"write", "crashed"}

FilesInv ==
  /\ FilesType /\ Temporary
  /\ \A w \in Writes : Written(w)
  /\ \A p \in Paths : Published(p)
  /\ \A r \in Reads : Held(r) /\ Unread(r)

-----------------------------------------------------------------------------
(* Lemmas *)

\* A run of bytes is a sequence of numbers.
LEMMA RunOfBytes ==
  ASSUME NEW a \in Nat, NEW b \in Nat, a <= b
  PROVE  /\ ByteRun(a, b) \in Seq(Nat) /\ Len(ByteRun(a, b)) = b - a
         /\ \A i \in 1..(b - a) : ByteRun(a, b)[i] = a + i
<1>1. b - a \in Nat
  OBVIOUS
<1>2. ByteRun(a, b) = [i \in 1..(b - a) |-> a + i]
  BY ZenonT(30) DEF ByteRun
<1> QED
  BY <1>1, <1>2

\* The first bytes of the block.
LEMMA FirstBytes ==
  ASSUME NEW m \in Nat
  PROVE  ByteRun(0, m) \in Seq(Nat) /\ Len(ByteRun(0, m)) = m /\ \A i \in 1..m : ByteRun(0, m)[i] = i
<1>1. 0 \in Nat /\ 0 <= m /\ m - 0 = m
  OBVIOUS
<1>2. /\ ByteRun(0, m) \in Seq(Nat) /\ Len(ByteRun(0, m)) = m - 0
      /\ \A i \in 1..(m - 0) : ByteRun(0, m)[i] = 0 + i
  BY <1>1, RunOfBytes, ZenonT(30)
<1> QED
  BY <1>1, <1>2

\* What follows on a run makes it longer.
LEMMA LongerRun ==
  ASSUME NEW a \in Nat, NEW n \in Nat
  PROVE  ByteRun(0, a) \o ByteRun(a, a + n) = ByteRun(0, a + n)
<1> DEFINE s == ByteRun(0, a)
           t == ByteRun(a, a + n)
           u == ByteRun(0, a + n)
<1>1. /\ s \in Seq(Nat) /\ Len(s) = a /\ \A i \in 1..a : s[i] = i
      /\ u \in Seq(Nat) /\ Len(u) = a + n /\ \A i \in 1..(a + n) : u[i] = i
  BY FirstBytes
<1>2. t \in Seq(Nat) /\ Len(t) = n /\ \A i \in 1..n : t[i] = a + i
  <2>1. a + n \in Nat /\ a <= a + n /\ (a + n) - a = n
    OBVIOUS
  <2> QED
    BY <2>1, RunOfBytes, ZenonT(30)
<1> HIDE DEF s, t, u
<1>3. s \o t \in Seq(Nat) /\ Len(s \o t) = a + n
  BY <1>1, <1>2
<1>4. \A i \in 1..(a + n) : (s \o t)[i] = u[i]
  BY <1>1, <1>2
<1>5. s \o t = u
  BY <1>1, <1>3, <1>4, SeqEqual, ZenonT(30)
<1> QED
  BY <1>5, ZenonT(30) DEF s, t, u

\* A piece of a run is a run.
LEMMA PieceOfRun ==
  ASSUME NEW a \in Nat, NEW n \in Nat, NEW m \in Nat, a + n <= m
  PROVE  SubSeq(ByteRun(0, m), a + 1, a + n) = ByteRun(a, a + n)
<1> DEFINE s == ByteRun(0, m)
           t == ByteRun(a, a + n)
           u == SubSeq(s, a + 1, a + n)
<1>1. s \in Seq(Nat) /\ Len(s) = m /\ \A i \in 1..m : s[i] = i
  BY FirstBytes, ZenonT(30)
<1>2. t \in Seq(Nat) /\ Len(t) = n /\ \A i \in 1..n : t[i] = a + i
  <2>1. a + n \in Nat /\ a <= a + n /\ (a + n) - a = n
    OBVIOUS
  <2> QED
    BY <2>1, RunOfBytes, ZenonT(30)
<1> HIDE DEF s, t
<1>3. u \in Seq(Nat) /\ Len(u) = n /\ \A i \in 1..n : u[i] = a + i
  BY <1>1
<1> HIDE DEF u
<1>4. u = t
  BY <1>2, <1>3, SeqEqual, ZenonT(30)
<1> QED
  BY <1>4, ZenonT(30) DEF s, t, u

\* A rank that a worker of the topology has is one ValidateWorkerParallelism
\* accepts.
LEMMA RanksValid ==
  ASSUME NEW topo, NEW rank \in WorkerRanks(topo)
  PROVE  /\ ValidateWorkerParallelism(topo, rank) /\ DOMAIN rank = Axes
         /\ rank = [a \in Axes |-> rank[a]]
BY ZenonT(30) DEF WorkerRanks, ValidateWorkerParallelism, Axes

\* Two workers' blocks have the same path only if they are the same block of
\* the same worker.
LEMMA PathsDiffer ==
  ASSUME NEW topo, NEW x \in WorkerRanks(topo), NEW y \in WorkerRanks(topo),
         NEW g, NEW h, g \notin BadHashes, h \notin BadHashes,
         MapKey(g, topo, x) = MapKey(h, topo, y)
  PROVE  g = h /\ x = y
<1>1. ValidateWorkerParallelism(topo, x) /\ ValidateWorkerParallelism(topo, y)
  BY RanksValid, ZenonT(30)
<1>2. g = h /\ FormatTopologyDir(topo, x) = FormatTopologyDir(topo, y)
  BY <1>1, ZenonT(30) DEF MapKey
<1>3. ASSUME NEW a \in Axes PROVE x[a] = y[a]
  <2>1. CASE topo[a] = Undeclared
    BY <1>1, <2>1, ZenonT(30) DEF ValidateWorkerParallelism
  <2>2. CASE topo[a] # Undeclared
    <3>1. FormatTopologyDir(topo, x)[a] = <<topo[a], x[a]>> /\ FormatTopologyDir(topo, y)[a] = <<topo[a], y[a]>>
      BY <2>2, ZenonT(30) DEF FormatTopologyDir
    <3> QED
      BY <1>2, <3>1
  <2> QED
    BY <2>1, <2>2, ZenonT(30)
<1>4. x = [a \in Axes |-> x[a]] /\ y = [a \in Axes |-> y[a]]
  BY RanksValid, ZenonT(30)
<1>5. x = y
  BY <1>3, <1>4, ZenonT(30)
<1> QED
  BY <1>2, <1>5, ZenonT(30)

\* A worker reads the path of one of the files.
LEMMA ReadPath ==
  ASSUME FilesType, NEW r \in Reads
  PROVE  PathOf(site.reads[r]) \in Paths
<1>1. /\ site \in Sites /\ site.reads[r].hash \in site.hashes \ BadHashes
      /\ site.reads[r].rank \in WorkerRanks(site.topo)
  BY SitesAssumption, ZenonT(30) DEF FilesType, Reads
<1>2. PathOf(site.reads[r]) \in {MapKey(h, site.topo, x) : h \in site.hashes \ BadHashes, x \in WorkerRanks(site.topo)}
  BY <1>1 DEF PathOf
<1> QED
  BY <1>1, <1>2 DEF Paths

\* A read of a path is a read of what was written there.
LEMMA SameCall ==
  ASSUME FilesType, NEW r \in Reads, NEW w \in Writes, PathOf(site.writes[w]) = PathOf(site.reads[r])
  PROVE  site.writes[w] = site.reads[r]
<1> DEFINE Calls == [hash : site.hashes \ BadHashes, rank : WorkerRanks(site.topo)]
           x == site.writes[w]
           y == site.reads[r]
<1>1. x \in Calls /\ y \in Calls
  BY SitesAssumption, ZenonT(30) DEF FilesType, Writes, Reads
<1>2. MapKey(x.hash, site.topo, x.rank) = MapKey(y.hash, site.topo, y.rank)
  BY ZenonT(30) DEF PathOf
<1>3. x.hash = y.hash /\ x.rank = y.rank
  BY <1>1, <1>2, PathsDiffer
<1> HIDE DEF x, y
<1>4. x = y
  BY <1>1, <1>3
<1> QED
  BY <1>4, ZenonT(30) DEF x, y

\* One write changes.
LEMMA WriteChange ==
  ASSUME FilesType, NEW w \in Writes, NEW x \in WriteCalls, wr' = [wr EXCEPT ![w] = x]
  PROVE  wr' \in [Writes -> WriteCalls] /\ wr'[w] = x /\ \A v \in Writes \ {w} : wr'[v] = wr[v]
<1>1. wr \in [Writes -> WriteCalls]
  BY ZenonT(30) DEF FilesType
<1> QED
  BY <1>1, ZenonT(30)

\* One read changes.
LEMMA ReadChange ==
  ASSUME FilesType, NEW r \in Reads, NEW x \in ReadCalls, rd' = [rd EXCEPT ![r] = x]
  PROVE  rd' \in [Reads -> ReadCalls] /\ rd'[r] = x /\ \A q \in Reads \ {r} : rd'[q] = rd[q]
<1>1. rd \in [Reads -> ReadCalls]
  BY ZenonT(30) DEF FilesType
<1> QED
  BY <1>1, ZenonT(30)

\* The site never changes.
LEMMA SiteStays ==
  ASSUME site' = site
  PROVE  Writes' = Writes /\ Reads' = Reads /\ ReadCalls' = ReadCalls /\ \A call : PathOf(call)' = PathOf(call)
BY ZenonT(30) DEF Writes, Reads, ReadCalls, PathOf

\* The invariant after a step of a write that was not answered yet.
LEMMA WriteStep ==
  ASSUME FilesInv, site' = site, rd' = rd, NEW w \in Writes, wr[w].pc # "ok",
         wr' \in [Writes -> WriteCalls], \A v \in Writes \ {w} : wr'[v] = wr[v],
         DOMAIN inode' = Writes, \A v \in Writes \ {w} : inode'[v] = inode[v],
         temps' \subseteq Writes, temps' \ {w} = temps \ {w}, w \in temps' => wr'[w].pc \in {"write", "crashed"},
         DOMAIN files' = Paths,
         \A p \in Paths : files'[p] = files[p] \/ (files'[p] = w /\ wr'[w].pc = "ok" /\ PathOf(site.writes[w]) = p),
         Written(w)'
  PROVE  FilesInv'
<1>1. FilesType /\ Temporary /\ site' \in Sites /\ rd' \in [Reads -> ReadCalls]
      /\ \A p \in Paths : files[p] \in Writes \cup {0}
  BY ZenonT(30) DEF FilesInv, FilesType
<1>2. Writes' = Writes /\ Reads' = Reads /\ ReadCalls' = ReadCalls /\ \A call : PathOf(call)' = PathOf(call)
  BY SiteStays, ZenonT(30)
<1>3. FilesType'
  BY <1>1, <1>2, ZenonT(30) DEF FilesType
<1>4. Temporary'
  BY <1>1, ZenonT(30) DEF Temporary
<1>5. \A v \in Writes : Written(v)'
  BY ZenonT(30) DEF FilesInv, Written
<1>6. ASSUME NEW p \in Paths PROVE Published(p)'
  <2>1. CASE files'[p] = files[p]
    <3>1. Published(p)
      BY ZenonT(30) DEF FilesInv
    <3>2. files[p] # 0 => files[p] \in Writes \ {w}
      BY <1>1, <3>1, ZenonT(30) DEF Published
    <3> QED
      BY <1>2, <2>1, <3>1, <3>2, ZenonT(30) DEF Published
  <2>2. CASE files'[p] = w /\ wr'[w].pc = "ok" /\ PathOf(site.writes[w]) = p
    BY <1>2, <2>2, ZenonT(30) DEF Published
  <2> QED
    BY <2>1, <2>2, ZenonT(30)
<1>7. ASSUME NEW r \in Reads PROVE Held(r)' /\ Unread(r)'
  <2>1. Held(r)
    BY ZenonT(30) DEF FilesInv
  <2>2. rd[r].pc \in {"read", "ok"} => wr'[rd[r].file] = wr[rd[r].file]
    BY <2>1, ZenonT(30) DEF Held
  <2> QED
    BY <1>2, <2>1, <2>2, ZenonT(30) DEF FilesInv, Held, Unread
<1> QED
  BY <1>2, <1>3, <1>4, <1>5, <1>6, <1>7, ZenonT(30) DEF FilesInv

\* The invariant after a step of a read.
LEMMA ReadStep ==
  ASSUME FilesInv, site' = site, files' = files, inode' = inode, temps' = temps, wr' = wr, NEW r \in Reads,
         rd' \in [Reads -> ReadCalls], \A q \in Reads \ {r} : rd'[q] = rd[q], Held(r)', Unread(r)'
  PROVE  FilesInv'
<1>1. Writes' = Writes /\ Reads' = Reads /\ ReadCalls' = ReadCalls /\ \A call : PathOf(call)' = PathOf(call)
  BY SiteStays, ZenonT(30)
<1>2. FilesType'
  BY <1>1, ZenonT(30) DEF FilesInv, FilesType
<1>3. Temporary' /\ \A w \in Writes : Written(w)'
  BY ZenonT(30) DEF FilesInv, Temporary, Written
<1>4. \A p \in Paths : Published(p)'
  BY <1>1, ZenonT(30) DEF FilesInv, Published
<1>5. \A q \in Reads \ {r} : Held(q)' /\ Unread(q)'
  BY <1>1, ZenonT(30) DEF FilesInv, Held, Unread
<1> QED
  BY <1>1, <1>2, <1>3, <1>4, <1>5, ZenonT(30) DEF FilesInv

\* The invariant after a step that touches no write, read or file.
LEMMA OtherStep ==
  ASSUME FilesInv, site' = site, files' = files, inode' = inode, temps' = temps, wr' = wr, rd' = rd
  PROVE  FilesInv'
<1>1. Writes' = Writes /\ Reads' = Reads /\ ReadCalls' = ReadCalls /\ \A call : PathOf(call)' = PathOf(call)
  BY SiteStays, ZenonT(30)
<1>2. FilesType'
  BY <1>1, ZenonT(30) DEF FilesInv, FilesType
<1>3. Temporary' /\ \A w \in Writes : Written(w)'
  BY ZenonT(30) DEF FilesInv, Temporary, Written
<1>4. \A p \in Paths : Published(p)'
  BY <1>1, ZenonT(30) DEF FilesInv, Published
<1>5. \A q \in Reads : Held(q)' /\ Unread(q)'
  BY <1>1, ZenonT(30) DEF FilesInv, Held, Unread
<1> QED
  BY <1>1, <1>2, <1>3, <1>4, <1>5, ZenonT(30) DEF FilesInv

-----------------------------------------------------------------------------
(* Steps *)

\* The temporary file is created.
LEMMA OpenTempStep ==
  ASSUME FilesInv, NEW w \in Writes, OpenTemp(w)
  PROVE  FilesInv'
<1>1. /\ site' = site /\ files' = files /\ inode' = inode /\ rd' = rd /\ temps' = temps \cup {w}
      /\ wr[w].pc = "idle" /\ wr' = [wr EXCEPT ![w].pc = "write"]
  BY ZenonT(30) DEF OpenTemp
<1>2. /\ FilesType /\ wr[w] \in WriteCalls /\ Written(w) /\ Temporary /\ temps \subseteq Writes
      /\ DOMAIN inode = Writes /\ DOMAIN files = Paths
  BY ZenonT(30) DEF FilesInv, FilesType
<1> DEFINE x == [wr[w] EXCEPT !.pc = "write"]
<1>3. x \in WriteCalls /\ x.pc = "write" /\ x.pos = wr[w].pos
  BY <1>2, ZenonT(30) DEF WriteCalls
<1>4. wr' = [wr EXCEPT ![w] = x]
  BY <1>1, ZenonT(30)
<1> HIDE DEF x
<1>5. wr' \in [Writes -> WriteCalls] /\ wr'[w] = x /\ \A v \in Writes \ {w} : wr'[v] = wr[v]
  BY <1>2, <1>3, <1>4, WriteChange, ZenonT(30)
<1>6. Written(w)'
  BY <1>1, <1>2, <1>3, <1>5, ZenonT(30) DEF Written
<1>7. temps' \subseteq Writes /\ temps' \ {w} = temps \ {w} /\ (w \in temps' => wr'[w].pc \in {"write", "crashed"})
  BY <1>1, <1>2, <1>3, <1>5, ZenonT(30) DEF Temporary
<1> QED
  BY <1>1, <1>2, <1>5, <1>6, <1>7, WriteStep, ZenonT(30)

\* A write is refused before it has a file.
LEMMA RefuseWriteStep ==
  ASSUME FilesInv, NEW w \in Writes, RefuseWrite(w)
  PROVE  FilesInv'
<1>1. /\ site' = site /\ files' = files /\ inode' = inode /\ rd' = rd /\ temps' = temps
      /\ wr[w].pc = "idle" /\ wr' = [wr EXCEPT ![w].pc = "failed"]
  BY ZenonT(30) DEF RefuseWrite
<1>2. /\ FilesType /\ wr[w] \in WriteCalls /\ Written(w) /\ Temporary /\ temps \subseteq Writes
      /\ DOMAIN inode = Writes /\ DOMAIN files = Paths
  BY ZenonT(30) DEF FilesInv, FilesType
<1> DEFINE x == [wr[w] EXCEPT !.pc = "failed"]
<1>3. x \in WriteCalls /\ x.pc = "failed" /\ x.pos = wr[w].pos
  BY <1>2, ZenonT(30) DEF WriteCalls
<1>4. wr' = [wr EXCEPT ![w] = x]
  BY <1>1, ZenonT(30)
<1> HIDE DEF x
<1>5. wr' \in [Writes -> WriteCalls] /\ wr'[w] = x /\ \A v \in Writes \ {w} : wr'[v] = wr[v]
  BY <1>2, <1>3, <1>4, WriteChange, ZenonT(30)
<1>6. Written(w)'
  BY <1>1, <1>2, <1>3, <1>5, ZenonT(30) DEF Written
<1>7. temps' \subseteq Writes /\ temps' \ {w} = temps \ {w} /\ (w \in temps' => wr'[w].pc \in {"write", "crashed"})
  BY <1>1, <1>2, <1>3, <1>5, ZenonT(30) DEF Temporary
<1> QED
  BY <1>1, <1>2, <1>5, <1>6, <1>7, WriteStep, ZenonT(30)

\* A write fails and removes its temporary file.
LEMMA FailWriteStep ==
  ASSUME FilesInv, NEW w \in Writes, FailWrite(w)
  PROVE  FilesInv'
<1>1. /\ site' = site /\ files' = files /\ inode' = inode /\ rd' = rd /\ temps' = temps \ {w}
      /\ wr[w].pc = "write" /\ wr' = [wr EXCEPT ![w].pc = "failed"]
  BY ZenonT(30) DEF FailWrite
<1>2. /\ FilesType /\ wr[w] \in WriteCalls /\ Written(w) /\ Temporary /\ temps \subseteq Writes
      /\ DOMAIN inode = Writes /\ DOMAIN files = Paths
  BY ZenonT(30) DEF FilesInv, FilesType
<1> DEFINE x == [wr[w] EXCEPT !.pc = "failed"]
<1>3. x \in WriteCalls /\ x.pc = "failed" /\ x.pos = wr[w].pos
  BY <1>2, ZenonT(30) DEF WriteCalls
<1>4. wr' = [wr EXCEPT ![w] = x]
  BY <1>1, ZenonT(30)
<1> HIDE DEF x
<1>5. wr' \in [Writes -> WriteCalls] /\ wr'[w] = x /\ \A v \in Writes \ {w} : wr'[v] = wr[v]
  BY <1>2, <1>3, <1>4, WriteChange, ZenonT(30)
<1>6. Written(w)'
  BY <1>1, <1>2, <1>3, <1>5, ZenonT(30) DEF Written
<1>7. temps' \subseteq Writes /\ temps' \ {w} = temps \ {w} /\ (w \in temps' => wr'[w].pc \in {"write", "crashed"})
  BY <1>1, <1>2, <1>3, <1>5, ZenonT(30) DEF Temporary
<1> QED
  BY <1>1, <1>2, <1>5, <1>6, <1>7, WriteStep, ZenonT(30)

\* The writer dies.
LEMMA CrashWriterStep ==
  ASSUME FilesInv, NEW w \in Writes, CrashWriter(w)
  PROVE  FilesInv'
<1>1. /\ site' = site /\ files' = files /\ inode' = inode /\ rd' = rd /\ temps' = temps
      /\ wr[w].pc = "write" /\ wr' = [wr EXCEPT ![w].pc = "crashed"]
  BY ZenonT(30) DEF CrashWriter
<1>2. /\ FilesType /\ wr[w] \in WriteCalls /\ Written(w) /\ Temporary /\ temps \subseteq Writes
      /\ DOMAIN inode = Writes /\ DOMAIN files = Paths
  BY ZenonT(30) DEF FilesInv, FilesType
<1> DEFINE x == [wr[w] EXCEPT !.pc = "crashed"]
<1>3. x \in WriteCalls /\ x.pc = "crashed" /\ x.pos = wr[w].pos
  BY <1>2, ZenonT(30) DEF WriteCalls
<1>4. wr' = [wr EXCEPT ![w] = x]
  BY <1>1, ZenonT(30)
<1> HIDE DEF x
<1>5. wr' \in [Writes -> WriteCalls] /\ wr'[w] = x /\ \A v \in Writes \ {w} : wr'[v] = wr[v]
  BY <1>2, <1>3, <1>4, WriteChange, ZenonT(30)
<1>6. Written(w)'
  BY <1>1, <1>2, <1>3, <1>5, ZenonT(30) DEF Written
<1>7. temps' \subseteq Writes /\ temps' \ {w} = temps \ {w} /\ (w \in temps' => wr'[w].pc \in {"write", "crashed"})
  BY <1>1, <1>2, <1>3, <1>5, ZenonT(30) DEF Temporary
<1> QED
  BY <1>1, <1>2, <1>5, <1>6, <1>7, WriteStep, ZenonT(30)

\* Some bytes of the batch are written, behind what is there.
LEMMA PWriteStep ==
  ASSUME FilesInv, NEW w \in Writes, PWrite(w)
  PROVE  FilesInv'
<1>1. PICK n \in 1..Size :
        /\ inode' = [inode EXCEPT ![w] = @ \o ByteRun(wr[w].pos, wr[w].pos + n)]
        /\ wr' = [wr EXCEPT ![w].pos = @ + n]
  BY ZenonT(30) DEF PWrite
<1>2. site' = site /\ files' = files /\ temps' = temps /\ rd' = rd /\ wr[w].pc = "write"
  BY ZenonT(30) DEF PWrite
<1>3. /\ FilesType /\ wr[w] \in WriteCalls /\ Written(w) /\ Temporary /\ temps \subseteq Writes
      /\ DOMAIN inode = Writes /\ DOMAIN files = Paths
  BY ZenonT(30) DEF FilesInv, FilesType
<1>4. n \in Nat /\ wr[w].pos \in Nat
  BY <1>3, SizeAssumption DEF WriteCalls
<1> DEFINE x == [wr[w] EXCEPT !.pos = @ + n]
<1>5. x \in WriteCalls /\ x.pc = "write" /\ x.pos = wr[w].pos + n
  BY <1>2, <1>3, <1>4 DEF WriteCalls
<1>6. wr' = [wr EXCEPT ![w] = x]
  BY <1>1, ZenonT(30)
<1> HIDE DEF x
<1>7. wr' \in [Writes -> WriteCalls] /\ wr'[w] = x /\ \A v \in Writes \ {w} : wr'[v] = wr[v]
  BY <1>3, <1>5, <1>6, WriteChange, ZenonT(30)
<1>8. /\ DOMAIN inode' = Writes /\ \A v \in Writes \ {w} : inode'[v] = inode[v]
      /\ inode'[w] = inode[w] \o ByteRun(wr[w].pos, wr[w].pos + n)
  BY <1>1, <1>3, ZenonT(30)
<1>9. inode'[w] = ByteRun(0, wr[w].pos + n)
  BY <1>3, <1>4, <1>8, LongerRun, ZenonT(30) DEF Written
<1>10. Written(w)'
  BY <1>5, <1>7, <1>9, ZenonT(30) DEF Written
<1> QED
  BY <1>2, <1>3, <1>5, <1>7, <1>8, <1>10, WriteStep, ZenonT(30)

\* The complete file gets its path.
LEMMA PublishStep ==
  ASSUME FilesInv, NEW w \in Writes, Publish(w)
  PROVE  FilesInv'
<1> DEFINE p == PathOf(site.writes[w])
<1>1. /\ site' = site /\ inode' = inode /\ rd' = rd /\ temps' = temps \ {w}
      /\ wr[w].pc = "write" /\ wr[w].pos = Size /\ wr' = [wr EXCEPT ![w].pc = "ok"]
      /\ files' = [files EXCEPT ![p] = w]
  BY ZenonT(30) DEF Publish
<1>2. /\ FilesType /\ wr[w] \in WriteCalls /\ Written(w) /\ temps \subseteq Writes
      /\ DOMAIN inode = Writes /\ DOMAIN files = Paths
  BY ZenonT(30) DEF FilesInv, FilesType
<1> DEFINE x == [wr[w] EXCEPT !.pc = "ok"]
<1>3. x \in WriteCalls /\ x.pc = "ok" /\ x.pos = Size
  BY <1>1, <1>2, ZenonT(30) DEF WriteCalls
<1>4. wr' = [wr EXCEPT ![w] = x]
  BY <1>1, ZenonT(30)
<1> HIDE DEF x
<1>5. wr' \in [Writes -> WriteCalls] /\ wr'[w] = x /\ \A v \in Writes \ {w} : wr'[v] = wr[v]
  BY <1>2, <1>3, <1>4, WriteChange, ZenonT(30)
<1>6. Written(w)'
  BY <1>1, <1>2, <1>3, <1>5, ZenonT(30) DEF Written
<1>7. /\ DOMAIN files' = Paths
      /\ \A q \in Paths : files'[q] = files[q] \/ (files'[q] = w /\ wr'[w].pc = "ok" /\ PathOf(site.writes[w]) = q)
  BY <1>1, <1>2, <1>3, <1>5, ZenonT(30)
<1> QED
  BY <1>1, <1>2, <1>5, <1>6, <1>7, WriteStep, ZenonT(30)

\* Somebody removes a published file; who has it open keeps it.
LEMMA RemoveFileStep ==
  ASSUME FilesInv, NEW p \in Paths, RemoveFile(p)
  PROVE  FilesInv'
<1>1. /\ site' = site /\ inode' = inode /\ temps' = temps /\ wr' = wr /\ rd' = rd
      /\ files' = [files EXCEPT ![p] = 0]
  BY ZenonT(30) DEF RemoveFile
<1>2. Writes' = Writes /\ Reads' = Reads /\ ReadCalls' = ReadCalls /\ \A call : PathOf(call)' = PathOf(call)
  BY <1>1, SiteStays, ZenonT(30)
<1>3. DOMAIN files' = Paths /\ files'[p] = 0 /\ \A q \in Paths \ {p} : files'[q] = files[q]
  BY <1>1, ZenonT(30) DEF FilesInv, FilesType
<1>4. FilesType'
  BY <1>1, <1>2, <1>3, ZenonT(30) DEF FilesInv, FilesType
<1>5. Temporary' /\ \A w \in Writes : Written(w)'
  BY <1>1, ZenonT(30) DEF FilesInv, Temporary, Written
<1>6. \A q \in Paths : Published(q)'
  BY <1>1, <1>2, <1>3, ZenonT(30) DEF FilesInv, Published
<1>7. \A r \in Reads : Held(r)' /\ Unread(r)'
  BY <1>1, <1>2, ZenonT(30) DEF FilesInv, Held, Unread
<1> QED
  BY <1>2, <1>4, <1>5, <1>6, <1>7, ZenonT(30) DEF FilesInv

\* A reader opens what its path names, if anything.
LEMMA OpenReadStep ==
  ASSUME FilesInv, NEW r \in Reads, OpenRead(r)
  PROVE  FilesInv'
<1> DEFINE p == PathOf(site.reads[r])
           f == files[p]
<1>1. /\ site' = site /\ files' = files /\ inode' = inode /\ temps' = temps /\ wr' = wr
      /\ rd[r].pc = "idle"
      /\ rd' = [rd EXCEPT ![r].pc = IF f = 0 THEN "not_found" ELSE "read", ![r].file = f]
  BY ZenonT(30) DEF OpenRead
<1>2. FilesType /\ rd[r] \in ReadCalls /\ Unread(r)
  BY <1>1, ZenonT(30) DEF FilesInv, FilesType, Held, Unread
<1>3. p \in Paths
  BY <1>2, ReadPath, ZenonT(30)
<1>4. f \in Writes \cup {0} /\ Published(p)
  BY <1>2, <1>3, ZenonT(30) DEF FilesInv, FilesType
<1> DEFINE x == [rd[r] EXCEPT !.pc = IF f = 0 THEN "not_found" ELSE "read", !.file = f]
<1>5. /\ x \in ReadCalls /\ x.pc = (IF f = 0 THEN "not_found" ELSE "read") /\ x.file = f
      /\ x.got = rd[r].got
  <2> HIDE DEF f
  <2> QED
    BY <1>2, <1>4, ZenonT(30) DEF ReadCalls
<1>6. rd' = [rd EXCEPT ![r] = x]
  BY <1>1, ZenonT(30)
<1> HIDE DEF x
<1>7. rd' \in [Reads -> ReadCalls] /\ rd'[r] = x /\ \A q \in Reads \ {r} : rd'[q] = rd[q]
  BY <1>2, <1>5, <1>6, ReadChange, ZenonT(30)
<1>8. Held(r)' /\ Unread(r)'
  <2>1. rd[r].got = ByteRun(0, Len(rd[r].got)) /\ Len(rd[r].got) <= Size
    BY <1>1, <1>2, SizeAssumption DEF Unread
  <2>2. f # 0 => f \in Writes /\ wr[f].pc = "ok" /\ PathOf(site.writes[f]) = p
    BY <1>4, ZenonT(30) DEF Published
  <2> HIDE DEF f, p
  <2>3. x.pc \in {"read", "ok"} => f # 0 /\ x.pc = "read"
    BY <1>5, ZenonT(30)
  <2>4. Writes' = Writes /\ \A call : PathOf(call)' = PathOf(call)
    BY <1>1, SiteStays, ZenonT(30)
  <2> QED
    BY <1>1, <1>5, <1>7, <2>1, <2>2, <2>3, <2>4 DEF Held, Unread, p
<1> QED
  BY <1>1, <1>7, <1>8, ReadStep, ZenonT(30)

\* A read that has every byte succeeds.
LEMMA EndReadStep ==
  ASSUME FilesInv, NEW r \in Reads, EndRead(r)
  PROVE  FilesInv'
<1>1. /\ site' = site /\ files' = files /\ inode' = inode /\ temps' = temps /\ wr' = wr
      /\ rd[r].pc = "read" /\ Len(rd[r].got) = Size /\ rd' = [rd EXCEPT ![r].pc = "ok"]
  BY ZenonT(30) DEF EndRead
<1>2. FilesType /\ rd[r] \in ReadCalls /\ Held(r)
  BY ZenonT(30) DEF FilesInv, FilesType
<1> DEFINE x == [rd[r] EXCEPT !.pc = "ok"]
<1>3. x \in ReadCalls /\ x.pc = "ok" /\ x.file = rd[r].file /\ x.got = rd[r].got
  BY <1>2, ZenonT(30) DEF ReadCalls
<1>4. rd' = [rd EXCEPT ![r] = x]
  BY <1>1, ZenonT(30)
<1> HIDE DEF x
<1>5. rd' \in [Reads -> ReadCalls] /\ rd'[r] = x /\ \A q \in Reads \ {r} : rd'[q] = rd[q]
  BY <1>2, <1>3, <1>4, ReadChange, ZenonT(30)
<1>6. Held(r)' /\ Unread(r)'
  BY <1>1, <1>2, <1>3, <1>5, SiteStays DEF Held, Unread
<1> QED
  BY <1>1, <1>5, <1>6, ReadStep, ZenonT(30)

\* A read fails.
LEMMA FailReadStep ==
  ASSUME FilesInv, NEW r \in Reads, FailRead(r)
  PROVE  FilesInv'
<1>1. /\ site' = site /\ files' = files /\ inode' = inode /\ temps' = temps /\ wr' = wr
      /\ rd[r].pc \in {"idle", "read"} /\ rd' = [rd EXCEPT ![r].pc = "failed"]
  BY ZenonT(30) DEF FailRead
<1>2. FilesType /\ rd[r] \in ReadCalls /\ Held(r)
  BY ZenonT(30) DEF FilesInv, FilesType
<1> DEFINE x == [rd[r] EXCEPT !.pc = "failed"]
<1>3. x \in ReadCalls /\ x.pc = "failed" /\ x.file = rd[r].file /\ x.got = rd[r].got
  BY <1>2, ZenonT(30) DEF ReadCalls
<1>4. rd' = [rd EXCEPT ![r] = x]
  BY <1>1, ZenonT(30)
<1> HIDE DEF x
<1>5. rd' \in [Reads -> ReadCalls] /\ rd'[r] = x /\ \A q \in Reads \ {r} : rd'[q] = rd[q]
  BY <1>2, <1>3, <1>4, ReadChange, ZenonT(30)
<1>6. Held(r)' /\ Unread(r)'
  BY <1>1, <1>2, <1>3, <1>5, SiteStays, ZenonT(30) DEF Held, Unread
<1> QED
  BY <1>1, <1>5, <1>6, ReadStep, ZenonT(30)

\* Some bytes are read behind those before them; the file is complete, so it
\* does not end before the block does.
LEMMA PReadStep ==
  ASSUME FilesInv, NEW r \in Reads, PRead(r)
  PROVE  FilesInv'
<1> DEFINE pos == Len(rd[r].got)
           data == inode[rd[r].file]
<1>1. /\ site' = site /\ files' = files /\ inode' = inode /\ temps' = temps /\ wr' = wr
      /\ rd[r].pc = "read" /\ pos < Size
  BY ZenonT(30) DEF PRead
<1>2. /\ FilesType /\ rd[r] \in ReadCalls /\ Held(r) /\ rd[r].file \in Writes /\ wr[rd[r].file].pc = "ok"
      /\ rd[r].got = ByteRun(0, pos) /\ pos <= Size
  BY <1>1, ZenonT(30) DEF FilesInv, FilesType, Held
<1>3. pos \in Nat /\ Size \in Nat
  BY <1>2, SizeAssumption DEF ReadCalls
<1>4. data = ByteRun(0, Size) /\ Len(data) = Size
  <2>1. Written(rd[r].file)
    BY <1>2, ZenonT(30) DEF FilesInv
  <2>2. data = ByteRun(0, Size)
    BY <1>2, <2>1, ZenonT(30) DEF Written
  <2> QED
    BY <1>3, <2>2, FirstBytes, ZenonT(30)
<1>5. pos # Len(data)
  BY <1>1, <1>3, <1>4
<1>6. PICK n \in 1..Size : /\ pos + n <= Len(data)
                           /\ rd' = [rd EXCEPT ![r].got = @ \o SubSeq(data, pos + 1, pos + n)]
  BY <1>5, ZenonT(30) DEF PRead
<1>7. n \in Nat /\ pos + n \in Nat /\ pos + n <= Size
  BY <1>3, <1>4, <1>6
<1> DEFINE got == rd[r].got \o SubSeq(data, pos + 1, pos + n)
<1>8. got = ByteRun(0, pos + n)
  <2>1. SubSeq(data, pos + 1, pos + n) = ByteRun(pos, pos + n)
    <3> HIDE DEF pos, data
    <3>1. SubSeq(ByteRun(0, Size), pos + 1, pos + n) = ByteRun(pos, pos + n)
      BY <1>3, <1>7, PieceOfRun, ZenonT(30)
    <3> QED
      BY <1>4, <3>1, ZenonT(30)
  <2> QED
    BY <1>2, <1>3, <1>7, <2>1, LongerRun, ZenonT(30)
<1>9. got \in Seq(Nat) /\ Len(got) = pos + n
  BY <1>7, <1>8, FirstBytes, ZenonT(30)
<1>10. rd' = [rd EXCEPT ![r].got = got]
  BY <1>6, ZenonT(30)
<1> HIDE DEF got
<1> DEFINE x == [rd[r] EXCEPT !.got = got]
<1>11. x \in ReadCalls /\ x.pc = "read" /\ x.file = rd[r].file /\ x.got = got
  BY <1>1, <1>2, <1>9, ZenonT(30) DEF ReadCalls
<1>12. rd' = [rd EXCEPT ![r] = x]
  BY <1>10, ZenonT(30)
<1> HIDE DEF x
<1>13. rd' \in [Reads -> ReadCalls] /\ rd'[r] = x /\ \A q \in Reads \ {r} : rd'[q] = rd[q]
  BY <1>2, <1>11, <1>12, ReadChange, ZenonT(30)
<1>14. got = ByteRun(0, Len(got)) /\ Len(got) <= Size
  BY <1>7, <1>8, <1>9, ZenonT(30)
<1>15. Held(r)' /\ Unread(r)'
  BY <1>1, <1>2, <1>11, <1>13, <1>14, SiteStays, ZenonT(30) DEF Held, Unread
<1> QED
  BY <1>1, <1>13, <1>15, ReadStep, ZenonT(30)

-----------------------------------------------------------------------------
(* The invariant *)

\* The files published earlier are complete.
LEMMA FilesInvInit == PosixInit => FilesInv
<1> SUFFICES ASSUME PosixInit PROVE FilesInv
  BY ZenonT(30)
<1>1. /\ site \in Sites /\ temps = {}
      /\ inode = [w \in Writes |-> IF w \in site.before THEN Whole ELSE <<>>]
      /\ wr = [w \in Writes |->
                IF w \in site.before THEN [pc |-> "ok", pos |-> Size] ELSE [pc |-> "idle", pos |-> 0]]
      /\ rd = [r \in Reads |-> [pc |-> "idle", file |-> 0, got |-> <<>>]]
      /\ files = [p \in Paths |-> IF \E w \in site.before : PathOf(site.writes[w]) = p
                                  THEN CHOOSE w \in site.before : PathOf(site.writes[w]) = p ELSE 0]
  BY ZenonT(30) DEF PosixInit, Writes, Reads
<1>2. Size \in Nat /\ site.before \subseteq Writes /\ 0 \notin Writes
  BY <1>1, SizeAssumption, SitesAssumption, ZenonT(30) DEF Writes
<1>3. ByteRun(0, 0) = <<>>
  <2>1. ByteRun(0, 0) \in Seq(Nat) /\ Len(ByteRun(0, 0)) = 0
    BY FirstBytes, ZenonT(30)
  <2> QED
    BY <2>1
<1>4. \A p \in Paths : \/ files[p] = 0
                       \/ files[p] \in site.before /\ PathOf(site.writes[files[p]]) = p
  BY <1>1, ZenonT(30)
<1>5. \A w \in Writes : /\ inode[w] = IF w \in site.before THEN Whole ELSE <<>>
                        /\ w \in site.before => wr[w].pc = "ok" /\ wr[w].pos = Size
                        /\ w \notin site.before => wr[w].pc = "idle" /\ wr[w].pos = 0
  BY <1>1, ZenonT(30)
<1>6. \A r \in Reads : rd[r].pc = "idle" /\ rd[r].got = <<>>
  BY <1>1, ZenonT(30)
<1>7. FilesType
  <2>1. wr \in [Writes -> WriteCalls]
    BY <1>1, <1>2, ZenonT(30) DEF WriteCalls
  <2>2. rd \in [Reads -> ReadCalls]
    BY <1>1 DEF ReadCalls
  <2>3. DOMAIN files = Paths /\ DOMAIN inode = Writes
    BY <1>1, ZenonT(30)
  <2> QED
    BY <1>1, <1>2, <1>4, <2>1, <2>2, <2>3, ZenonT(30) DEF FilesType
<1>8. \A w \in Writes : Written(w)
  BY <1>3, <1>5, ZenonT(30) DEF Written, Whole
<1>9. \A p \in Paths : Published(p)
  BY <1>2, <1>4, <1>5, ZenonT(30) DEF Published
<1>10. \A r \in Reads : Held(r) /\ Unread(r)
  BY <1>3, <1>6 DEF Held, Unread
<1>11. Temporary
  BY <1>1, ZenonT(30) DEF Temporary
<1> QED
  BY <1>7, <1>8, <1>9, <1>10, <1>11, ZenonT(30) DEF FilesInv

\* Every step keeps the invariant.
LEMMA FilesInvStep == FilesInv /\ [PosixNext]_posixVars => FilesInv'
<1> SUFFICES ASSUME FilesInv, [PosixNext]_posixVars PROVE FilesInv'
  BY ZenonT(30)
<1>1. DOMAIN wr = Writes /\ DOMAIN rd = Reads
  BY ZenonT(30) DEF FilesInv, FilesType
<1>2. ASSUME NEW w \in Writes, OpenTemp(w) \/ PWrite(w) \/ Publish(w) \/ RefuseWrite(w) \/ FailWrite(w) \/ CrashWriter(w)
      PROVE  FilesInv'
  BY <1>2, OpenTempStep, PWriteStep, PublishStep, RefuseWriteStep, FailWriteStep, CrashWriterStep, ZenonT(30)
<1>3. ASSUME NEW r \in Reads, OpenRead(r) \/ PRead(r) \/ EndRead(r) \/ FailRead(r)
      PROVE  FilesInv'
  BY <1>3, OpenReadStep, PReadStep, EndReadStep, FailReadStep, ZenonT(30)
<1>4. ASSUME NEW p \in Paths, RemoveFile(p) PROVE FilesInv'
  BY <1>4, RemoveFileStep, ZenonT(30)
<1> DEFINE Untouched == site' = site /\ files' = files /\ inode' = inode /\ temps' = temps /\ wr' = wr /\ rd' = rd
<1>5. ASSUME NEW l, StartLookup(l) PROVE Untouched
  BY <1>5, ZenonT(30) DEF StartLookup
<1>6. ASSUME NEW l, TakeChunk(l) PROVE Untouched
  BY <1>6, ZenonT(30) DEF TakeChunk
<1>7. ASSUME NEW l, EndLookup(l) PROVE Untouched
  BY <1>7, ZenonT(30) DEF EndLookup
<1>8. ASSUME NEW l, NEW k, Exists(l, k) PROVE Untouched
  BY <1>8, ZenonT(30) DEF Exists
<1>9. ASSUME NEW h, Delete(h) PROVE Untouched
  BY <1>9, ZenonT(30) DEF Delete
<1>10. ASSUME NEW k, Expire(k) PROVE Untouched
  BY <1>10, ZenonT(30) DEF Expire
<1>11. CASE UNCHANGED posixVars
  BY <1>11, OtherStep, ZenonT(30) DEF posixVars
<1>12. Untouched => FilesInv'
  BY OtherStep, ZenonT(30)
<1> HIDE DEF Untouched
<1> QED
  BY <1>1, <1>2, <1>3, <1>4, <1>5, <1>6, <1>7, <1>8, <1>9, <1>10, <1>11, <1>12, ZenonT(30) DEF PosixNext, PosixProgress

\* What the invariant says of the files, the reads and the directory.
LEMMA InvImpliesWhole == FilesInv => FilesWhole
<1> SUFFICES ASSUME FilesInv PROVE FilesWhole
  BY ZenonT(30)
<1>1. FilesType /\ DOMAIN rd = Reads /\ rd \in [Reads -> ReadCalls]
  BY ZenonT(30) DEF FilesInv, FilesType
<1>2. ASSUME NEW p \in Paths, files[p] # 0 PROVE inode[files[p]] = Whole
  <2>1. files[p] \in Writes /\ wr[files[p]].pc = "ok"
    BY <1>1, <1>2, ZenonT(30) DEF FilesInv, FilesType, Published
  <2>2. Written(files[p])
    BY <2>1, ZenonT(30) DEF FilesInv
  <2> QED
    BY <2>1, <2>2, ZenonT(30) DEF Written, Whole
<1>3. ASSUME NEW r \in Reads PROVE rd[r].pc # "data_loss"
  BY <1>1, ZenonT(30) DEF ReadCalls
<1>4. ASSUME NEW r \in Reads, rd[r].pc = "ok"
      PROVE  rd[r].got = Whole /\ site.writes[rd[r].file] = site.reads[r]
  <2>1. Held(r)
    BY ZenonT(30) DEF FilesInv
  <2>2. rd[r].got = Whole
    BY <1>4, <2>1, ZenonT(30) DEF Held, Whole
  <2>3. rd[r].file \in Writes /\ PathOf(site.writes[rd[r].file]) = PathOf(site.reads[r])
    BY <1>4, <2>1, ZenonT(30) DEF Held
  <2> QED
    BY <1>1, <2>2, <2>3, SameCall, ZenonT(30)
<1>5. \A w \in temps : wr[w].pc \in {"write", "crashed"}
  BY ZenonT(30) DEF FilesInv, Temporary
<1> QED
  BY <1>1, <1>2, <1>3, <1>4, <1>5, ZenonT(30) DEF FilesWhole

\* The invariant holds in every reachable state.
LEMMA FilesInvAlways == PosixSpec => []FilesInv
BY FilesInvInit, FilesInvStep, PTL DEF PosixSpec

-----------------------------------------------------------------------------
(* Theorems *)

\* Whatever the topology, the calls, the slices and the faults: a path names a
\* complete file or none, and a read that succeeds has its worker's whole block.
THEOREM FilesWholeInvariant == PosixSpec => []FilesWhole
<1>1. FilesInv => FilesWhole
  BY InvImpliesWhole, ZenonT(30)
<1> QED
  BY <1>1, FilesInvAlways, PTL

\* The file a reader has open does not change under it, whoever writes, replaces
\* or removes its path: rename and unlink leave the open file alone.
THEOREM OpenFileStays ==
  PosixSpec => [][\A r \in Reads : rd[r].pc = "read" => inode'[rd[r].file] = inode[rd[r].file]]_posixVars
<1>1. FilesInv /\ [PosixNext]_posixVars
        => [\A r \in Reads : rd[r].pc = "read" => inode'[rd[r].file] = inode[rd[r].file]]_posixVars
  <2> SUFFICES ASSUME FilesInv, PosixNext, NEW r \in Reads, rd[r].pc = "read"
               PROVE  inode'[rd[r].file] = inode[rd[r].file]
    BY ZenonT(30)
  <2>1. rd[r].file \in Writes /\ wr[rd[r].file].pc = "ok" /\ DOMAIN wr = Writes /\ DOMAIN inode = Writes
    BY ZenonT(30) DEF FilesInv, FilesType, Held
  <2>2. CASE inode' = inode
    BY <2>2, ZenonT(30)
  <2>3. CASE inode' # inode
    <3>1. PICK w \in Writes : PWrite(w)
      <4>1. ASSUME NEW w, OpenTemp(w) \/ Publish(w) \/ RefuseWrite(w) \/ FailWrite(w) \/ CrashWriter(w)
            PROVE  inode' = inode
        BY <4>1, ZenonT(30) DEF OpenTemp, Publish, RefuseWrite, FailWrite, CrashWriter
      <4>2. ASSUME NEW q, OpenRead(q) \/ PRead(q) \/ EndRead(q) \/ FailRead(q) PROVE inode' = inode
        BY <4>2, ZenonT(30) DEF OpenRead, PRead, EndRead, FailRead
      <4>3. ASSUME NEW p, RemoveFile(p) \/ Expire(p) PROVE inode' = inode
        BY <4>3, ZenonT(30) DEF RemoveFile, Expire
      <4>4. ASSUME NEW l, StartLookup(l) PROVE inode' = inode
        BY <4>4, ZenonT(30) DEF StartLookup
      <4>5. ASSUME NEW l, TakeChunk(l) PROVE inode' = inode
        BY <4>5, ZenonT(30) DEF TakeChunk
      <4>6. ASSUME NEW l, EndLookup(l) PROVE inode' = inode
        BY <4>6, ZenonT(30) DEF EndLookup
      <4>7. ASSUME NEW l, NEW k, Exists(l, k) PROVE inode' = inode
        BY <4>7, ZenonT(30) DEF Exists
      <4>8. ASSUME NEW h, Delete(h) PROVE inode' = inode
        BY <4>8, ZenonT(30) DEF Delete
      <4> QED
        BY <2>1, <2>3, <4>1, <4>2, <4>3, <4>4, <4>5, <4>6, <4>7, <4>8, ZenonT(30) DEF PosixNext, PosixProgress
    <3>2. wr[w].pc = "write" /\ \A v \in Writes \ {w} : inode'[v] = inode[v]
      BY <2>1, <3>1, ZenonT(30) DEF PWrite
    <3> QED
      BY <2>1, <3>2, ZenonT(30)
  <2> QED
    BY <2>2, <2>3, ZenonT(30)
<1> QED
  BY <1>1, FilesInvAlways, PTL DEF PosixSpec

=============================================================================
