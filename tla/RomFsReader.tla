------------------------------ MODULE RomFsReader ------------------------------
(***************************************************************************)
(* Reading the RomFS of a title: File::Read (core/hle/service/fs/file.cpp)  *)
(* decides whether a read runs at once, on the emulation thread, or on a    *)
(* thread of its own; DirectRomFSReader (core/file_sys/romfs_reader.cpp)    *)
(* serves short reads from the lines of a StaticLRUCache, which has no      *)
(* lock.  The byte at a place of the file is the number of the place.       *)
(***************************************************************************)
EXTENDS Integers, Sequences, FiniteSets, FiniteSetsExt

CONSTANTS Emu,               \* the emulation thread
          Async,             \* threads of std::async
          FileSize,          \* bytes in the file from the start of the RomFS
          DataSize,          \* data_size: bytes of the RomFS
          LineSize,          \* cache_line_size
          LineCount,         \* cache_line_count
          MaxOffset, MaxLength,
          SizeMod,           \* 2^64, the range of size_t
          InBounds           \* programs read inside the file only

HostThread == {Emu} \cup Async

VARIABLES m_list,    \* <<page, index>> pairs, the most recently used first
          m_array,   \* the lines, indexed from 0; -1 where nothing was read
          reader,    \* what every thread is doing
          torn       \* pages that are listed although their line was not filled

romfs_vars == <<m_list, m_array, reader, torn>>

Idle == [pc |-> "idle", offset |-> 0, length |-> 0, segments |-> <<>>, index |-> 0,
         read_size |-> 0, got |-> <<>>, tainted |-> FALSE]

RomFsInit ==
  /\ m_list = <<>> /\ m_array = [i \in 0 .. LineCount - 1 |-> [j \in 0 .. LineSize - 1 |-> -1]]
  /\ reader = [t \in HostThread |-> Idle] /\ torn = {}

-----------------------------------------------------------------------------
\* What ReadAtBytes finds: the bytes of the file from `from`, at most n.
Bytes(from, n) == [i \in 1 .. Max({0, Min({n, FileSize - from})}) |-> from + i - 1]

OffsetToPage(offset) == (offset \div LineSize) * LineSize

\* The loop comes to an end in the line after the first.
BreakupRead(offset, length) ==
  LET n == OffsetToPage(offset + LineSize) - offset IN
  CASE length = 0 -> <<>>
    [] length > 0 /\ (length > LineSize \/ length <= n) -> <<<<offset, length>>>>
    [] OTHER -> <<<<offset, n>>, <<offset + n, length - n>>>>

TooBig(segments) == Len(segments) = 1 /\ segments[1][2] > LineSize

CacheReady(offset, length) == ~ TooBig(BreakupRead(offset, length))

-----------------------------------------------------------------------------
\* File::Read and the start of ReadFile: a read that is too big goes past the
\* cache, and one of no bytes is over.
Read(t, offset, length) ==
  LET left     == (DataSize - offset) % SizeMod
      n        == Min({length, left})
      segments == BreakupRead(offset, n)
      begun    == [Idle EXCEPT !.offset = offset, !.length = length]
  IN
  /\ reader[t] = Idle
  /\ InBounds => offset + length <= DataSize
  /\ CacheReady(offset, length) <=> t = Emu
  /\ reader' = [reader EXCEPT ![t] =
       IF n = 0 THEN [begun EXCEPT !.pc = "done"]
       ELSE IF TooBig(segments) THEN [begun EXCEPT !.pc = "done", !.got = Bytes(offset, n)]
       ELSE [begun EXCEPT !.pc = "request", !.segments = segments]]
  /\ UNCHANGED <<m_list, m_array, torn>>

PageOf(t) == OffsetToPage(reader[t].segments[1][1])
Listed(page) == {i \in DOMAIN m_list : m_list[i][1] = page}

\* StaticLRUCache::request: a page that is listed comes to the front, another
\* one takes the next line or that of the page used least recently.
RequestHit(t) ==
  /\ reader[t].pc = "request"
  /\ \E i \in Listed(PageOf(t)) :
       /\ m_list' = <<m_list[i]>> \o SubSeq(m_list, 1, i - 1) \o SubSeq(m_list, i + 1, Len(m_list))
       /\ reader' = [reader EXCEPT ![t].pc = "copy", ![t].index = m_list[i][2],
                                   ![t].read_size = LineSize]
  /\ UNCHANGED <<m_array, torn>>

EvictWrongLine(t) ==   \* mutant
  LET full  == Len(m_list) >= LineCount
      index == IF full THEN m_list[1][2] ELSE Len(m_list)
      kept  == IF full THEN SubSeq(m_list, 1, Len(m_list) - 1) ELSE m_list
  IN
  /\ reader[t].pc = "request" /\ Listed(PageOf(t)) = {}
  /\ m_list' = <<<<PageOf(t), index>>>> \o kept
  /\ reader' = [reader EXCEPT ![t].pc = "fill", ![t].index = index]
  /\ torn' = torn \cap {kept[i][1] : i \in DOMAIN kept}
  /\ UNCHANGED m_array

RequestMiss(t) ==
  LET full  == Len(m_list) >= LineCount
      index == IF full THEN m_list[Len(m_list)][2] ELSE Len(m_list)
      kept  == IF full THEN SubSeq(m_list, 1, Len(m_list) - 1) ELSE m_list
  IN
  /\ reader[t].pc = "request" /\ Listed(PageOf(t)) = {}
  /\ m_list' = <<<<PageOf(t), index>>>> \o kept
  /\ reader' = [reader EXCEPT ![t].pc = "fill", ![t].index = index]
  /\ torn' = torn \cap {kept[i][1] : i \in DOMAIN kept}
  /\ UNCHANGED m_array

\* ReadAtBytes into the line, and its decryption, which does not fail.
Fill(t) ==
  LET bytes == Bytes(PageOf(t), LineSize) IN
  /\ reader[t].pc = "fill"
  /\ m_array' = [m_array EXCEPT ![reader[t].index] =
                   [j \in 0 .. LineSize - 1 |-> IF j < Len(bytes) THEN bytes[j + 1] ELSE @[j]]]
  /\ reader' = [reader EXCEPT ![t].pc = "copy", ![t].read_size = Len(bytes)]
  /\ UNCHANGED <<m_list, torn>>

\* The host's read fails and leaves the line as it was; the page stays listed.
FillFails(t) ==
  /\ reader[t].pc = "fill"
  /\ reader' = [reader EXCEPT ![t].pc = "copy", ![t].read_size = 0]
  /\ torn' = torn \cup {PageOf(t)}
  /\ UNCHANGED <<m_list, m_array>>

\* The part of the segment that was read.
Copied(t) ==
  LET r    == reader[t]
      into == r.segments[1][1] - PageOf(t)
      n    == IF r.read_size > into THEN Min({into + r.segments[1][2], r.read_size}) - into ELSE 0
  IN  [i \in 1 .. n |-> m_array[r.index][into + i - 1]]

\* It is copied, and the next segment follows.
Copy(t) ==
  /\ reader[t].pc = "copy"
  /\ reader' = [reader EXCEPT ![t] =
       [reader[t] EXCEPT !.got = @ \o Copied(t), !.segments = Tail(@),
                         !.tainted = @ \/ PageOf(t) \in torn,
                         !.pc = IF Len(reader[t].segments) = 1 THEN "done" ELSE "request"]]
  /\ UNCHANGED <<m_list, m_array, torn>>

Replied(t) ==
  /\ reader[t].pc = "done"
  /\ reader' = [reader EXCEPT ![t] = Idle]
  /\ UNCHANGED <<m_list, m_array, torn>>

\* A cached read occupies the emulation thread until it is over.
RomFsNext ==
  \E t \in HostThread :
    \/ \E offset \in 0 .. MaxOffset, length \in 0 .. MaxLength :
         reader[Emu].pc \in {"idle", "done"} /\ Read(t, offset, length)
    \/ RequestHit(t) \/ RequestMiss(t) \/ Fill(t) \/ FillFails(t) \/ Copy(t) \/ Replied(t)

RomFsSpec == RomFsInit /\ [][RomFsNext]_romfs_vars

-----------------------------------------------------------------------------
\* A read of places inside the file returns the bytes of these places, all of
\* them, unless the host failed to read one of its pages: neither the cutting
\* into lines nor the reuse of lines shows.
BytesFaithful ==
  \A t \in HostThread : reader[t].pc = "done" /\ ~ reader[t].tainted =>
    reader[t].got = Bytes(reader[t].offset, reader[t].length)

InCache(t) == reader[t].pc \in {"request", "fill", "copy"}

\* "For now, always return data being in cache to prevent the need of a lock,
\* and only read data asynchronously if it is too big to use the cache"
\* (romfs_reader.cpp:93): no two threads are in the cache.
OneInCache == \A s, t \in HostThread : InCache(s) /\ InCache(t) => s = t

\* Cached and direct reads return the bytes of the file, and only one thread is
\* in the cache (romfs_reader.cpp:22 and 93).
ReadsFaithful == BytesFaithful /\ OneInCache
=============================================================================
