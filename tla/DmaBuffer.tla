------------------------------ MODULE DmaBuffer ------------------------------
(***************************************************************************)
(* The DMA buffer helpers of Dma.c, as transformers of a DMA state         *)
(*   d = [rec |-> [b -> UNDI_DMA_MAPPING], pages |-> [b -> Nat],           *)
(*        maps |-> [b -> Nat]]                                             *)
(* for the buffers b of one adapter: rec is the driver's mapping record,   *)
(* pages and maps what the platform (PciIo over the boot services) holds   *)
(* for b, counting allocations and mappings the driver lost track of.      *)
(*                                                                         *)
(* A record's UnmappedAddress is the page count of the allocation it       *)
(* points at (0 is NULL); PhysicalAddress and Mapping are non-NULL flags.  *)
(* The platform: AllocateBuffer succeeds or fails without writing the      *)
(* address; Map maps all of Size, a shorter prefix (Size is written back), *)
(* or fails; Unmap succeeds exactly for a live mapping; FreeBuffer(n, a)   *)
(* refuses NULL and a count beyond the allocation and otherwise releases   *)
(* the first n pages of it.                                                *)
(***************************************************************************)
EXTENDS Naturals

\* BytesToPages: whole 4 KiB pages, the last one partial.
BytesToPages(bytes) == (IF bytes % 4096 # 0 THEN 1 ELSE 0) + bytes \div 4096

\* An UNDI_DMA_MAPPING with every field zero.
Unbound == [ua |-> 0, pa |-> FALSE, size |-> 0, mapping |-> FALSE]

\* A record that owns a whole mapped allocation of `req' bytes.
Bound(r, req) ==
    r = [ua |-> BytesToPages(req), pa |-> TRUE, size |-> req, mapping |-> TRUE]

\* PciIo->FreeBuffer(n, UnmappedAddress).
FreeBuffer(d, b, n) ==
    IF d.rec[b].ua = 0 \/ n > d.rec[b].ua THEN d
    ELSE [d EXCEPT !.pages[b] = @ - n]

\* UndiDmaUnmapMemory: PhysicalAddress and Mapping are cleared only when
\* PciIo->Unmap succeeds.
UnmapMemory(d, b) ==
    IF d.rec[b].mapping
    THEN [ok |-> TRUE,
          d |-> [d EXCEPT !.rec[b].pa = FALSE, !.rec[b].mapping = FALSE,
                          !.maps[b] = @ - 1]]
    ELSE [ok |-> FALSE, d |-> d]

\* UndiDmaMapCommonBuffer: a zero Size or NULL address is refused, then
\* PciIo->Map with outcome m ("ok", "partial": `got' bytes, "fail").
MapCommonBuffer(d, b, m, got) ==
    IF d.rec[b].size = 0 \/ d.rec[b].ua = 0 \/ m = "fail"
    THEN [ok |-> FALSE, d |-> d]
    ELSE [ok |-> TRUE,
          d |-> [d EXCEPT !.rec[b].pa = TRUE, !.rec[b].mapping = TRUE,
                          !.rec[b].size = IF m = "partial" THEN got ELSE @,
                          !.maps[b] = @ + 1]]

\* The FREE_BUF_ON_ERROR tail: free BytesToPages of the current Size.
FreeBufOnError(d, b) ==
    LET f == FreeBuffer(d, b, BytesToPages(d.rec[b].size))
    IN  [f EXCEPT !.rec[b].size = 0, !.rec[b].ua = 0]

\* A variant of AllocateCommonBuffer below, a plausible slip in that code:
\* the short-map branch goes straight to FREE_BUF_ON_ERROR.
AllocateCommonBufferNoUnmap(d, b, e) ==
    LET req == d.rec[b].size
        a == IF e.alloc
             THEN [d EXCEPT !.rec[b].ua = BytesToPages(req), !.pages[b] = @ + BytesToPages(req)]
             ELSE [d EXCEPT !.rec[b].size = 0]
        m == MapCommonBuffer(a, b, e.map, req - e.short)
    IN  CASE req = 0 -> [ok |-> FALSE, d |-> d]
          [] ~m.ok -> [ok |-> FALSE, d |-> FreeBufOnError(m.d, b)]
          [] m.d.rec[b].size # a.rec[b].size -> [ok |-> FALSE, d |-> FreeBufOnError(m.d, b)]
          [] OTHER -> [ok |-> TRUE, d |-> m.d]

\* UndiDmaAllocateCommonBuffer for a record whose Size is set, with the
\* platform outcome e = [alloc, map, short]: AllocateBuffer (on failure
\* Size = 0, and the map refuses it), RequestedSize, MapCommonBuffer; a
\* map error frees, a short map (by e.short bytes) unmaps and frees.
AllocateCommonBuffer(d, b, e) ==
    LET req == d.rec[b].size
        a == IF e.alloc
             THEN [d EXCEPT !.rec[b].ua = BytesToPages(req), !.pages[b] = @ + BytesToPages(req)]
             ELSE [d EXCEPT !.rec[b].size = 0]
        m == MapCommonBuffer(a, b, e.map, req - e.short)
    IN  CASE req = 0 -> [ok |-> FALSE, d |-> d]
          [] ~m.ok -> [ok |-> FALSE, d |-> FreeBufOnError(m.d, b)]
          [] m.d.rec[b].size # a.rec[b].size ->
                 [ok |-> FALSE, d |-> FreeBufOnError(UnmapMemory(m.d, b).d, b)]
          [] OTHER -> [ok |-> TRUE, d |-> m.d]

\* UndiDmaFreeCommonBuffer: refused for a zero Size, a NULL address or a
\* NULL PhysicalAddress; a failed unmap returns before the free.
FreeCommonBuffer(d, b) ==
    LET r == d.rec[b]
        u == UnmapMemory(d, b)
        f == FreeBuffer(u.d, b, BytesToPages(r.size))
    IN  IF r.size = 0 \/ r.ua = 0 \/ ~r.pa \/ ~u.ok THEN d
        ELSE [f EXCEPT !.rec[b].ua = 0, !.rec[b].size = 0]

=============================================================================
