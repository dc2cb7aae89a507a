----------------------------- MODULE NpuMemory -----------------------------
(***************************************************************************)
(* The buffers of the NPU driver (rknpu_gem.c): what a creation acquires,  *)
(* step by step, and what the labels of its error paths give back.  Pure   *)
(* operators over sets of resources.  The RK3566 has no NPU IOMMU, SRAM or *)
(* NBUF in this build, so every buffer is one contiguous DMA allocation.   *)
(***************************************************************************)
EXTENDS Naturals, Sequences, SequencesExt

\* In the order of their acquisition: the object and its backing file
\* (rknpu_gem_init), the page array, the DMA memory, the scatter table and its
\* entries, the pages in the array (rknpu_gem_alloc_buf), the handle.
Acquisitions == <<"object", "file", "pages", "dma", "sgt", "entries", "filled", "handle">>
Buffer == {"pages", "dma", "sgt", "entries", "filled"}

AcquiredBefore(step) ==
  {Acquisitions[i] : i \in 1..(SelectInSeq(Acquisitions, LAMBDA a : a = step) - 1)}

\* rknpu_gem_alloc_buf: the labels, each falling through to the next one.
ErrFree == {"pages"}
ErrFreeDma == {"dma"} \cup ErrFree
ErrFreeSgt == {"sgt"} \cup ErrFreeDma
ErrFreeSgTable == {"entries"} \cup ErrFreeSgt

BufferUndo(step) == CASE step = "pages" -> {}
                      [] step = "dma" -> ErrFree
                      [] step = "sgt" -> ErrFreeDma
                      [] step = "entries" -> ErrFreeSgt
                      [] step = "filled" -> ErrFreeSgTable

Release == {"object", "file"}

\* What rknpu_gem_create_ioctl leaves when the given step fails: kzalloc fails
\* with nothing to undo, drm_gem_object_init frees the object, the buffer undoes
\* itself and the object is released, and without a handle it is destroyed.
LeftAfter(step) ==
  AcquiredBefore(step) \
    CASE step = "object" -> {}
      [] step = "file"   -> {"object"}
      [] step \in Buffer -> BufferUndo(step) \cup Release
      [] step = "handle" -> Buffer \cup Release

Created == ToSet(Acquisitions)

-----------------------------------------------------------------------------
(* A buffer of another exporter, which DRM attaches and maps first, detaches  *)
(* when the driver fails, and gives its handle last.                          *)

Imports == <<"attachment", "object", "file", "pages", "filled", "handle">>
Imported == ToSet(Imports)

\* rknpu_gem_prime_import_sg_table: err_free_large, falling through to err.
ErrFreeLarge == {"pages"} \cup Release

\* What an import leaves that fails at the given step.
ImportLeft(step) ==
  {Imports[i] : i \in 1..(SelectInSeq(Imports, LAMBDA s : s = step) - 1)} \
    ({"attachment"} \cup
       CASE step \in {"attachment", "object"} -> {}
         [] step = "file"   -> {"object"}
         [] step = "pages"  -> Release
         [] step = "filled" -> ErrFreeLarge)

-----------------------------------------------------------------------------
\* rknpu_gem_object_destroy: the memory of an imported buffer is its exporter's.
ObjectDestroy(held) ==
  Release \cup IF "attachment" \in held THEN {"attachment", "pages", "filled"} ELSE Buffer

\* What is left of a buffer when its last reference is dropped.
AfterFree(held) == held \ ({"handle"} \cup ObjectDestroy(held))
=============================================================================
