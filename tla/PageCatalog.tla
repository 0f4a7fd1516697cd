----------------------------- MODULE PageCatalog -----------------------------
(***************************************************************************)
(* network/page_manager/page_manager.c: the list of pages the web server   *)
(* serves, each in a block of memory of its own.  Memory and the list are  *)
(* libraries of the vendor: an allocation and an insertion may fail, and a *)
(* new page may come first or last in the list.                            *)
(***************************************************************************)
EXTENDS Integers, Sequences, FiniteSets, SequencesExt

CONSTANTS
  PageNames,   (* names of pages                                           *)
  PageSizes,   (* what pages and files may hold                            *)
  BLOCKS,      (* bound: blocks of memory for pages                        *)
  ADDED        (* bound: pages added under one name                        *)

ASSUME CatalogAssumption ==
  PageSizes \subseteq Nat /\ BLOCKS \in Nat /\ ADDED \in Nat

VARIABLES
  pages,       (* the list                                                 *)
  blocks,      (* blocks of memory that are allocated                      *)
  answer,      (* what the last call has returned                          *)
  added        (* history: for each name, the pages added under it with    *)
               (* success less those removed                               *)

catalogVars == <<pages, blocks, answer, added>>

Types == {"PAGE_STATIC", "PAGE_DYNAMIC", "PAGE_FLASH"}

(* page_set_details(): the size in the page is the one its source has.     *)
page_set_details(name, type, size) ==
  [name |-> name, storage_type |-> type, page_size |-> size, position |-> 0,
   handle |-> IF type = "PAGE_FLASH" THEN -1 ELSE 0]

(* page_manager_find_page() stops at the first page of the name.           *)
Place(name) == SelectInSeq(pages, LAMBDA p : p.name = name)

Inserted(p) == {<<p>> \o pages, Append(pages, p)}

-----------------------------------------------------------------------------
CatalogInit ==
  /\ pages = <<>> /\ blocks = 0 /\ answer = "PAGE_OK"
  /\ added = [n \in PageNames |-> 0]

(* The three calls that add a page differ in where its size comes from;    *)
(* that of a file which does not exist is what was in the memory.          *)
OutOfMemory ==
  /\ answer' = "PAGE_ERROR_INSERT"
  /\ UNCHANGED <<pages, blocks, added>>

Insert(p) ==
  /\ blocks < BLOCKS /\ added[p.name] < ADDED
  /\ pages' \in Inserted(p)
  /\ blocks' = blocks + 1
  /\ answer' = "PAGE_OK"
  /\ added' = [added EXCEPT ![p.name] = @ + 1]

(* Faulty variant: a page that is not inserted keeps its memory.           *)
InsertLeaks ==
  /\ blocks < BLOCKS
  /\ blocks' = blocks + 1
  /\ answer' = "PAGE_ERROR_INSERT"
  /\ UNCHANGED <<pages, added>>

InsertFails ==
  /\ blocks < BLOCKS
  /\ answer' = "PAGE_ERROR_INSERT"
  /\ UNCHANGED <<pages, blocks, added>>

page_manager_add(type) ==
  \E n \in PageNames, size \in PageSizes :
    \/ OutOfMemory
    \/ Insert(page_set_details(n, type, size))
    \/ InsertFails

Without(k) == RemoveAt(pages, k)

(* dlist_remove() has destroy_page() free the block.                       *)
RemovePage(n) ==
  /\ Place(n) # 0
  /\ pages' = Without(Place(n))
  /\ blocks' = blocks - 1
  /\ answer' = "PAGE_OK"
  /\ added' = [added EXCEPT ![n] = @ - 1]

RemoveNothing(n) ==
  /\ Place(n) = 0
  /\ answer' = "PAGE_ERROR_NOT_FOUND"
  /\ UNCHANGED <<pages, blocks, added>>

page_manager_remove_page == \E n \in PageNames : RemovePage(n) \/ RemoveNothing(n)

CatalogNext == (\E type \in Types : page_manager_add(type)) \/ page_manager_remove_page

CatalogSpec == CatalogInit /\ [][CatalogNext]_catalogVars

-----------------------------------------------------------------------------
(* The catalog keeps its promise to its callers, whichever calls have      *)
(* failed and also with several pages of a name: a page is found exactly   *)
(* while more were added under its name than removed, the list holds       *)
(* nobody else's, and each block of memory belongs to one page of it, so   *)
(* that nothing leaks and nothing in the list was freed.                   *)
CatalogKept ==
  /\ \A n \in PageNames : Cardinality({k \in 1 .. Len(pages) : pages[k].name = n}) = added[n]
  /\ blocks = Len(pages)

=============================================================================
