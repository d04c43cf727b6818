-------------------------- MODULE DirectoryArchive --------------------------
(***************************************************************************)
(* One use of crypto_archive.py: a backup packs a directory, a restoration *)
(* unpacks one, or, with what is listed instead of when it happens, either *)
(* of them or both after each other.                                       *)
(***************************************************************************)
EXTENDS ArchivePacking, ArchiveRestoring, ArchiveListing

ArchiveInit ==
    \/ PackingInit /\ NoRestoring /\ NoListing
    \/ NoPacking /\ RestoringInit /\ NoListing
    \/ NoPacking /\ NoRestoring /\ ListingInit

Packs == pack.pc # "off" /\ PackingNext /\ UNCHANGED <<restoringVars, listingVars>>
Restores == rest.pc # "off" /\ RestoringNext /\ UNCHANGED <<packingVars, listingVars>>
Lists == ListingNext /\ UNCHANGED <<packingVars, restoringVars>>

ArchiveNext == Packs \/ Restores \/ Lists

ArchiveSpec == ArchiveInit /\ [][ArchiveNext]_<<packingVars, restoringVars, listingVars>>
=============================================================================
