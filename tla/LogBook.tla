------------------------------ MODULE LogBook ------------------------------
(***************************************************************************)
(* What the log promises its readers: a book with a page for each quarter  *)
(* that is written from front to back, a row for a record.  A record can   *)
(* be refused, and the power can fail; then numbering starts anew, and the *)
(* page stays.  While the flash keeps the date of the log, only the last   *)
(* page is written.  Only a card that is not sound takes back what is      *)
(* written, by beginning a page a second time, or counts a record whose    *)
(* row is missing.                                                         *)
(***************************************************************************)
EXTENDS Integers

CONSTANTS
  Page,      \* numbers of pages, in order
  Absent,    \* the length of a page that has not been begun
  Capacity   \* bound: rows of a page, where counting stops

VARIABLES
  book,      \* the rows of each page
  number,    \* records since one was refused or the page was begun
  sound,     \* the card does what it is told
  damaged    \* the date of the log was not kept some time

bookVars == <<book, number, sound, damaged>>

BookInit ==
  /\ book = [page \in Page |-> Absent] /\ number = 0
  /\ sound = TRUE /\ damaged = FALSE

OneMore(n) == IF n < Capacity THEN n + 1 ELSE n

MayWrite(page) == damaged \/ \A other \in Page : book[other] # Absent => other <= page

Begin(page) ==
  /\ MayWrite(page) /\ (book[page] = Absent \/ ~ sound)
  /\ book' = [book EXCEPT ![page] = 0] /\ number' = 0
  /\ UNCHANGED <<sound, damaged>>

Head(page) ==
  /\ MayWrite(page) /\ book[page] = 0 /\ number = 0
  /\ book' = [book EXCEPT ![page] = 1]
  /\ UNCHANGED <<number, sound, damaged>>

Add(page) ==
  /\ MayWrite(page) /\ book[page] # Absent
  /\ book' = [book EXCEPT ![page] = OneMore(book[page])] /\ number' = OneMore(number)
  /\ UNCHANGED <<sound, damaged>>

Miss == ~ sound /\ number' = OneMore(number) /\ UNCHANGED <<book, sound, damaged>>

Refuse == number' = 0 /\ UNCHANGED <<book, sound, damaged>>

Damage == damaged' = TRUE /\ UNCHANGED <<book, number, sound>>

CardChanges == sound' = ~ sound /\ UNCHANGED <<book, number, damaged>>

BookNext ==
  \/ Miss \/ Refuse \/ Damage \/ CardChanges
  \/ \E page \in Page : Begin(page) \/ Head(page) \/ Add(page)

BookSpec == BookInit /\ [][BookNext]_bookVars
=============================================================================
