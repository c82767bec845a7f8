------------------------------- MODULE Screens -------------------------------
(***************************************************************************)
(* One browser tab shows one screen at a time.  A behaviour mounts one of  *)
(* the screens modelled and stays on it, so each screen is specified       *)
(* alone: what two screens share (the session, the rentals) has modules of *)
(* its own.                                                                *)
(*                                                                         *)
(* Where several screens are one component of the source, their module is  *)
(* instantiated with the screen as a parameter; a constant that differs    *)
(* from screen to screen is a function of the screen.                      *)
(***************************************************************************)
EXTENDS Integers, FiniteSets

CONSTANTS
  Threads, NoThread, Sends, Arrivals, MaxLog, MaxGen, MaxDrops, MaxTries,  \* of Chat
  MaxFiles, MaxRows, MaxSaves,                                             \* of Documents
  MaxDay, Earliest, MaxDays, MaxRentals, MaxPolls, MaxMounts,              \* of Booking
  Contracts, Moving,                                                       \* of Signing
  Sources, MaxWeek, MaxKeys,                                               \* of Recurrence
  Rentals, Running, Cancelable, MaxHours,                                  \* of RentalDesk
  People, MaxForms,                                                        \* of AddressForm
  Machines, Addresses, MaxSelections, MaxSends, MaxInFlight,               \* of Listing
  Postings, Users, OwnerOf, MaxActions,                                    \* of ModerationDesk
  Registries, MaxMachines,                                                 \* of Equipment
  PlaceOf, StatesOf, SignedIn, Works, Soils, PageSize, MaxAsks, MaxVisits, MaxReads, MaxChanges,  \* of MachineSearch
  Ceps, MaxRequests, MaxRevision, MaxOpens                                 \* of several

\* "Minha Conta" is of somebody.
ASSUME UserAssumption == 1 \in People["account"]

VARIABLES screen, ui, db, net
vars == <<screen, ui, db, net>>

Chat == INSTANCE Chat WITH MaxRequests <- MaxRequests["messages"]

Booking == INSTANCE Booking

Series == INSTANCE Recurrence WITH MaxRevision <- MaxRevision["series"]

Desk == INSTANCE ModerationDesk WITH Owner <- OwnerOf

Fleet == INSTANCE Equipment WITH MaxOpens <- MaxOpens["fleet"]

PaperScreens == {"licences", "certificates"}
Papers(s) == INSTANCE Documents WITH
  Kinds <- IF s = "licences" THEN {"cnh"} ELSE {"certification"}, MaxFiles <- MaxFiles[s]

SigningScreens == {"owner signs", "tenant signs"}
Signs(s) == INSTANCE Signing WITH
  Owner <- s = "owner signs", Contracts <- Contracts[s], Moving <- Moving[s],
  MaxRevision <- MaxRevision[s], MaxOpens <- MaxOpens[s]

RentalScreens == {"reviews", "meter"}
Rents(s) == INSTANCE RentalDesk WITH
  Owner <- s = "meter", Rentals <- Rentals[s], Running <- Running[s], Cancelable <- Cancelable[s],
  MaxHours <- MaxHours[s]

FormScreens == {"team", "account", "signup"}
Forms(s) == INSTANCE AddressForm WITH
  Screen <- s, People <- People[s], Ceps <- Ceps[s], MaxForms <- MaxForms[s], MaxRequests <- MaxRequests[s]

ListingScreens == {"listing", "new listing"}
Lists(s) == INSTANCE Listing WITH
  Editing <- s = "listing", Machines <- Machines[s], Ceps <- Ceps[s], Addresses <- Addresses[s],
  MaxOpens <- MaxOpens[s], MaxSelections <- MaxSelections[s]

SearchScreens == {"finder", "search"}

\* A page has listings, and the listings of a screen are a table.
ASSUME SearchAssumption ==
  PageSize \in Nat \ {0} /\ \A s \in SearchScreens : IsFiniteSet(DOMAIN PlaceOf[s])

Finds(s) == INSTANCE MachineSearch WITH
  Place <- PlaceOf[s], StatesOf <- StatesOf[s], SignedIn <- SignedIn[s],
  MaxAsks <- MaxAsks[s], MaxVisits <- MaxVisits[s], MaxReads <- MaxReads[s]

\* Bounds are numbers.  The fleet starts with two machines, registered; a
\* contract has a first revision; a confirmation asks at least once.
ASSUME ChatBounds    == MaxLog \in Nat /\ MaxGen \in Nat
ASSUME BookingBounds == MaxDay \in Nat /\ MaxPolls \in Nat \ {0}
ASSUME SeriesBounds  == MaxRevision["series"] \in Nat /\ MaxWeek \in Nat /\ MaxKeys \in Nat
ASSUME FleetBounds   == {1, 2} \subseteq Registries /\ MaxMachines \in Nat \ {0, 1} /\ MaxOpens["fleet"] \in Nat
ASSUME PaperBounds   == \A s \in PaperScreens : MaxFiles[s] \in Nat
ASSUME SigningBounds == \A s \in SigningScreens : MaxRevision[s] \in Nat \ {0} /\ MaxOpens[s] \in Nat
ASSUME FormBounds    == \A s \in FormScreens : MaxForms[s] \in Nat /\ MaxRequests[s] \in Nat
ASSUME ListingBounds == \A s \in ListingScreens : MaxOpens[s] \in Nat
ASSUME SearchBounds  ==
  MaxChanges \in Nat /\ \A s \in SearchScreens : MaxAsks[s] \in Nat /\ MaxVisits[s] \in Nat /\ MaxReads[s] \in Nat

Init ==
  \/ screen = "messages" /\ Chat!Init
  \/ screen = "booking"  /\ Booking!Init
  \/ screen = "series"   /\ Series!Init
  \/ screen = "desk"     /\ Desk!Init
  \/ screen = "fleet"    /\ Fleet!Init
  \/ \E s \in PaperScreens   : screen = s /\ Papers(s)!Init
  \/ \E s \in SigningScreens : screen = s /\ Signs(s)!Init
  \/ \E s \in RentalScreens  : screen = s /\ Rents(s)!Init
  \/ \E s \in FormScreens    : screen = s /\ Forms(s)!Init
  \/ \E s \in ListingScreens : screen = s /\ Lists(s)!Init
  \/ \E s \in SearchScreens  : screen = s /\ Finds(s)!Init

Next ==
  /\ UNCHANGED screen
  /\ \/ screen = "messages" /\ Chat!Next
     \/ screen = "booking"  /\ Booking!Next
     \/ screen = "series"   /\ Series!Next
     \/ screen = "desk"     /\ Desk!Next
     \/ screen = "fleet"    /\ Fleet!Next
     \/ \E s \in PaperScreens   : screen = s /\ Papers(s)!Next
     \/ \E s \in SigningScreens : screen = s /\ Signs(s)!Next
     \/ \E s \in RentalScreens  : screen = s /\ Rents(s)!Next
     \/ \E s \in FormScreens    : screen = s /\ Forms(s)!Next
     \/ \E s \in ListingScreens : screen = s /\ Lists(s)!Next
     \/ \E s \in SearchScreens  : screen = s /\ Finds(s)!Next

Spec == Init /\ [][Next]_vars
-----------------------------------------------------------------------------
TypeOK ==
  /\ screen = "messages" => Chat!TypeOK
  /\ screen = "booking"  => Booking!TypeOK
  /\ screen = "series"   => Series!TypeOK
  /\ screen = "desk"     => Desk!TypeOK
  /\ screen = "fleet"    => Fleet!TypeOK
  /\ \A s \in PaperScreens   : screen = s => Papers(s)!TypeOK
  /\ \A s \in SigningScreens : screen = s => Signs(s)!TypeOK
  /\ \A s \in RentalScreens  : screen = s => Rents(s)!TypeOK
  /\ \A s \in FormScreens    : screen = s => Forms(s)!TypeOK
  /\ \A s \in ListingScreens : screen = s => Lists(s)!TypeOK
  /\ \A s \in SearchScreens  : screen = s => Finds(s)!TypeOK

\* A message sent again after a lost answer is stored once.
MessageOnce == screen = "messages" => Chat!MessageOnce

\* A message stored is shown once: the bubble it was written in gives way to it.
ShownOnce == screen = "messages" => Chat!ShownOnce

\* A message on the wrong conversation is one the reader wrote.
StrayIsOwn == screen = "messages" => Chat!StrayIsOwn

\* A licence created and not edited since is sent with the fields of its photograph.
PhotoBacksFields == \A s \in PaperScreens : screen = s => Papers(s)!PhotoBacksFields

\* One request of the tenant makes one rental while its hold lasts.
NoTwinRental == screen = "booking" => Booking!NoTwinRental

\* The tenant pays for the dates on screen, which are those the price was quoted for.
WhatIsPaidIsShown == screen = "booking" => Booking!WhatIsPaidIsShown

\* The revision a signature accepts is the one its signer had ticked as read.
AcceptedWasRead == \A s \in SigningScreens : screen = s => Signs(s)!AcceptedWasRead

\* A series of bookings is made once, whole, and is the one previewed.
SeriesOnce == screen = "series" => Series!SeriesOnce

\* The readings of an hour meter never go back.
ReadingsInOrder == \A s \in RentalScreens : screen = s => Rents(s)!ReadingsInOrder

\* The answer of a lookup fills the form it was made from.
LookupFillsItsForm == \A s \in FormScreens : screen = s => Forms(s)!LookupFillsItsForm

\* The point a listing keeps is of the address it keeps.
PointIsOfAddress == \A s \in ListingScreens : screen = s => Lists(s)!PointIsOfAddress

\* What was typed about one subject is never sent about another: a review, a
\* moderator's reason, the fields of a machine.
TextIsOfItsSubject ==
  /\ \A s \in RentalScreens : screen = s => Rents(s)!ReviewIsOfItsRental
  /\ screen = "desk"  => Desk!ReasonIsOfItsPosting
  /\ screen = "fleet" => Fleet!EditIsOfItsMachine

\* What is shown answers the question on screen: a price for the machine
\* chosen, the machines for the answers given, a page for the filters applied.
AnswerIsOfItsQuestion ==
  /\ \A s \in ListingScreens : screen = s => Lists(s)!SuggestionIsOfItsMachine
  /\ \A s \in SearchScreens  : screen = s => Finds(s)!ResultIsOfTheAnswers /\ Finds(s)!PageIsOfTheFilters
=============================================================================
