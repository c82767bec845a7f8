SPECIFICATION Spec
CONSTANTS
  Threads = {t1, t2}
  NoThread = NoThread
  Sends = {"c1"}
  Arrivals = {"p1"}
  MaxLog = 2
  MaxGen = 2
  MaxDrops = 1
  MaxTries = 1
  MaxFiles <- MCFiles
  MaxRows = 1
  MaxSaves = 1
  MaxDay = 3
  Earliest = 2
  MaxDays = 2
  MaxRentals = 2
  MaxPolls = 2
  MaxMounts = 2
  Contracts <- MCContracts
  Moving <- MCMoving
  Sources = {1, 2}
  MaxWeek = 3
  MaxKeys = 2
  Rentals <- MCRentals
  Running <- MCRunning
  Cancelable <- MCCancelable
  MaxHours <- MCHours
  People <- MCPeople
  MaxForms <- MCForms
  Machines <- MCMachines
  Addresses <- MCAddresses
  MaxSelections <- MCSelections
  MaxSends = 1
  MaxInFlight = 1
  Postings = {1, 2}
  Users = {3}
  OwnerOf <- MCOwnerOf
  MaxActions = 2
  Registries = {1, 2, 3}
  MaxMachines = 3
  PlaceOf <- MCPlaceOf
  StatesOf <- MCStatesOf
  SignedIn <- MCSignedIn
  Works = {1, 2}
  Soils = {0}
  PageSize = 1
  MaxAsks <- MCAsks
  MaxVisits <- MCVisits
  MaxReads <- MCReads
  MaxChanges = 1
  Ceps <- MCCeps
  MaxRequests <- MCRequests
  MaxRevision <- MCRevision
  MaxOpens <- MCOpens
SYMMETRY Symmetry
CHECK_DEADLOCK FALSE
INVARIANTS TypeOK MessageOnce ShownOnce StrayIsOwn PhotoBacksFields NoTwinRental WhatIsPaidIsShown AcceptedWasRead SeriesOnce ReadingsInOrder LookupFillsItsForm PointIsOfAddress TextIsOfItsSubject AnswerIsOfItsQuestion
