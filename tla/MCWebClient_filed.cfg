SPECIFICATION WebSpec
CONSTANTS
  CompMatches <- MCMatches
  CompCities = {"tehran", "tabriz"}
  CompVenues = {"azadi", "yadegar", "hall", "empty"}
  CompLeagues = {"league", "cup"}
  CompQueries = {"tehran"}
  CompPrices = {200}
  PerPage = 2
  NoChoice = NoChoice
  SearchTickets <- MCTickets
  Now = 3
  Limit = 2
  Absent = Absent
  SearchCities = {"tehran"}
  SearchLeagues = {"league"}
  SearchPrices = {100}
  SearchDates = {5}
  Zone = 1
  MaxLoads = 3
  DeskReports = {1, 2}
  DeskStays = {1}
  DeskLimit = 1
  DeskTexts = {answer, amended}
  NoText = NoText
  MaxVersion = 2
  DeskVerdicts = {"reviewed"}
  MaxDeskCalls = 1
  MaxOthers = 2
  DeskFilters = {"pending"}
  MaxDeskLoads = 3
  RepIds = {1, 2}
  OwnStays = {1, 2}
  OwnPayments = {1}
  RepTickets = {2}
  NoId = NoId
  MaxSubmits = 2
  Rules <- MCRules
  Endless = Endless
  NoAmount = NoAmount
  StayPrice = 100
  StartHours = 3
  MaxPayTries = 2
  MaxCancelTries = 2
CHECK_DEADLOCK FALSE
INVARIANT
  ReportFiledIsSeen
