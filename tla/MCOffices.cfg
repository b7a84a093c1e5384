SPECIFICATION OfficesSpec
CONSTANTS
    r1 = r1
    r2 = r2
    b1 = b1
    b2 = b2
    u1 = u1
    u2 = u2
    a1 = a1
    a2 = a2
    g1 = g1
    Applications = {r1, r2}
    Payers = {u1}
    Bills = {b1, b2}
    PayerOf <- MCPayerOf
    Price <- MCPrice
    MaxInvoices = 3
    MaxYears = 1
    Radix = 3
    Limit = 3
    Callers = {r1, r2}
    MaxTickets = 3
    MaxMessages = 5
    MaxDays = 1
    LeadUsers = {u1}
    LeadVendors = {u1, u2}
    RateMax = 2
    RateWindow = 2
    MaxLeads = 4
    MaxRounds = 2
    MaxClock = 3
    MaxRestarts = 1
    Forms <- MCForms
    MinManufactureYear = 1
    CurrentYear = 2
    NoYear <- Missing
    MaxQuantity = 2
    Reviewers = {r1, r2}
    Inquirers = {r1}
    MaxListings = 1
    MaxInquiries = 1
    MaxEdits = 2
    RegForms <- MCRegForms
    NoDate <- Missing
    Clerks = {r1}
    RawPageSize = 3
    DefaultPageSize = 2
    MaxPageSize = 2
    MaxRegs = 3
    MaxChanges = 2
    MaxNow = 5
    Purposes = {"login", "register"}
    Senders = {1, 2}
    Cooldown = 1
    Windows <- MCWindows
    CodeTTL = 3
    VerifyAttempts = 2
    MaxCodes = 5
    MaxTime = 6
    Users = {u1}
    Browsers = {b1, b2}
    Operators = {r1, r2}
    Alerts = {a1, a2}
    TargetOf <- MCTargetOf
    AccessTTL = 1
    RefreshTTL = 2
    FrozenTTL = 2
    MaxPairs = 3
    MaxFreezes = 4
    MaxMoment = 3
    Visitors = {b1, b2}
    Identities = {a1, a2}
    Accounts = {u1, u2}
    WeChatTTL = 1
    MaxScans = 2
    MaxMinute = 1
    Members = {u1}
    Goods = {g1}
    OwnerOf <- MCOwnerOf
    CertTypes = {"gpu"}
    Warning = 1
    NoExpiry <- Missing
    Desks = {r1, r2}
    MaxQuals = 3
    MaxIdentities = 2
    MaxDay = 3
    MaxSweeps = 3
    WordSize = 64
    Base = 4
    MaxTotal = 20
    MaxOrderQuantity = 24
    MaxPeriods <- MCPeriods
    Offerings <- MCOfferings
    Checkouts = {r1}
    Quantities = {1, 2, 5, 24}
    Durations = {1, 2}
    Rates = {1, 3}
    Cycle <- MCCycle
    LeaseQuantity = 1
    RequestIds = {r1, r2}
    MaxPlaced = 2
    MaxListed = 1
    MaxPolicies = 1
    MaxQuotes = 2
    MaxHours = 2
    Applicants = {u1, u2}
    Starters = {r1}
    MaxSecond = 1
    MaxBindings = 2
    ExpectedBeats = 2
    Fleets <- MCFleets
    AdvisedOrders <- MCAdvisedOrders
    NoAdvice <- Missing
    Markets <- MCMarkets
    Requirements <- MCRequirements
    CandidatePool = 4
    MaxProductPageSize = 2
    MinMatchScore = 30
    MaxMatches = 2
    Answers <- MCAnswers
    Pieces = {1, 2, 5}
    SummaryLimit = 4
INVARIANTS
    LeadsAreFair
    CodesAreSafe
    SessionsAreSafe
    ScansAreTheirOwn
    AdviceIsSound
    WhatMeetsComesFirst
    SummariesAreTrue
PROPERTIES
    InvoicesAreTrue
    TicketsAreTrue
    EquipmentIsReviewed
    RegistrationsAreReliable
    SuppliersAreVetted
    ChargesAreRight
    NumbersAreReliable
CHECK_DEADLOCK FALSE
