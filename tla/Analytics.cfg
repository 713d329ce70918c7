CONSTANTS
    None = None
    Error = Error
    MonthStarts <- MCMonthStarts
    YearStarts <- MCYearStarts
    OrderIds = {o1, o2, o3}
    Shapes <- MCShapes
    Today <- MCToday
    Customers <- MCCustomers
    Sellers <- MCSellers
    Products <- MCProducts
    English <- MCEnglish
    Spaces <- MCSpaces
    Closest <- MCClosest
    Statuses <- MCStatuses
    PaymentTypes <- MCPaymentTypes
    Shown = 2
    Leaders = 1
    DatesAsked <- MCDatesAsked
    CitiesAsked <- MCCitiesAsked
SPECIFICATION Spec
INVARIANTS
    CountsAgree
    RevenueAddsUp
    SellerToolsAgree
    SalesToolsAgree
    CustomerToolsAgree
    RatingsAddUp
    PagesCover
    DeliveriesConsistent
    WindowsTile
    CohortsDisjoint
CHECK_DEADLOCK FALSE
