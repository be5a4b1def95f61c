\* Two answers about two orders of one number; one edit, one crash.
CONSTANTS
    Deliveries = {d1, d2}
    Bodies <- MCBodies
    Orders <- MCOrders
    OrderNos = {"A"}
    OrderNo <- MCOrderNo
    Devices <- MCDevices
    DeviceOf <- MCDeviceOf
    Registered <- MCRegistered
    Statuses <- MCStatuses
    OrderStatus <- MCOrderStatus
    PENDING = "pending"
    None <- none
    none = none
    Edited = {1}
    MaxEdits = 1
    MaxCrashes = 1
SPECIFICATION FairSpec
INVARIANT
    TypeOK
    StoredWasShown
    ToldIsStored
    StatusMatchesResponse
    NewerAnswerWins
    EditsSurviveUnlessRaced
    NoticeGoesToTheOwner
PROPERTY
    EventuallyAnswered
