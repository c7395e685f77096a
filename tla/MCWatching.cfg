SPECIFICATION Spec
CONSTANTS
    freeze1 = freeze1
    freeze2 = freeze2
    watch1 = watch1
    watch2 = watch2
    alert1 = alert1
    client1 = client1
    client2 = client2
    Freezes <- TwoFreezes
    Watches <- TwoWatches
    Alerts <- OneAlert
    Clients <- TwoClients
    Values <- TwoValues
    FreezeVal <- Held
    WriteVal = 0
    AlertConfigs <- SomeConfigs
    Plans <- SomePlans
    None = None
INVARIANTS TypeOK PictureIsCurrent
PROPERTIES ChangesAreTold ChangedAlertSettles LastFreezeHolds HungUpIsForgotten StoppedTaskEnds
CHECK_DEADLOCK FALSE
